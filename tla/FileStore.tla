----------------------------- MODULE FileStore -----------------------------
(***************************************************************************)
(* What a file system owes to the FUSE kernel module, with no word about   *)
(* blocks: files with a content, directories that are lists of names, and  *)
(* calls that either do what they say in one step or answer an error and   *)
(* change nothing.  Only a call that may need space can be refused for     *)
(* lack of it.  SingleNodeFS is shown to implement this specification.     *)
(***************************************************************************)
EXTENDS Integers, FiniteSetsExt, Sequences, SequencesExt, TLC

CONSTANTS
    Inode, Root,   \* inode numbers; the one of the root directory
    Name,
    Value, Zero,   \* what a unit of a file may hold; what new space holds
    MaxSize,       \* bound: offsets and sizes in calls
    BufLen         \* bound: units in a write

VARIABLES
    files,   \* type and content (units or entries) of every inode there is
    reply    \* the last call and its error code

vars == <<files, reply>>

OfType(t) == LET f == files IN {i \in DOMAIN f : f[i].type = t}
Names(d) == {e[1] : e \in ToSet(files[d].content)}
New(t) == [type |-> t, content |-> <<>>]

Answer(op, error) == reply' = [op |-> op, error |-> error]

\* c cut or filled up to sz units.
Resized(c, sz) == [k \in 1 .. sz |-> IF k <= Len(c) THEN c[k] ELSE Zero]

\* c with buf at offset off.
Overwritten(c, off, buf) ==
    [k \in 1 .. Max({off + Len(buf), Len(c)}) |->
       IF k \in off + 1 .. off + Len(buf) THEN buf[k - off]
       ELSE IF k <= Len(c) THEN c[k] ELSE Zero]

Init ==
    /\ files = (Root :> New("Directory"))
    /\ reply = [op |-> "mount", error |-> "OK"]

\* A free inode i gets type t and, as the last entry of a directory d, a new name.
make(op, t) ==
    LET f == files
    IN  /\ Answer(op, "OK")
        /\ files' \in {(i :> New(t)) @@ [f EXCEPT ![x[1]].content = Append(@, <<x[2], i>>)] :
                          i \in Inode \ DOMAIN f,
                          x \in {y \in OfType("Directory") \X Name : y[2] \notin Names(y[1])}}

\* An entry e of a directory d goes, and the file it names with it.
Without(f, d, e) ==
    [i \in DOMAIN f \ {e[2]} |->
       IF i # d THEN f[i]
       ELSE [f[d] EXCEPT !.content = SelectSeq(@, LAMBDA x : x # e)]]

unlink ==
    LET f == files
    IN  /\ Answer("unlink", "OK")
        /\ files' \in UNION {{Without(f, d, e) :
                               e \in {x \in ToSet(f[d].content) : x[2] \in OfType("FILE")}} :
                             d \in OfType("Directory")}

Buffers == UNION {[1 .. BufLen -> {v}] : v \in Value}

write ==
    LET f == files
    IN  /\ Answer("write", "OK")
        /\ files' \in {[f EXCEPT ![i].content = Overwritten(@, off, buf)] :
                          i \in OfType("FILE"), off \in 0 .. MaxSize, buf \in Buffers}

setattr ==
    LET f == files
    IN  /\ Answer("setattr", "OK")
        /\ files' \in {[f EXCEPT ![i].content = Resized(@, sz)] :
                          i \in OfType("FILE"), sz \in 0 .. MaxSize}

\* A name that is there cannot be made, one that is not cannot be removed.
exists(op) ==
    /\ Answer(op, "EEXIST")
    /\ \E d \in OfType("Directory") : Names(d) # {}
    /\ UNCHANGED files

absent ==
    /\ Answer("unlink", "ENOENT")
    /\ \E d \in OfType("Directory") : Name \ Names(d) # {}
    /\ UNCHANGED files

\* A call that may need space can be refused: it changes nothing.
refuse(op, error) ==
    /\ Answer(op, error)
    /\ UNCHANGED files

Next ==
    \/ make("mknod", "FILE")
    \/ make("mkdir", "Directory")
    \/ unlink
    \/ write
    \/ setattr
    \/ exists("mknod")
    \/ exists("mkdir")
    \/ absent
    \/ refuse("mknod", "ENOENT")
    \/ \E op \in {"mkdir", "write", "setattr"} : refuse(op, "ENOSYS")

Spec == Init /\ [][Next]_vars
=============================================================================
