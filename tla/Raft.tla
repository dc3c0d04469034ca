-------------------------------- MODULE Raft --------------------------------
(***************************************************************************)
(* A cluster of Raft nodes (rsm/raft/node.h) and the calls between them.   *)
(*                                                                         *)
(* The background threads put a call in the pool of 32 threads; a pool     *)
(* thread takes clients_mtx, makes the call, gives clients_mtx up and only *)
(* then runs the handler of the answer.  So calls wait in any order, a     *)
(* call may be made long after its node has moved on, and answers wait for *)
(* mtx in any order too.  rpc holds the calls that are not made yet and    *)
(* replies the answers that are not handled yet.  The commit and the ping  *)
(* thread repeat a call every 50 or 100 ms as long as nothing changes, so  *)
(* further copies of a call that has been made may still wait; a call for  *)
(* a vote is put in the pool once.  A call of a disconnected or unreliable *)
(* client is dropped, or made without an answer (librpc/client.h).         *)
(*                                                                         *)
(* A node may crash between two handlers and start again from its file.    *)
(* Its calls that are on the wire may still be made (wait is FALSE then),  *)
(* but nobody handles the answers.                                         *)
(***************************************************************************)
EXTENDS RaftNode

CONSTANTS
    MaxTerm,      \* no election beyond this term
    MaxIndex,     \* no command beyond this index
    MaxRpc,       \* calls waiting in the pools
    MaxReplies,   \* answers waiting to be handled
    MaxRestarts,  \* crashes, aborts included
    Snapshotters  \* nodes on which a client calls save_snapshot

ASSUME BoundsAssumption ==
    /\ MaxTerm \in Nat /\ MaxIndex \in Nat /\ MaxIndex < LogBlocks
    /\ MaxRpc \in Nat /\ MaxReplies \in Nat /\ MaxRestarts \in Nat
    /\ Snapshotters \subseteq Node

VARIABLES
    node,      \* the members of every node
    rpc,       \* calls in the pools or on the wire
    replies,   \* answers waiting for mtx of the caller
    pending,   \* <<n, v>>: new_command(v) on n is between its test and mtx
    restarts   \* crashes so far

vars == <<node, rpc, replies, pending, restarts>>

Init ==
    /\ node = [n \in Node |-> Construct(BlankStorage)]
    /\ rpc = {} /\ replies = {} /\ pending = {} /\ restarts = 0

-----------------------------------------------------------------------------
\* Put calls in the pool.
Enqueue(calls) ==
    /\ rpc' = rpc \union {[call |-> c, wait |-> TRUE] : c \in calls}
    /\ Cardinality(rpc') <= MaxRpc

\* Node r.call.to has run the handler for r; the answer reaches the caller,
\* or is lost (and is always lost when the caller has crashed since).
Answer(r, term, ok) ==
    \/ replies' = replies
    \/ /\ r.wait
       /\ replies' = replies \union {[call |-> r.call, term |-> term, ok |-> ok]}
       /\ Cardinality(replies') <= MaxReplies

\* Process n dies with d on its disk and is started again.
Reboot(n, d) ==
    /\ restarts < MaxRestarts
    /\ restarts' = restarts + 1
    /\ node' = [node EXCEPT ![n] = Construct(d)]
    /\ rpc' = {[r EXCEPT !.wait = @ /\ r.call.from # n] : r \in rpc}
    /\ replies' = {p \in replies : p.call.from # n}
    /\ pending' = {c \in pending : c[1] # n}

-----------------------------------------------------------------------------
\* The background threads

BackgroundElection(n) ==
    LET s == StartElection(node[n], n)
    IN  /\ node[n].role # "Leader"
        /\ node[n].current_term < MaxTerm
        /\ node' = [node EXCEPT ![n] = s]
        /\ Enqueue({RequestVoteArgs(s, n, m) : m \in Node \ {n}})
        /\ UNCHANGED <<replies, pending, restarts>>

BackgroundCommit(n) ==
    /\ node[n].role = "Leader"
    /\ CommitMessages(node[n], n) # {}
    /\ Enqueue(CommitMessages(node[n], n))
    /\ UNCHANGED <<node, replies, pending, restarts>>

BackgroundPing(n) ==
    /\ node[n].role = "Leader"
    /\ \E junk \in 0 .. MaxTerm : Enqueue(PingMessages(node[n], n, junk))
    /\ UNCHANGED <<node, replies, pending, restarts>>

BackgroundApply(n) ==
    /\ node[n].commitIndex > node[n].lastApplied
    /\ \E junk \in Cmd : node' = [node EXCEPT ![n] = apply_logs(@, junk)]
    /\ UNCHANGED <<rpc, replies, pending, restarts>>

\* The operations clients call

\* new_command tests the role without mtx ...
NewCommandTest(n, v) ==
    /\ node[n].role = "Leader"
    /\ pending' = pending \union {<<n, v>>}
    /\ UNCHANGED <<node, rpc, replies, restarts>>

\* ... and appends once it has mtx.
NewCommandAppend(n, v) ==
    /\ <<n, v>> \in pending
    /\ back(node[n].log).index < MaxIndex
    /\ pending' = pending \ {<<n, v>>}
    /\ node' = [node EXCEPT ![n] = new_command(@, n, v)]
    /\ UNCHANGED <<rpc, replies, restarts>>

SaveSnapshot(n) ==
    /\ n \in Snapshotters
    /\ node' = [node EXCEPT ![n] = save_snapshot(@)]
    /\ UNCHANGED <<rpc, replies, pending, restarts>>

-----------------------------------------------------------------------------
\* A call is made: the handler runs on the node called.

RequestVote(r) ==
    LET a == r.call
        s == node[a.to]
    IN  /\ a.type = "request_vote"
        /\ node' = [node EXCEPT ![a.to] = request_vote(@, a)]
        /\ rpc' = rpc \ {r}
        /\ Answer(r, max(a.term, s.current_term), VoteGranted(s, a))
        /\ UNCHANGED <<pending, restarts>>

AppendEntries(r) ==
    LET a == r.call
        s == node[a.to]
    IN  /\ a.type = "append_entries"
        /\ node' = [node EXCEPT ![a.to] = append_entries(@, a)]
        /\ Answer(r, max(a.term, s.current_term),
                  a.term >= s.current_term /\ AppendMatches(s, a))
        /\ UNCHANGED <<rpc, pending, restarts>>

\* The answer carries the term from before the step-down.
InstallSnapshot(r) ==
    LET a == r.call
        s == node[a.to]
    IN  /\ a.type = "install_snapshot"
        /\ node' = [node EXCEPT ![a.to] = install_snapshot(@, a)]
        /\ Answer(r, s.current_term, TRUE)
        /\ UNCHANGED <<rpc, pending, restarts>>

\* No connection, or an unreliable client that drops the call.
DropCall(r) ==
    /\ rpc' = rpc \ {r}
    /\ UNCHANGED <<node, replies, pending, restarts>>

\* The handlers of the answers, on the caller.
HandleReply(p) ==
    LET n == p.call.from
        m == p.call.to
    IN  /\ node' = [node EXCEPT ![n] =
                CASE p.call.type = "request_vote" ->
                        handle_request_vote_reply(@, n, m, p)
                  [] p.call.type = "append_entries" ->
                        handle_append_entries_reply(@, m, p.call, p)
                  [] p.call.type = "install_snapshot" ->
                        handle_install_snapshot_reply(@, m, p.call, p)]
        /\ replies' = replies \ {p}
        /\ UNCHANGED <<rpc, pending, restarts>>

-----------------------------------------------------------------------------
\* Crashes

\* A crash between two handlers.  It also stands for the aborts inside
\* handle_append_entries_reply (counting beyond matchCount), the ping and the
\* apply thread (reading behind the end of the log): none of them has written
\* to the file before it fails.
Restart(n) == Reboot(n, node[n].log_storage)

\* append_entries and install_snapshot index the log before its front, after
\* the step-down has been persisted.
AbortInCall(r) ==
    LET a == r.call
        s == node[a.to]
        index == IF a.type = "append_entries" THEN a.prevLogIndex
                 ELSE a.lastIncludedIndex
    IN  /\ a.type # "request_vote"
        /\ a.term >= s.current_term
        /\ index < front(s.log)
        /\ Reboot(a.to, Acknowledge(s, a.term).log_storage)

Next ==
    \/ \E n \in Node : \/ BackgroundElection(n)
                       \/ BackgroundCommit(n)
                       \/ BackgroundPing(n)
                       \/ BackgroundApply(n)
                       \/ SaveSnapshot(n)
                       \/ Restart(n)
    \/ \E n \in Node, v \in Value : NewCommandTest(n, v) \/ NewCommandAppend(n, v)
    \/ \E r \in rpc : \/ RequestVote(r)
                      \/ AppendEntries(r)
                      \/ InstallSnapshot(r)
                      \/ DropCall(r)
                      \/ AbortInCall(r)
    \/ \E p \in replies : HandleReply(p)

Spec == Init /\ [][Next]_vars

-----------------------------------------------------------------------------
\* Properties

NodeState ==
    [current_term : Nat, votedFor : Node \union {None}, role : Role,
     votesFrom : SUBSET Node, log : Seq(Entry), snapshot : Seq(Cmd),
     state : Seq(Cmd), commitIndex : Nat, lastApplied : Nat,
     nextIndex : [Node -> Nat], matchIndex : [Node -> Nat],
     matchCount : Seq(Nat), log_storage : Storage]

Call ==
    [type : {"request_vote"}, from : Node, to : Node, term : Nat,
     lastLogIndex : Nat, lastLogTerm : Nat]
    \union
    [type : {"append_entries"}, from : Node, to : Node, term : Nat,
     prevLogIndex : Nat, prevLogTerm : Nat, entries : Seq(Entry),
     leaderCommit : Nat]
    \union
    [type : {"install_snapshot"}, from : Node, to : Node, term : Nat,
     lastIncludedIndex : Nat, lastIncludedTerm : Nat, snapshot : Seq(Cmd)]

\* Every member of a node, every call and every answer has its type.
TypeOK ==
    /\ node \in [Node -> NodeState]
    /\ rpc \subseteq [call : Call, wait : BOOLEAN]
    /\ replies \subseteq [call : Call, term : Nat, ok : BOOLEAN]
    /\ pending \subseteq Node \X Value
    /\ restarts \in 0 .. MaxRestarts

\* Entries that follow one another from position 1 on, with this first index.
Consecutive(log, first) == \A i \in 1 .. Len(log) : log[i].index = first + i - 1

LogOK(s) == s.log # <<>> /\ Consecutive(s.log, front(s.log))

CallOK(c) ==
    c.type = "append_entries" => Consecutive(c.entries, c.prevLogIndex + 1)

\* The code finds the entry with index i at position i - log.front().index
\* (node.h:390, 536, 633, 675, 957, 1004, 1055).  That is right only if no
\* log ever has a gap, is never empty, and the entries a leader sends start
\* right after prevLogIndex, whatever erasing, inserting, snapshotting and
\* restarting the nodes do and however late a call arrives.
LogsAreConsecutive ==
    /\ \A n \in Node : LogOK(node[n])
    /\ \A r \in rpc : CallOK(r.call)

RestoreOK(s) ==
    /\ s.log_storage.hasLogPersisted
    /\ restore(s.log_storage) =
         [current_term |-> s.current_term, votedFor |-> s.votedFor,
          log |-> s.log, snapshot |-> s.snapshot]

\* Whatever handler a crash follows, the constructor restores exactly the
\* term, the vote, the log and the snapshot the node had in memory
\* (node.h:213-219, log.h:103): the range writes of updateLogsWithRange never
\* leave an entry of a truncated log readable, nor miss a new one.
RestoreIsExact == \A n \in Node : RestoreOK(node[n])

\* A node never applies an entry its snapshot already covers, and never looks
\* for an entry to apply before the front of its log (node.h:1004).
AppliedCoversSnapshot ==
    \A n \in Node : node[n].lastApplied >= front(node[n].log)

\* Logs stay within the device, so every entry has a block: what the three
\* properties above need to be inductive (proved in RaftProofs).
CallFits(c) ==
    /\ c.type = "append_entries" /\ c.entries # <<>> =>
           c.prevLogIndex + Len(c.entries) <= MaxIndex
    /\ c.type = "install_snapshot" => c.lastIncludedIndex <= MaxIndex

Fits ==
    /\ \A n \in Node : back(node[n].log).index <= MaxIndex
    /\ \A r \in rpc : CallFits(r.call)

\* The inductive invariant.
IInv ==
    /\ TypeOK /\ LogsAreConsecutive /\ RestoreIsExact
    /\ AppliedCoversSnapshot /\ Fits

\* At most one node leads in a term (test/rsm/raft_test.h:118).
ElectionSafety ==
    \A m, n \in Node :
        /\ node[m].role = "Leader" /\ node[n].role = "Leader"
        /\ node[m].current_term = node[n].current_term
        => m = n

\* Nodes apply the same commands in the same order (docs/lab3/raft.md:11).
StateMachineSafety ==
    \A m, n \in Node :
        \A i \in 1 .. min(Len(node[m].state), Len(node[n].state)) :
            node[m].state[i] = node[n].state[i]
=============================================================================
