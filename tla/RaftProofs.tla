----------------------------- MODULE RaftProofs -----------------------------
(***************************************************************************)
(* The theorems about the cluster of module Raft, for any set of nodes and *)
(* commands and any bounds: IInv is inductive, so the properties it        *)
(* contains hold in every reachable state.  The handlers are dealt with in *)
(* RaftNodeProofs; here calls, answers and crashes come in.                *)
(***************************************************************************)
EXTENDS RaftNodeProofs

-----------------------------------------------------------------------------
\* The cluster.  IInv speaks of the state property by property; the proofs need
\* it node by node and call by call.

NodesInv == node \in [Node -> NodeState] /\ \A n \in Node : NodeInv(node[n])

CallsInv ==
    \A r \in rpc : r \in [call : Call, wait : BOOLEAN] /\ CallInv(r.call)

RepliesInv == replies \subseteq [call : Call, term : Nat, ok : BOOLEAN]

RestInv == pending \subseteq Node \X Value /\ restarts \in 0 .. MaxRestarts

\* The inductive invariant, split by node, call and answer.
LEMMA IInvByParts == IInv <=> NodesInv /\ CallsInv /\ RepliesInv /\ RestInv
  <1>1. IInv => NodesInv
    BY DEF IInv, TypeOK, LogsAreConsecutive, RestoreIsExact,
           AppliedCoversSnapshot, Fits, NodesInv, NodeInv
  <1>2. IInv => CallsInv
    BY DEF IInv, TypeOK, LogsAreConsecutive, Fits, CallsInv, CallInv
  <1>3. IInv => RepliesInv /\ RestInv
    BY DEF IInv, TypeOK, RepliesInv, RestInv
  <1>4. NodesInv /\ CallsInv /\ RepliesInv /\ RestInv => TypeOK
    BY DEF TypeOK, NodesInv, CallsInv, RepliesInv, RestInv
  <1>5. NodesInv /\ CallsInv => LogsAreConsecutive /\ Fits
    BY DEF NodesInv, CallsInv, NodeInv, CallInv, LogsAreConsecutive, Fits
  <1>6. NodesInv => RestoreIsExact /\ AppliedCoversSnapshot
    BY DEF NodesInv, NodeInv, RestoreIsExact, AppliedCoversSnapshot
  <1> QED
    BY <1>1, <1>2, <1>3, <1>4, <1>5, <1>6, SMTT(30) DEF IInv

\* One node takes a step that preserves its invariant.
LEMMA NodeStepLemma ==
    ASSUME NodesInv, NEW n \in Node, NEW t, NodeInv(t),
           node' = [node EXCEPT ![n] = t]
    PROVE  NodesInv'
  <1>1. t \in NodeState
    BY DEF NodeInv
  <1>2. node' \in [Node -> NodeState]
    BY <1>1 DEF NodesInv
  <1>3. ASSUME NEW m \in Node
        PROVE  NodeInv(node'[m])
    BY DEF NodesInv
  <1> QED
    BY <1>2, <1>3 DEF NodesInv

\* New calls that satisfy their invariant join the pool.
LEMMA EnqueueLemma ==
    ASSUME CallsInv, NEW calls, \A c \in calls : CallInv(c), Enqueue(calls)
    PROVE  CallsInv'
  <1>1. \A c \in calls : c \in Call
    BY DEF CallInv
  <1>2. ASSUME NEW r \in rpc'
        PROVE  r \in [call : Call, wait : BOOLEAN] /\ CallInv(r.call)
    <2>1. CASE r \in rpc
      BY <2>1 DEF CallsInv
    <2>2. CASE r \notin rpc
      <3>1. PICK c \in calls : r = [call |-> c, wait |-> TRUE]
        BY <2>2 DEF Enqueue
      <3> QED
        BY <1>1, <3>1
    <2> QED
      BY <2>1, <2>2
  <1> QED
    BY <1>2 DEF CallsInv

\* An answer to a call of a good set of calls is a good answer.
LEMMA AnswerLemma ==
    ASSUME RepliesInv, CallsInv, NEW r \in rpc, NEW t \in Nat, NEW ok \in BOOLEAN,
           Answer(r, t, ok)
    PROVE  RepliesInv'
  BY DEF RepliesInv, CallsInv, Answer

\* A node that is started again from a good file leaves everything else good.
LEMMA RebootLemma ==
    ASSUME NodesInv, CallsInv, RepliesInv, RestInv, NEW n \in Node, NEW d,
           NodeInv(Construct(d)), Reboot(n, d)
    PROVE  NodesInv' /\ CallsInv' /\ RepliesInv' /\ RestInv'
  <1>1. NodesInv'
    BY NodeStepLemma, Zenon DEF Reboot
  <1>2. CallsInv'
    <2>1. ASSUME NEW q \in rpc'
          PROVE  q \in [call : Call, wait : BOOLEAN] /\ CallInv(q.call)
      <3>1. PICK r \in rpc : q = [r EXCEPT !.wait = @ /\ r.call.from # n]
        BY DEF Reboot
      <3>2. r \in [call : Call, wait : BOOLEAN] /\ CallInv(r.call)
        BY DEF CallsInv
      <3> QED
        BY <3>1, <3>2, Zenon
    <2> QED
      BY <2>1 DEF CallsInv
  <1>3. RepliesInv'
    BY DEF RepliesInv, Reboot
  <1>4. RestInv'
    BY BoundsAssumption DEF RestInv, Reboot
  <1> QED
    BY <1>1, <1>2, <1>3, <1>4

\* Every initial state satisfies the invariant.
THEOREM InitIInv == Init => IInv
  <1> SUFFICES ASSUME Init PROVE IInv
    OBVIOUS
  <1>1. NodesInv
    <2>1. NodeInv(Construct(BlankStorage))
      BY InitLemma
    <2>2. Construct(BlankStorage) \in NodeState
      BY <2>1 DEF NodeInv
    <2> QED
      BY <2>1, <2>2 DEF Init, NodesInv
  <1>2. CallsInv /\ RepliesInv
    BY DEF Init, CallsInv, RepliesInv
  <1>3. RestInv
    BY BoundsAssumption DEF Init, RestInv
  <1> QED
    BY <1>1, <1>2, <1>3, IInvByParts

\* Every step of the cluster preserves the invariant: one step per action.
THEOREM NextIInv == IInv /\ [Next]_vars => IInv'
  <1> SUFFICES ASSUME NodesInv, CallsInv, RepliesInv, RestInv, [Next]_vars
               PROVE  NodesInv' /\ CallsInv' /\ RepliesInv' /\ RestInv'
    BY IInvByParts, PTL
  <1> USE DEF CallsInv, RepliesInv, RestInv
  <1>n. \A n \in Node : NodeInv(node[n])
    BY DEF NodesInv
  <1>r. \A r \in rpc : /\ CallInv(r.call) /\ r.call \in Call /\ r.call.to \in Node
                       /\ r.call.from \in Node /\ r.call.term \in Nat
                       /\ r.wait \in BOOLEAN
    BY CallFacts
  <1>t. \A n \in Node : node[n].current_term \in Nat
    BY <1>n DEF NodeInv, NodeState
  <1>1. ASSUME NEW n \in Node, BackgroundElection(n)
        PROVE  NodesInv' /\ CallsInv' /\ RepliesInv' /\ RestInv'
    <2> DEFINE s == StartElection(node[n], n)
    <2>1. NodeInv(s)
      BY <1>n, StartElectionLemma
    <2> HIDE DEF s
    <2>2. node' = [node EXCEPT ![n] = s]
          /\ Enqueue({RequestVoteArgs(s, n, m) : m \in Node \ {n}})
          /\ UNCHANGED <<replies, pending, restarts>>
      BY <1>1 DEF BackgroundElection, s
    <2>3. \A c \in {RequestVoteArgs(s, n, m) : m \in Node \ {n}} : CallInv(c)
      BY <2>1, RequestVoteArgsLemma
    <2>4. CallsInv'
      BY <2>2, <2>3, EnqueueLemma
    <2>5. NodesInv'
      BY <2>1, <2>2, NodeStepLemma, Zenon
    <2> QED
      BY <2>2, <2>4, <2>5
  <1>2. ASSUME NEW n \in Node, BackgroundCommit(n)
        PROVE  NodesInv' /\ CallsInv' /\ RepliesInv' /\ RestInv'
    <2>1. \A c \in CommitMessages(node[n], n) : CallInv(c)
      BY <1>n, CommitMessagesLemma
    <2>2. CallsInv'
      BY <1>2, <2>1, EnqueueLemma DEF BackgroundCommit
    <2>3. UNCHANGED <<node, replies, pending, restarts>>
      BY <1>2 DEF BackgroundCommit
    <2> QED
      BY <2>2, <2>3 DEF NodesInv
  <1>3. ASSUME NEW n \in Node, BackgroundPing(n)
        PROVE  NodesInv' /\ CallsInv' /\ RepliesInv' /\ RestInv'
    <2>1. PICK junk \in 0 .. MaxTerm : Enqueue(PingMessages(node[n], n, junk))
      BY <1>3 DEF BackgroundPing
    <2>2. junk \in Nat
      BY BoundsAssumption
    <2>3. \A c \in PingMessages(node[n], n, junk) : CallInv(c)
      BY <1>n, <2>2, PingMessagesLemma
    <2>4. CallsInv'
      BY <2>1, <2>3, EnqueueLemma
    <2>5. UNCHANGED <<node, replies, pending, restarts>>
      BY <1>3 DEF BackgroundPing
    <2> QED
      BY <2>4, <2>5 DEF NodesInv
  <1>4. ASSUME NEW n \in Node, BackgroundApply(n)
        PROVE  NodesInv' /\ CallsInv' /\ RepliesInv' /\ RestInv'
    <2>1. PICK junk \in Cmd :
              node' = [node EXCEPT ![n] = apply_logs(node[n], junk)]
      BY <1>4, Zenon DEF BackgroundApply
    <2>2. NodeInv(apply_logs(node[n], junk))
      BY <1>4, <1>n, ApplyLemma DEF BackgroundApply
    <2>3. NodesInv'
      BY <2>1, <2>2, NodeStepLemma, Zenon
    <2> QED
      BY <1>4, <2>3 DEF BackgroundApply
  <1>5. ASSUME NEW n \in Node, SaveSnapshot(n)
        PROVE  NodesInv' /\ CallsInv' /\ RepliesInv' /\ RestInv'
    <2>1. NodeInv(save_snapshot(node[n]))
      BY <1>n, SaveSnapshotLemma
    <2>2. NodesInv'
      BY <1>5, <2>1, NodeStepLemma, Zenon DEF SaveSnapshot
    <2> QED
      BY <1>5, <2>2 DEF SaveSnapshot
  <1>6. ASSUME NEW n \in Node, Restart(n)
        PROVE  NodesInv' /\ CallsInv' /\ RepliesInv' /\ RestInv'
    <2>1. NodeInv(Construct(node[n].log_storage))
      BY <1>n, RestartLemma
    <2> QED
      BY <1>6, <2>1, RebootLemma DEF Restart
  <1>7. ASSUME NEW n \in Node, NEW v \in Value, NewCommandTest(n, v)
        PROVE  NodesInv' /\ CallsInv' /\ RepliesInv' /\ RestInv'
    BY <1>7 DEF NewCommandTest, NodesInv
  <1>8. ASSUME NEW n \in Node, NEW v \in Value, NewCommandAppend(n, v)
        PROVE  NodesInv' /\ CallsInv' /\ RepliesInv' /\ RestInv'
    <2>1. NodeInv(new_command(node[n], n, v))
      BY <1>8, <1>n, NewCommandLemma DEF NewCommandAppend
    <2>2. NodesInv'
      BY <1>8, <2>1, NodeStepLemma, Zenon DEF NewCommandAppend
    <2> QED
      BY <1>8, <2>2 DEF NewCommandAppend
  <1>9. ASSUME NEW r \in rpc, RequestVote(r)
        PROVE  NodesInv' /\ CallsInv' /\ RepliesInv' /\ RestInv'
    <2> DEFINE n == r.call.to
    <2>1. n \in Node /\ NodeInv(node[n]) /\ r.call \in Call
      BY <1>n, <1>r
    <2>2. NodeInv(request_vote(node[n], r.call))
      BY <2>1, RequestVoteLemma
    <2>3. NodesInv'
      BY <1>9, <2>1, <2>2, NodeStepLemma, Zenon DEF RequestVote
    <2>4. max(r.call.term, node[n].current_term) \in Nat
          /\ VoteGranted(node[n], r.call) \in BOOLEAN
      BY <1>r, <1>t, <2>1 DEF max, VoteGranted
    <2>5. RepliesInv'
      BY <1>9, <2>4, AnswerLemma DEF RequestVote
    <2> QED
      BY <1>9, <2>3, <2>5 DEF RequestVote
  <1>10. ASSUME NEW r \in rpc, AppendEntries(r)
         PROVE  NodesInv' /\ CallsInv' /\ RepliesInv' /\ RestInv'
    <2> DEFINE n == r.call.to
               ok == r.call.term >= node[n].current_term
                     /\ AppendMatches(node[n], r.call)
    <2>1. n \in Node /\ NodeInv(node[n]) /\ CallInv(r.call)
      BY <1>n, <1>r
    <2>2. NodeInv(append_entries(node[n], r.call))
      BY <1>10, <2>1, AppendEntriesLemma DEF AppendEntries
    <2>3. NodesInv'
      BY <1>10, <2>1, <2>2, NodeStepLemma, Zenon DEF AppendEntries
    <2>4. max(r.call.term, node[n].current_term) \in Nat /\ ok \in BOOLEAN
      BY <1>r, <1>t, <2>1 DEF max
    <2>5. RepliesInv'
      BY <1>10, <2>4, AnswerLemma, Zenon DEF AppendEntries
    <2> QED
      BY <1>10, <2>3, <2>5 DEF AppendEntries
  <1>11. ASSUME NEW r \in rpc, InstallSnapshot(r)
         PROVE  NodesInv' /\ CallsInv' /\ RepliesInv' /\ RestInv'
    <2> DEFINE n == r.call.to
    <2>1. n \in Node /\ NodeInv(node[n]) /\ CallInv(r.call)
      BY <1>n, <1>r
    <2>2. NodeInv(install_snapshot(node[n], r.call))
      BY <1>11, <2>1, InstallSnapshotLemma DEF InstallSnapshot
    <2>3. NodesInv'
      BY <1>11, <2>1, <2>2, NodeStepLemma, Zenon DEF InstallSnapshot
    <2>4. RepliesInv'
      BY <1>11, <1>t, <2>1, AnswerLemma, ZenonT(60) DEF InstallSnapshot
    <2> QED
      BY <1>11, <2>3, <2>4 DEF InstallSnapshot
  <1>12. ASSUME NEW r \in rpc, DropCall(r)
         PROVE  NodesInv' /\ CallsInv' /\ RepliesInv' /\ RestInv'
    BY <1>12 DEF DropCall, NodesInv
  <1>13. ASSUME NEW r \in rpc, AbortInCall(r)
         PROVE  NodesInv' /\ CallsInv' /\ RepliesInv' /\ RestInv'
    <2> DEFINE n == r.call.to
               s1 == Acknowledge(node[n], r.call.term)
    <2>1. n \in Node /\ NodeInv(node[n]) /\ r.call.term \in Nat
      BY <1>n, <1>r
    <2>2. NodeInv(Construct(s1.log_storage))
      BY <2>1, AcknowledgeLemma, RestartLemma, SMTT(30)
    <2> QED
      BY <1>13, <2>1, <2>2, RebootLemma DEF AbortInCall
  <1>14. ASSUME NEW p \in replies, HandleReply(p)
         PROVE  NodesInv' /\ CallsInv' /\ RepliesInv' /\ RestInv'
    <2> DEFINE n == p.call.from
               m == p.call.to
               s == node[n]
               t == CASE p.call.type = "request_vote" ->
                            handle_request_vote_reply(s, n, m, p)
                      [] p.call.type = "append_entries" ->
                            handle_append_entries_reply(s, m, p.call, p)
                      [] p.call.type = "install_snapshot" ->
                            handle_install_snapshot_reply(s, m, p.call, p)
    <2>1. p.call \in Call /\ p.term \in Nat
      OBVIOUS
    <2>2. /\ n \in Node /\ m \in Node /\ NodeInv(s)
          /\ p.call.type \in {"request_vote", "append_entries", "install_snapshot"}
      BY <1>n, <2>1, CallFacts
    <2>3. NodeInv(t)
      <3>1. CASE p.call.type = "request_vote"
        BY <2>1, <2>2, <3>1, RequestVoteReplyLemma
      <3>2. CASE p.call.type = "append_entries"
        BY <2>1, <2>2, <3>2, AppendEntriesReplyLemma
      <3>3. CASE p.call.type = "install_snapshot"
        BY <2>1, <2>2, <3>3, InstallSnapshotReplyLemma
      <3> QED
        BY <2>2, <3>1, <3>2, <3>3
    <2>4. node' = [node EXCEPT ![n] = t]
      BY <1>14 DEF HandleReply
    <2> HIDE DEF t
    <2>5. NodesInv'
      BY <2>2, <2>3, <2>4, NodeStepLemma, Zenon
    <2> QED
      BY <1>14, <2>5 DEF HandleReply
  <1>15. CASE UNCHANGED vars
    BY <1>15 DEF vars, NodesInv
  <1> QED
    BY <1>1, <1>2, <1>3, <1>4, <1>5, <1>6, <1>7, <1>8, <1>9, <1>10, <1>11,
       <1>12, <1>13, <1>14, <1>15, SMTT(30) DEF Next

\* Every reachable state of every cluster satisfies the inductive invariant.
THEOREM Inductive == Spec => []IInv
  BY InitIInv, NextIInv, PTL DEF Spec

\* Members, calls and answers keep their types, however the handlers of the
\* nodes (node.h:351-724) and the calls between them interleave.
THEOREM TypeCorrect == Spec => []TypeOK
  <1>1. IInv => TypeOK
    BY DEF IInv
  <1> QED
    BY <1>1, Inductive, PTL

\* No log has a gap or is empty, and no message carries entries that do not
\* start right after prevLogIndex: what the indexing log[i - log.front().index]
\* in node.h rests on.
THEOREM Consecutiveness == Spec => []LogsAreConsecutive
  <1>1. IInv => LogsAreConsecutive
    BY DEF IInv
  <1> QED
    BY <1>1, Inductive, PTL

\* After a crash at any point between two handlers the constructor
\* (node.h:213-219) restores exactly what was in memory.
THEOREM CrashSafety == Spec => []RestoreIsExact
  <1>1. IInv => RestoreIsExact
    BY DEF IInv
  <1> QED
    BY <1>1, Inductive, PTL

\* run_background_apply (node.h:988-1021) never looks before the front of the log.
THEOREM NothingAppliedTwice == Spec => []AppliedCoversSnapshot
  <1>1. IInv => AppliedCoversSnapshot
    BY DEF IInv
  <1> QED
    BY <1>1, Inductive, PTL
=============================================================================
