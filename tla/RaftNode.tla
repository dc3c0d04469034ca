------------------------------ MODULE RaftNode ------------------------------
(***************************************************************************)
(* One Raft node: class RaftNode of rsm/raft/node.h.                       *)
(*                                                                         *)
(* The members of the object that mtx protects form one record.  Every     *)
(* handler holds mtx from its first to its last statement, so a handler is *)
(* an operator from the record before it to the record after it; module    *)
(* Raft interleaves the handlers of all the nodes.  log_storage is the     *)
(* file of the node (module RaftLog).  votesGot is the cardinality of      *)
(* votesFrom.  leader_id is never read and lastRPC only feeds the timers,  *)
(* which may fire at any time here: both are left out.                     *)
(*                                                                         *)
(* log is a vector whose first element stands for everything the snapshot  *)
(* covers: the entry with index i is at position i - log.front().index.    *)
(* The code computes that position without checking it; InLog says when it *)
(* is an element of the vector.                                            *)
(*                                                                         *)
(* Operators named Bad... are slips a change to the code could make; they  *)
(* are used by no action and show that the properties would notice.        *)
(***************************************************************************)
EXTENDS RaftLog

Role == {"Follower", "Candidate", "Leader"}

max(a, b) == IF a >= b THEN a ELSE b
min(a, b) == IF a <= b THEN a ELSE b

\* log.front().index and log.back() of a log
front(log) == log[1].index
back(log) == log[Len(log)]

\* log[i - log.front().index], and whether that is an element of the vector
at(log, i) == log[i - front(log) + 1]
InLog(log, i) == i - front(log) + 1 \in 1 .. Len(log)

-----------------------------------------------------------------------------
\* Construction, on first start and after a crash: what is persisted comes
\* back, everything else is set anew.
Construct(disk) ==
    LET d == IF disk.hasLogPersisted THEN disk
             ELSE saveAll(disk, 0, None, <<DummyEntry>>, <<>>)
        r == restore(d)
    IN  [current_term |-> r.current_term,
         votedFor     |-> r.votedFor,
         role         |-> "Follower",
         votesFrom    |-> {},
         log          |-> r.log,
         snapshot     |-> r.snapshot,
         state        |-> IF r.snapshot # <<>> THEN r.snapshot ELSE <<NoCmd>>,
         commitIndex  |-> front(r.log),
         lastApplied  |-> front(r.log),
         nextIndex    |-> [m \in Node |-> 1],
         matchIndex   |-> [m \in Node |-> 0],
         matchCount   |-> <<>>,
         log_storage  |-> d]

\* What every handler does on meeting a newer term t.
StepDown(s, t) ==
    [s EXCEPT !.current_term = t, !.role = "Follower", !.votedFor = None,
              !.log_storage = updateMeta(@, t, None)]

\* The step-down at the head of append_entries and install_snapshot.
Acknowledge(s, t) ==
    IF t > s.current_term \/ s.role = "Candidate" THEN StepDown(s, t) ELSE s

-----------------------------------------------------------------------------
\* Elections

\* run_background_election, the election or the candidate timer has run out
StartElection(s, n) ==
    [s EXCEPT !.role = "Candidate", !.current_term = @ + 1, !.votedFor = n,
              !.votesFrom = {n},
              !.log_storage = updateMeta(@, s.current_term + 1, n)]

UpToDate(s, a) ==
    \/ a.lastLogTerm > back(s.log).term
    \/ a.lastLogTerm = back(s.log).term /\ a.lastLogIndex >= back(s.log).index

VoteGranted(s, a) ==
    /\ a.term >= s.current_term
    /\ \/ a.term > s.current_term
       \/ s.votedFor \in {None, a.from}
    /\ UpToDate(s, a)

request_vote(s, a) ==
    LET newer == a.term > s.current_term
        vote  == IF VoteGranted(s, a) THEN a.from
                 ELSE IF newer THEN None ELSE s.votedFor
        term  == max(a.term, s.current_term)
    IN  [s EXCEPT !.current_term = term, !.votedFor = vote,
                  !.role = IF newer THEN "Follower" ELSE @,
                  !.log_storage = updateMeta(@, term, vote)]

\* vector::assign throws on a negative size, and the pool's packaged_task
\* swallows the exception: matchCount then keeps its old contents.
BecomeLeader(s, n) ==
    LET last == back(s.log).index
    IN  [s EXCEPT !.role = "Leader",
                  !.nextIndex = [m \in Node |-> last + 1],
                  !.matchIndex = [m \in Node |-> IF m = n THEN last ELSE 0],
                  !.matchCount = IF s.commitIndex <= last
                                 THEN [i \in 1 .. last - s.commitIndex |-> 0]
                                 ELSE @]

handle_request_vote_reply(s, n, target, reply) ==
    LET s1 == IF reply.term > s.current_term THEN StepDown(s, reply.term) ELSE s
        s2 == [s1 EXCEPT !.votesFrom = @ \union {target}]
    IN  IF s1.role = "Candidate" /\ reply.ok /\ target \notin s1.votesFrom
        THEN IF Cardinality(s2.votesFrom) > Cardinality(Node) \div 2
             THEN BecomeLeader(s2, n) ELSE s2
        ELSE s1

-----------------------------------------------------------------------------
\* Log replication

BadNewCommand(s, n, v) ==
    LET nxtIndex == Len(s.log)
        log == Append(s.log, [index |-> nxtIndex, term |-> s.current_term,
                              cmd |-> v])
    IN  [s EXCEPT !.log = log,
                  !.nextIndex[n] = nxtIndex + 1,
                  !.matchIndex[n] = nxtIndex,
                  !.matchCount = Append(@, 1),
                  !.log_storage =
                      updateLogsWithRange(@, log, Len(log) - 1, Len(log))]

\* new_command, from the acquisition of mtx on
new_command(s, n, v) ==
    LET nxtIndex == back(s.log).index + 1
        log == Append(s.log, [index |-> nxtIndex, term |-> s.current_term,
                              cmd |-> v])
    IN  [s EXCEPT !.log = log,
                  !.nextIndex[n] = nxtIndex + 1,
                  !.matchIndex[n] = nxtIndex,
                  !.matchCount = Append(@, 1),
                  !.log_storage =
                      updateLogsWithRange(@, log, Len(log) - 1, Len(log))]

\* The entry (index, term) is in the log.  A position before the front of the
\* vector reads foreign memory: taken as a mismatch here, Raft adds the abort.
HasEntry(log, index, term) == InLog(log, index) /\ at(log, index).term = term

AppendMatches(s, a) == HasEntry(s.log, a.prevLogIndex, a.prevLogTerm)

\* Everything after prevLogIndex is erased, whether or not it conflicts.
append_entries(s, a) ==
    LET s1   == Acknowledge(s, a.term)
        kept == SubSeq(s.log, 1, a.prevLogIndex - front(s.log) + 1)
        log  == IF a.entries = <<>> THEN s.log ELSE kept \o a.entries
    IN  IF a.term < s.current_term THEN s
        ELSE IF ~AppendMatches(s, a) THEN s1
        ELSE [s1 EXCEPT
                !.log = log,
                !.log_storage =
                    IF a.entries = <<>> THEN @
                    ELSE updateLogsWithRange(@, log, Len(kept), Len(log)),
                !.commitIndex =
                    IF a.leaderCommit > @
                    THEN min(a.leaderCommit, back(log).index) ELSE @]

\* The loop over matchCount after m has acknowledged everything up to match:
\* i runs downwards from the newest entry, and the first one that a majority
\* holds and that is of the current term commits, and ends the loop.
\* Positions outside matchCount or the log are skipped (Raft adds the abort).
CountFrom(s, m) == max(s.matchIndex[m] - s.commitIndex, 0)
CountTo(s, match) == match - s.commitIndex - 1

Commits(s, i) ==
    /\ i < Len(s.matchCount)
    /\ s.matchCount[i + 1] + 1 > Cardinality(Node) \div 2
    /\ HasEntry(s.log, s.commitIndex + i + 1, s.current_term)

CountMatches(s, m, match) ==
    LET range == CountFrom(s, m) .. CountTo(s, match)
        hits  == {i \in range : Commits(s, i)}
        last  == CHOOSE i \in hits : \A j \in hits : j <= i
        stop  == IF hits = {} THEN CountFrom(s, m) ELSE last
        count == [k \in 1 .. Len(s.matchCount) |->
                     IF k - 1 \in stop .. CountTo(s, match)
                     THEN s.matchCount[k] + 1 ELSE s.matchCount[k]]
    IN  IF hits = {} THEN [s EXCEPT !.matchCount = count]
        ELSE [s EXCEPT !.commitIndex = @ + last + 1,
                       !.matchCount = SubSeq(count, last + 2, Len(count))]

\* On a newer term the node adopts the term of its own request (arg.term).
handle_append_entries_reply(s, m, arg, reply) ==
    LET match == max(s.matchIndex[m], arg.prevLogIndex + Len(arg.entries))
        s1    == CountMatches(s, m, match)
    IN  IF reply.term > s.current_term THEN StepDown(s, arg.term)
        ELSE IF s.role # "Leader" THEN s
        ELSE IF reply.ok
        THEN [s1 EXCEPT !.matchIndex[m] = match, !.nextIndex[m] = match + 1]
        ELSE [s EXCEPT !.nextIndex[m] = min(@, arg.prevLogIndex)]

-----------------------------------------------------------------------------
\* Snapshots and the state machine (rsm/list_state_machine.h: a list of the
\* applied values that starts with one element; the snapshot is the list).


save_snapshot(s) ==
    LET log == IF s.lastApplied <= back(s.log).index
               THEN SubSeq(s.log, s.lastApplied - front(s.log) + 1, Len(s.log))
               ELSE <<back(s.log)>>
    IN  [s EXCEPT !.snapshot = s.state, !.log = log,
                  !.log_storage = updateLogs(updateSnapshot(@, s.state), log)]

\* What remains of the log: the entries after the snapshot if the log holds
\* its last entry, else only an entry that stands for the snapshot.
SnapshotLog(s, a) ==
    IF HasEntry(s.log, a.lastIncludedIndex, a.lastIncludedTerm)
    THEN SubSeq(s.log, a.lastIncludedIndex - front(s.log) + 1, Len(s.log))
    ELSE <<[index |-> a.lastIncludedIndex, term |-> a.lastIncludedTerm,
            cmd |-> NoCmd]>>

install_snapshot(s, a) ==
    LET s1  == Acknowledge(s, a.term)
        log == SnapshotLog(s, a)
    IN  IF a.term < s.current_term THEN s
        ELSE [s1 EXCEPT
                !.log = log, !.snapshot = a.snapshot, !.state = a.snapshot,
                !.lastApplied = a.lastIncludedIndex,
                !.commitIndex = max(@, a.lastIncludedIndex),
                !.log_storage = updateSnapshot(updateLogs(@, log), a.snapshot)]

handle_install_snapshot_reply(s, m, arg, reply) ==
    LET match == max(s.matchIndex[m], arg.lastIncludedIndex)
    IN  IF reply.term > s.current_term THEN StepDown(s, reply.term)
        ELSE IF s.role # "Leader" THEN s
        ELSE [s EXCEPT !.matchIndex[m] = match, !.nextIndex[m] = match + 1]

\* run_background_apply; junk is what memory behind the end of the log holds
apply_logs(s, junk) ==
    LET cmds == [k \in 1 .. s.commitIndex - s.lastApplied |->
                    IF InLog(s.log, s.lastApplied + k)
                    THEN at(s.log, s.lastApplied + k).cmd ELSE junk]
    IN  [s EXCEPT !.state = @ \o cmds, !.lastApplied = s.commitIndex]

-----------------------------------------------------------------------------
\* Messages a node sends

RequestVoteArgs(s, n, m) ==
    [type |-> "request_vote", from |-> n, to |-> m, term |-> s.current_term,
     lastLogIndex |-> back(s.log).index, lastLogTerm |-> back(s.log).term]

AppendEntriesArgs(s, n, m, prev, prevTerm, entries) ==
    [type |-> "append_entries", from |-> n, to |-> m, term |-> s.current_term,
     prevLogIndex |-> prev, prevLogTerm |-> prevTerm, entries |-> entries,
     leaderCommit |-> s.commitIndex]

InstallSnapshotArgs(s, n, m) ==
    [type |-> "install_snapshot", from |-> n, to |-> m, term |-> s.current_term,
     lastIncludedIndex |-> front(s.log), lastIncludedTerm |-> s.log[1].term,
     snapshot |-> s.snapshot]

\* run_background_commit: the peers that lack entries get them, or the
\* snapshot when the entries before them are gone
CommitMessage(s, n, m) ==
    LET prev == s.nextIndex[m] - 1
    IN  IF s.nextIndex[m] > front(s.log)
        THEN AppendEntriesArgs(s, n, m, prev, at(s.log, prev).term,
                SubSeq(s.log, prev - front(s.log) + 2, Len(s.log)))
        ELSE InstallSnapshotArgs(s, n, m)

CommitMessages(s, n) ==
    {CommitMessage(s, n, m) :
        m \in {p \in Node \ {n} : s.nextIndex[p] <= back(s.log).index}}

BadPingPrev(s, m) == max(s.nextIndex[m] - 1, front(s.log)) - 1

\* run_background_ping; junk is the term read from behind the end of the log
PingPrev(s, m) == max(s.nextIndex[m] - 1, front(s.log))

PingMessages(s, n, junk) ==
    {LET prev == PingPrev(s, m)
     IN  AppendEntriesArgs(s, n, m, prev,
            IF InLog(s.log, prev) THEN at(s.log, prev).term ELSE junk, <<>>) :
        m \in Node \ {n}}
=============================================================================
