------------------------------ MODULE RaftLog ------------------------------
(***************************************************************************)
(* The persistent half of a Raft node: class RaftLog of rsm/raft/log.h.    *)
(*                                                                         *)
(* A node keeps its storage in one file of blocks: block 1 holds the       *)
(* metadata (the hasLogPersisted mark, the term, the vote, LogCount and    *)
(* snapshot_sz), block 2 the snapshot, block 3 + i the i-th log entry.     *)
(* The record below is what is in the file.  The members of RaftLog mirror *)
(* it: every update ends with saveMetadata, so after an update the members *)
(* and the metadata block agree, and the model keeps one copy of them.     *)
(* Blocks of entries are never cleared: a log that gets shorter leaves its *)
(* old entries behind, and only LogCount says how many are current.        *)
(*                                                                         *)
(* An update is one step: the handlers of a node run under its mutex, and  *)
(* a crash inside the disk I/O is excluded by docs/lab3/raft.md.           *)
(* Integers are stored as four bytes, most significant first, and are read *)
(* back unchanged (int_to_u8, u8_to_int).  An operator named Bad... is a   *)
(* slip used to show that a property would notice it.                      *)
(***************************************************************************)
EXTENDS Integers, Sequences, FiniteSets

CONSTANTS
    Node,       \* the nodes of the cluster
    Value,      \* the commands clients submit
    None,       \* votedFor = -1
    NoCmd,      \* the command of the dummy entry, value 0
    LogBlocks   \* blocks of the device that can hold an entry

ASSUME NodeAssumption == IsFiniteSet(Node) /\ Node # {} /\ None \notin Node
ASSUME ValueAssumption == NoCmd \notin Value
ASSUME LogBlocksAssumption == LogBlocks \in Nat \ {0}

Cmd == Value \union {NoCmd}
Entry == [index : Nat, term : Nat, cmd : Cmd]

\* The entry blocks of the device, numbered from 0 (block LogStartBlockId + i).
Block == 0 .. LogBlocks - 1
DummyEntry == [index |-> 0, term |-> 0, cmd |-> NoCmd]

Storage == [hasLogPersisted : BOOLEAN, current_term : Nat,
            votedFor : Node \union {None}, LogCount : Nat,
            log : [Block -> Entry], snapshot : Seq(Cmd)]

\* A new file: every block is zero, and a zero block reads as the dummy entry.
BlankStorage ==
    [hasLogPersisted |-> FALSE, current_term |-> 0, votedFor |-> None,
     LogCount |-> 0, log |-> [b \in Block |-> DummyEntry], snapshot |-> <<>>]

-----------------------------------------------------------------------------
\* The log and the snapshot that restore() reads back.
RestoredLog(d) == [i \in 1 .. d.LogCount |-> d.log[i - 1]]

restore(d) ==
    [current_term |-> d.current_term, votedFor |-> d.votedFor,
     log |-> RestoredLog(d), snapshot |-> d.snapshot]

updateMeta(d, term, vote) ==
    [d EXCEPT !.hasLogPersisted = TRUE,
              !.current_term = term, !.votedFor = vote]

updateSnapshot(d, ss) ==
    [d EXCEPT !.hasLogPersisted = TRUE, !.snapshot = ss]

BadUpdateLogs(d, log, startIndex, endIndex) ==
    [d EXCEPT !.hasLogPersisted = TRUE,
              !.LogCount = IF @ > Len(log) THEN @ ELSE Len(log),
              !.log = [b \in Block |->
                          IF startIndex <= b /\ b < endIndex /\ b < Len(log)
                          THEN log[b + 1] ELSE @[b]]]

\* Writes the blocks startIndex .. endIndex - 1 (counted from 0) of log.
updateLogsWithRange(d, log, startIndex, endIndex) ==
    [d EXCEPT !.hasLogPersisted = TRUE, !.LogCount = Len(log),
              !.log = [b \in Block |->
                          IF startIndex <= b /\ b < endIndex /\ b < Len(log)
                          THEN log[b + 1] ELSE @[b]]]

updateLogs(d, log) == updateLogsWithRange(d, log, 0, Len(log))

saveAll(d, term, vote, log, ss) ==
    updateMeta(updateLogs(updateSnapshot(d, ss), log), term, vote)
=============================================================================
