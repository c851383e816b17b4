------------------------------- MODULE RaftLog -------------------------------
(***************************************************************************)
(* The replicated log of one node: the vector RaftLog::entries_ in memory  *)
(* and what RaftLog::persister_ keeps of it in RocksDB.                    *)
(*                                                                         *)
(* An entry carries its own index.  In memory it is found by its POSITION  *)
(* in the vector, on disk by its INDEX (the key is to_string(index)), and  *)
(* nothing in the code ties the two together: that is why both are here.   *)
(*                                                                         *)
(* first_index_ is always 1: it is read from the first recovered entry,    *)
(* recovery starts at FIRST_INDEX_KEY, and no code ever moves that key.    *)
(* RaftLog and Persister are used by one node under RaftNode::mutex_, so   *)
(* every operation is a function from the old value to the new one.        *)
(***************************************************************************)
EXTENDS Naturals, Sequences

CONSTANTS Command,    \* the commands of the clients: one KV call each, numbered
          Node,       \* the members of the cluster
          Nil         \* std::nullopt

ASSUME CommandsAreNumbers == Command \subseteq Nat
ASSUME NilIsNoNode == Nil \notin Node

Entry == [term : Nat, index : Nat, command : Command]

-----------------------------------------------------------------------------
(* The vector in memory. *)

LastIndex(log) == Len(log)

LastTerm(log) == IF log = <<>> THEN 0 ELSE log[Len(log)].term

PrevIndex(log) == IF log = <<>> THEN 0 ELSE Len(log) - 1

PrevTerm(log) == IF Len(log) < 2 THEN 0 ELSE log[Len(log) - 1].term

TermAt(log, index) == IF index \in 1..Len(log) THEN log[index].term ELSE 0

ViewIsGivenBelow(log, start, end) == start \in 1..Len(log) /\ end < Len(log)

\* entries_view succeeds for these bounds; it never compares them.
ViewIsGiven(log, start, end) == start \in 1..Len(log) /\ end <= Len(log)

\* A view whose size end - start + 1 wraps around: iterating it leaves the vector.
ViewIsWild(log, start, end) == ViewIsGiven(log, start, end) /\ end + 1 < start

Truncated(log, start) ==
  IF start \in 1..Len(log) THEN SubSeq(log, 1, start - 1) ELSE log

-----------------------------------------------------------------------------
(* What is on disk.  "entries" is the set of the stored values: a value's  *)
(* key is its index, so no two of them have the same index.                *)

Disk == [term : Nat, vote : Node \union {Nil}, last : Nat, entries : SUBSET Entry]

\* recover_state and recover_entries on an empty database.
EmptyDisk == [term |-> 0, vote |-> Nil, last |-> 0, entries |-> {}]

PersistVote(disk, term, vote) == [disk EXCEPT !.vote = vote]

PersistState(disk, term, vote) == [disk EXCEPT !.term = term, !.vote = vote]

\* The values a batch leaves: the last write of a key wins.
BatchValues(batch) ==
  {batch[k] : k \in {n \in DOMAIN batch :
                       \A m \in DOMAIN batch : m > n => batch[m].index # batch[n].index}}

PersistBatchKeepingLast(disk, batch) ==
  LET written == {batch[k].index : k \in DOMAIN batch}
  IN  [disk EXCEPT !.entries = {e \in @ : e.index \notin written} \union BatchValues(batch)]

\* One WriteBatch: the entries, each under its index, and LAST_INDEX_KEY.
PersistBatch(disk, batch) ==
  LET written == {batch[k].index : k \in DOMAIN batch}
  IN  [disk EXCEPT !.entries = {e \in @ : e.index \notin written} \union BatchValues(batch),
                   !.last = batch[Len(batch)].index]

\* truncate_batch is called after the vector was shortened, as
\* truncate_batch(start, start - 1): it deletes no key and keeps LAST_INDEX_KEY.
TruncateBatch(disk) == disk

\* recover_entries reads the keys 1..last and fails when one is missing.
Recoverable(disk) == \A k \in 1..disk.last : \E e \in disk.entries : e.index = k

RecoverEntries(disk) ==
  [k \in 1..disk.last |-> CHOOSE e \in disk.entries : e.index = k]

=============================================================================
