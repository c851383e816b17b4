-------------------------- MODULE RaftImplementsLog --------------------------
(***************************************************************************)
(* A cluster of RaftNodes that keeps its leader is a ReplicatedLog.        *)
(***************************************************************************)
EXTENDS RaftNode

ASSUME NodeExists == Node # {}

\* The members execute along one sequence: the longest is what any of them has executed.
Order ==
  LET longest == CHOOSE i \in Node : \A j \in Node : Len(executed[j]) <= Len(executed[i])
  IN  executed[longest]

\* How far the call of a client has come.
ClientOf(c) ==
  IF c \notin issued THEN "idle"
  ELSE IF replies[c] # <<>>
       THEN IF Last(replies[c]).kind = "applied" THEN "answered" ELSE "refused"
       ELSE IF c \in gone THEN "gone" ELSE "waiting"

Promised ==
  INSTANCE ReplicatedLog WITH order <- Order, client <- [c \in Command |-> ClientOf(c)]

\* The KV calls of a cluster with one leader (put, get and delete of raft_node.cpp:552-773,
\* apply of state_machine.cpp:34-115) are what ReplicatedLog promises: every handler is one
\* of its steps or none, each command is executed once, in one order by all members, and
\* answered after its execution; and the commands that wait are executed everywhere.
KeepsPromises == Promised!Spec

=============================================================================
