--------------------------- MODULE ReplicatedLog ---------------------------
(***************************************************************************)
(* What a cluster promises its clients, without terms, logs and messages:  *)
(* the commands that were sent are put into one order, every member        *)
(* executes them in that order, and a client gets its answer when its      *)
(* command has been executed, and only then.                               *)
(***************************************************************************)
EXTENDS Naturals, Sequences, SequencesExt

CONSTANTS Command, Node

VARIABLES
  order,       \* the commands that were executed anywhere
  executed,    \* what each member has executed
  client       \* of each command: "idle", "waiting", "refused", "answered", "gone"

vars == <<order, executed, client>>

Init ==
  /\ order = <<>>
  /\ executed = [i \in Node |-> <<>>]
  /\ client = [c \in Command |-> "idle"]

Submit(c) ==
  /\ client[c] = "idle"
  /\ client' = [client EXCEPT ![c] = "waiting"]
  /\ UNCHANGED <<order, executed>>

\* The member is not the leader, or cannot store the command: it never will be executed.
Refuse(c) ==
  /\ client[c] = "idle"
  /\ client' = [client EXCEPT ![c] = "refused"]
  /\ UNCHANGED <<order, executed>>

Leave(c) ==
  /\ client[c] = "waiting"
  /\ client' = [client EXCEPT ![c] = "gone"]
  /\ UNCHANGED <<order, executed>>

Unordered == {c \in Command : client[c] \in {"waiting", "gone"} /\ c \notin ToSet(order)}

\* A member executes some of the commands that were sent, before any other does.
Execute(i) ==
  \E batch \in SetToAllKPermutations(Unordered) :
    /\ batch # <<>>
    /\ order' = order \o batch
    /\ executed' = [executed EXCEPT ![i] = order']
    /\ client' = [c \in Command |-> IF c \in ToSet(batch) /\ client[c] = "waiting"
                                    THEN "answered" ELSE client[c]]

\* A member executes what others have executed.
Follow(i) ==
  /\ \E n \in Len(executed[i]) + 1..Len(order) :
       executed' = [executed EXCEPT ![i] = SubSeq(order, 1, n)]
  /\ UNCHANGED <<order, client>>

Next ==
  \/ \E c \in Command : Submit(c) \/ Refuse(c) \/ Leave(c)
  \/ \E i \in Node : Execute(i) \/ Follow(i)

\* Commands that wait are executed, by every member.
Fairness == WF_vars(\E i \in Node : Execute(i)) /\ \A i \in Node : WF_vars(Follow(i))

Spec == Init /\ [][Next]_vars /\ Fairness

=============================================================================
