----------------------------- MODULE RaftConfig -----------------------------
(***************************************************************************)
(* RaftConfig: the members a node knows, in memory and in its file.        *)
(*                                                                         *)
(* The static save writes the first file, load reads it, add_peer and      *)
(* remove_peer change the members in memory and then save the file: a      *)
(* temporary file is written and renamed over it.  The JSON document is a  *)
(* list, kept here as the number of times it names each member; peers_ is  *)
(* the map built from it.  Calls on one RaftConfig follow one another, as  *)
(* in raft_config_test.cpp; each of their awaits may fail or be the last   *)
(* thing the process does.                                                 *)
(***************************************************************************)
EXTENDS Naturals, FiniteSets

CONSTANTS
  Nil,
  Damaged,       \* a file that is no JSON document: empty, or cut short
  Member,        \* by member_id: the hash of name, host and port
  Local,         \* the node's own
  MaxNamed,      \* times a member is named in the list
  MaxUnsaved     \* calls that fail one after the other

ASSUME LocalIsMember == Local \in Member

ASSUME BoundsAreNumbers == MaxNamed \in Nat /\ MaxUnsaved \in Nat

ASSUME NoneIsNoList == Nil \notin [Member -> Nat] /\ Damaged \notin [Member -> Nat]

VARIABLES
  pc,            \* "down", "creating"; "up" between the calls, and where a call awaits:
                 \* "closing", "opening", "writing", "renaming"
  peers,         \* peers_
  nodes,         \* json_["nodes"]
  target,        \* the member that remove_peer closes
  file,          \* the file at path_: Nil, Damaged or a list
  temp,          \* the file "tmp" beside it
  cut,           \* history: a static save was begun and has not succeeded since
  repeated,      \* history: add_peer was given a member that was there
  versions       \* history: the list of the last success or load, and of the failures since

memoryVars == <<peers, nodes, target>>
diskVars == <<file, temp>>
historyVars == <<cut, repeated, versions>>
vars == <<pc, memoryVars, diskVars, historyVars>>

List == [Member -> Nat]

ListOf(members) == [m \in Member |-> IF m \in members THEN 1 ELSE 0]

NoList == ListOf({})

Listed(list) == {m \in Member : list[m] > 0}

Init ==
  /\ pc = "down"
  /\ peers = {} /\ nodes = NoList /\ target = Nil
  /\ file = Nil /\ temp = Nil
  /\ cut = FALSE /\ repeated = FALSE /\ versions = {}

-----------------------------------------------------------------------------
(* The first file. *)

\* The static save truncates the file it is about to write.
StartCreating ==
  /\ pc = "down"
  /\ pc' = "creating"
  /\ file' = Damaged
  /\ cut' = TRUE
  /\ UNCHANGED <<memoryVars, temp, repeated, versions>>

Create(members) ==
  /\ pc = "creating"
  /\ Local \in members
  /\ file' = ListOf(members)
  /\ cut' = FALSE /\ repeated' = FALSE
  /\ versions' = {ListOf(members)}
  /\ pc' = "down"
  /\ UNCHANGED <<memoryVars, temp>>

\* kInvalidPeerAddress, kLocalNodeNotFound, kRaftConfigFileWriteFailed, or a crash: the
\* file stays truncated.
FailCreating ==
  /\ pc = "creating"
  /\ pc' = "down"
  /\ UNCHANGED <<memoryVars, diskVars, historyVars>>

NamesNoneTwice(list) == \A m \in Member : list[m] <= 1

\* Otherwise load fails: there is no file, the parser throws, or kRepeatedPeer.
IsLoadable(document) == document \notin {Nil, Damaged} /\ NamesNoneTwice(document)

Load ==
  /\ pc = "down"
  /\ IsLoadable(file)
  /\ nodes' = file
  /\ peers' = Listed(file)
  /\ versions' = {file}
  /\ pc' = "up"
  /\ UNCHANGED <<target, diskVars, cut, repeated>>

-----------------------------------------------------------------------------
(* Changes. *)

\* emplace leaves a peer that is there; push_back does not look.
AddPeer(m) ==
  /\ pc = "up"
  /\ nodes[m] < MaxNamed /\ Cardinality(versions) <= MaxUnsaved
  /\ peers' = peers \union {m}
  /\ nodes' = [nodes EXCEPT ![m] = @ + 1]
  /\ repeated' = (repeated \/ m \in peers)
  /\ versions' = versions \union {nodes'}
  /\ pc' = "opening"
  /\ UNCHANGED <<target, diskVars, cut>>

\* A member that is not in peers_ is kPeerNotFound.
RemovePeer(m) ==
  /\ pc = "up"
  /\ m \in peers /\ Cardinality(versions) <= MaxUnsaved
  /\ target' = m
  /\ pc' = "closing"
  /\ UNCHANGED <<peers, nodes, diskVars, historyVars>>

EraseTwo(list, m) == [list EXCEPT ![m] = @ - 2]

KeepListed(list, m) == list

\* nodes_json.erase(find_if(...)): the first of them
EraseFirst(list, m) == [list EXCEPT ![m] = @ - 1]

\* When Peer::shutdown has returned.
ErasePeer ==
  /\ pc = "closing"
  /\ peers' = peers \ {target}
  /\ nodes' = EraseFirst(nodes, target)
  /\ versions' = versions \union {nodes'}
  /\ target' = Nil
  /\ pc' = "opening"
  /\ UNCHANGED <<diskVars, cut, repeated>>

-----------------------------------------------------------------------------
(* save *)

OpenInPlace == file' = Damaged /\ UNCHANGED temp

TruncateTemp == temp' = Damaged /\ UNCHANGED file

OpenTemp ==
  /\ pc = "opening"
  /\ TruncateTemp
  /\ pc' = "writing"
  /\ UNCHANGED <<memoryVars, historyVars>>

\* json_.dump
Payload == nodes

WriteTemp ==
  /\ pc = "writing"
  /\ temp' = Payload
  /\ pc' = "renaming"
  /\ UNCHANGED <<memoryVars, file, historyVars>>

Rename ==
  /\ pc = "renaming"
  /\ file' = temp
  /\ temp' = Nil
  /\ versions' = {nodes}
  /\ pc' = "up"
  /\ UNCHANGED <<memoryVars, cut, repeated>>

AfterFailedWrite == "renaming"

AfterFailure == "up"

\* Opening, writing or renaming fails: the call returns an error, and memory stays changed.
FailSaving ==
  /\ pc \in {"opening", "writing", "renaming"}
  /\ pc' = AfterFailure
  /\ UNCHANGED <<memoryVars, diskVars, historyVars>>

Crash ==
  /\ pc \notin {"down", "creating"}
  /\ pc' = "down"
  /\ peers' = {} /\ nodes' = NoList /\ target' = Nil
  /\ UNCHANGED <<diskVars, historyVars>>

Next ==
  \/ StartCreating \/ FailCreating \/ Load
  \/ \E members \in SUBSET Member : Create(members)
  \/ \E m \in Member : AddPeer(m) \/ RemovePeer(m)
  \/ ErasePeer
  \/ OpenTemp \/ WriteTemp \/ Rename \/ FailSaving \/ Crash

Spec == Init /\ [][Next]_vars

-----------------------------------------------------------------------------
(* Properties. *)

TypeOK ==
  /\ pc \in {"down", "creating", "up", "closing", "opening", "writing", "renaming"}
  /\ peers \subseteq Member /\ nodes \in List /\ target \in Member \union {Nil}
  /\ file \in List \union {Nil, Damaged} /\ temp \in List \union {Nil, Damaged}
  /\ cut \in BOOLEAN /\ repeated \in BOOLEAN /\ versions \subseteq List

\* Whatever fails, and wherever the process dies, the file is a whole document with the
\* members of the last call that succeeded, or of a later one that failed or did not end
\* (the rename of raft_config.cpp:276); only the static save, which truncates the file it
\* replaces (raft_config.cpp:71), can leave it damaged.
FileIsBeforeOrAfter == file # Nil /\ ~cut => file \in versions

\* Every peer a node sends to is in its document, so that a restart forgets none; and
\* unless a member was added twice the two agree, and a member that was removed does not
\* come back with the next load (raft_config.cpp:199-208 and 221-226).
PeersAreListed ==
  pc \notin {"down", "creating"} =>
    /\ peers \subseteq Listed(nodes)
    /\ ~repeated => peers = Listed(nodes)

\* A node whose file was written once can start again, after a crash in any call, unless a
\* static save was cut short or a member was added twice: load refuses a list that names
\* one twice (raft_config.cpp:165), and add_peer writes such a list (raft_config.cpp:208).
NodeCanRestart == file # Nil /\ ~cut /\ ~repeated => IsLoadable(file)

=============================================================================
