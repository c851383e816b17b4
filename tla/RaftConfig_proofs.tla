-------------------------- MODULE RaftConfig_proofs --------------------------
(***************************************************************************)
(* What RaftConfig guarantees for any set of members, any number of calls  *)
(* and failures, and a crash anywhere.                                     *)
(***************************************************************************)
EXTENDS RaftConfig, TLAPS

(* The inductive invariant. *)

IsRunning == pc \notin {"down", "creating"}

\* What is about to be renamed is the document in memory.
TempIsDocument == pc = "renaming" => temp = nodes

\* The member that is being closed is a peer.
TargetIsPeer == pc = "closing" => target \in peers

\* Without a repeated add_peer no list has a member twice.
NoneTwice ==
  ~repeated =>
    /\ IsRunning => NamesNoneTwice(nodes)
    /\ file \in List => NamesNoneTwice(file)

ConfigInv ==
  /\ TypeOK
  /\ FileIsBeforeOrAfter
  /\ PeersAreListed
  /\ TempIsDocument
  /\ TargetIsPeer
  /\ NoneTwice

-----------------------------------------------------------------------------
LEMMA ListOfType ==
  ASSUME NEW members \in SUBSET Member
  PROVE  ListOf(members) \in List /\ NamesNoneTwice(ListOf(members))
BY DEF ListOf, List, NamesNoneTwice

LEMMA InitConfig == Init => ConfigInv
<1> SUFFICES ASSUME Init PROVE ConfigInv
  OBVIOUS
<1>1. TypeOK
  BY ListOfType DEF Init, TypeOK, NoList
<1>2. NoneTwice
  BY NoneIsNoList DEF Init, NoneTwice, IsRunning, List
<1> QED
  BY <1>1, <1>2 DEF Init, ConfigInv, FileIsBeforeOrAfter, PeersAreListed, TempIsDocument,
                   TargetIsPeer

LEMMA CreatingKeeps ==
  ASSUME ConfigInv,
         \/ StartCreating \/ FailCreating
         \/ \E members \in SUBSET Member : Create(members)
  PROVE  ConfigInv'
<1> USE DEF ConfigInv, TypeOK, FileIsBeforeOrAfter, PeersAreListed, TempIsDocument, TargetIsPeer,
            NoneTwice, IsRunning
<1>1. CASE StartCreating
  BY <1>1, NoneIsNoList DEF StartCreating, memoryVars, List
<1>2. CASE FailCreating
  BY <1>2 DEF FailCreating, memoryVars, diskVars, historyVars
<1>3. CASE \E members \in SUBSET Member : Create(members)
  BY <1>3, ListOfType DEF Create, memoryVars
<1> QED
  BY <1>1, <1>2, <1>3

LEMMA LoadKeeps ==
  ASSUME ConfigInv, Load
  PROVE  ConfigInv'
<1>1. file \in List /\ NamesNoneTwice(file)
  BY DEF Load, IsLoadable, ConfigInv, TypeOK
<1> QED
  BY <1>1 DEF Load, diskVars, ConfigInv, TypeOK, FileIsBeforeOrAfter, PeersAreListed,
     TempIsDocument, TargetIsPeer, NoneTwice, IsRunning, Listed

LEMMA AddPeerKeeps ==
  ASSUME ConfigInv, NEW m \in Member, AddPeer(m)
  PROVE  ConfigInv'
<1> USE DEF ConfigInv, TypeOK, AddPeer, diskVars
<1>1. nodes' \in List /\ nodes' = [nodes EXCEPT ![m] = @ + 1]
  BY DEF List
<1>2. PeersAreListed'
  BY <1>1 DEF PeersAreListed, Listed, List
<1>3. ~repeated' => NamesNoneTwice(nodes')
  <2> SUFFICES ASSUME ~repeated' PROVE NamesNoneTwice(nodes')
    OBVIOUS
  <2>1. m \notin Listed(nodes) /\ NamesNoneTwice(nodes)
    BY DEF PeersAreListed, NoneTwice, IsRunning
  <2>2. nodes[m] = 0
    BY <2>1 DEF Listed, List
  <2> QED
    BY <1>1, <2>1, <2>2 DEF NamesNoneTwice, List
<1>4. NoneTwice'
  BY <1>3 DEF NoneTwice, IsRunning
<1> QED
  BY <1>1, <1>2, <1>4 DEF FileIsBeforeOrAfter, TempIsDocument, TargetIsPeer

LEMMA RemovePeerKeeps ==
  ASSUME ConfigInv, NEW m \in Member, RemovePeer(m)
  PROVE  ConfigInv'
BY DEF ConfigInv, TypeOK, RemovePeer, diskVars, historyVars, FileIsBeforeOrAfter, PeersAreListed,
   TempIsDocument, TargetIsPeer, NoneTwice, IsRunning

\* The first of the target's names goes: the only one, unless a member was added twice.
LEMMA ErasePeerKeeps ==
  ASSUME ConfigInv, ErasePeer
  PROVE  ConfigInv'
<1> USE DEF ConfigInv, TypeOK, ErasePeer, diskVars
<1>1. target \in peers /\ target \in Member /\ nodes[target] > 0
  BY DEF TargetIsPeer, PeersAreListed, Listed
<1>2. nodes' \in List /\ nodes' = [nodes EXCEPT ![target] = @ - 1]
  BY <1>1 DEF List, EraseFirst
<1>3. PeersAreListed'
  BY <1>1, <1>2 DEF PeersAreListed, NoneTwice, IsRunning, NamesNoneTwice, Listed, List
<1>4. NoneTwice'
  BY <1>1, <1>2 DEF NoneTwice, IsRunning, NamesNoneTwice, List
<1> QED
  BY <1>2, <1>3, <1>4 DEF FileIsBeforeOrAfter, TempIsDocument, TargetIsPeer

LEMMA SavingKeeps ==
  ASSUME ConfigInv, OpenTemp \/ WriteTemp \/ Rename \/ FailSaving \/ Crash
  PROVE  ConfigInv'
<1> USE DEF ConfigInv, TypeOK, FileIsBeforeOrAfter, PeersAreListed, TempIsDocument, TargetIsPeer,
            NoneTwice, IsRunning, memoryVars, diskVars, historyVars
<1>1. CASE OpenTemp
  BY <1>1 DEF OpenTemp, TruncateTemp
<1>2. CASE WriteTemp
  BY <1>2 DEF WriteTemp, Payload
<1>3. CASE Rename
  BY <1>3 DEF Rename
<1>4. CASE FailSaving
  BY <1>4 DEF FailSaving, AfterFailure
<1>5. CASE Crash
  BY <1>5, ListOfType DEF Crash, NoList
<1> QED
  BY <1>1, <1>2, <1>3, <1>4, <1>5

LEMMA NextConfig == ConfigInv /\ [Next]_vars => ConfigInv'
<1> SUFFICES ASSUME ConfigInv, [Next]_vars PROVE ConfigInv'
  OBVIOUS
<1>1. CASE UNCHANGED vars
  BY <1>1 DEF vars, memoryVars, diskVars, historyVars, ConfigInv, TypeOK, FileIsBeforeOrAfter,
     PeersAreListed, TempIsDocument, TargetIsPeer, NoneTwice, IsRunning
<1>2. CASE Next
  BY <1>2, CreatingKeeps, LoadKeeps, AddPeerKeeps, RemovePeerKeeps, ErasePeerKeeps, SavingKeeps
     DEF Next
<1> QED
  BY <1>1, <1>2

\* The inductive invariant: the temporary file, the document and the peers agree at each await.
THEOREM ConfigInvariant == Spec => []ConfigInv
BY InitConfig, NextConfig, PTL DEF Spec

\* Every variable is what the program can hold.
THEOREM TypeCorrect == Spec => []TypeOK
<1>1. ConfigInv => TypeOK
  BY DEF ConfigInv
<1> QED
  BY <1>1, ConfigInvariant, PTL

\* A failure or crash in any call leaves the file as it was before or as the call, or a failed
\* one before it, has made it: save writes beside it and renames.
THEOREM FileIsWhole == Spec => []FileIsBeforeOrAfter
<1>1. ConfigInv => FileIsBeforeOrAfter
  BY DEF ConfigInv
<1> QED
  BY <1>1, ConfigInvariant, PTL

\* peers_ and the JSON document agree, or the document has more: only when a member was
\* added twice.
THEOREM DocumentListsPeers == Spec => []PeersAreListed
<1>1. ConfigInv => PeersAreListed
  BY DEF ConfigInv
<1> QED
  BY <1>1, ConfigInvariant, PTL

\* load accepts the file that any history of calls, failures and crashes has left, unless a
\* static save was cut short or a member was added twice.
THEOREM FileCanBeLoaded == Spec => []NodeCanRestart
<1>1. ConfigInv => NodeCanRestart
  <2> SUFFICES ASSUME ConfigInv, file # Nil, ~cut, ~repeated PROVE IsLoadable(file)
    BY DEF NodeCanRestart
  <2>1. file \in versions /\ versions \subseteq List
    BY DEF ConfigInv, TypeOK, FileIsBeforeOrAfter
  <2> QED
    BY <2>1, NoneIsNoList DEF ConfigInv, NoneTwice, IsLoadable, List
<1> QED
  BY <1>1, ConfigInvariant, PTL

=============================================================================
