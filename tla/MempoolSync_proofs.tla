-------------------------- MODULE MempoolSync_proofs --------------------------
(***************************************************************************)
(* Proofs about MempoolSync, for every set of transactions and whatever    *)
(* they depend on.                                                         *)
(*                                                                         *)
(* NoClash and OnlySnapshot need what the cleanup knows of the rows        *)
(* (CycleInv), and hold wherever the node moves and faults strike: MInv.   *)
(* That a row comes with its outputs, and that they were stored once,      *)
(* needs more of the node: while a cycle runs it keeps what the snapshot   *)
(* names, and its branch, and it finds what it has (Calm); so packages     *)
(* hold their whole group (PackageInv): CInv.                              *)
(*                                                                         *)
(* That the rows are the abstract view of the mempool (MempoolView) needs  *)
(* MInv only; that a cycle misses nothing of its snapshot needs the calm   *)
(* node again.                                                             *)
(***************************************************************************)
EXTENDS MempoolSync, TLAPS

MInv == TypeOK /\ NoClash /\ OnlySnapshot /\ CycleInv

-----------------------------------------------------------------------------

LEMMA InitMInv == Init => MInv
<1> SUFFICES ASSUME Init PROVE MInv
  OBVIOUS
<1>1. TypeOK
  BY DEF Init, TypeOK, Points, Many
<1>2. NoClash /\ OnlySnapshot /\ CycleInv
  BY MempoolAssumption DEF Init, NoClash, OnlySnapshot, CycleInv
<1> QED
  BY <1>1, <1>2 DEF MInv

\* The node's steps change nothing that MInv speaks of, but for its type.
LEMMA NodeKeepsMInv ==
  ASSUME MInv, NodeMoves
  PROVE  MInv'
<1>1. UNCHANGED <<tables, local>> /\ pool' \subseteq Txs /\ mined' \subseteq Txs
  BY DEF MInv, TypeOK, NodeMoves, Enter, ChainMoves, Evict
<1>2. TypeOK'
  BY <1>1 DEF MInv, TypeOK, tables, local
<1>3. NoClash' /\ OnlySnapshot' /\ CycleInv'
  BY <1>1 DEF MInv, NoClash, OnlySnapshot, CycleInv, HasRow, tables, local
<1> QED
  BY <1>2, <1>3 DEF MInv

\* Nothing is known, and nothing need be, once a cycle has ended.
LEMMA EndCycleMInv ==
  ASSUME MInv, EndCycle, UNCHANGED node,
         rows' \subseteq Txs, metas' \in [Txs -> 0..Many],
         \A t \in Txs : metas'[t] > 0 => t \in rows' \cap Spaces
  PROVE  MInv'
<1>1. TypeOK'
  BY DEF MInv, TypeOK, EndCycle, node, Points
<1>2. NoClash' /\ OnlySnapshot' /\ CycleInv'
  BY MempoolAssumption DEF EndCycle, NoClash, OnlySnapshot, CycleInv
<1> QED
  BY <1>1, <1>2 DEF MInv

\* The same, for a cycle that leaves the tables alone.
LEMMA RollbackMInv ==
  ASSUME MInv, EndCycle, UNCHANGED <<node, tables>>
  PROVE  MInv'
<1>1. rows' = rows /\ metas' = metas /\ UNCHANGED node
  BY DEF tables
<1>2. rows \subseteq Txs /\ metas \in [Txs -> 0..Many]
  BY DEF MInv, TypeOK
<1>3. \A t \in Txs : metas[t] > 0 => t \in rows \cap Spaces
  BY DEF MInv, CycleInv
<1> QED
  BY <1>1, <1>2, <1>3, EndCycleMInv

\* Deleting rows with their outputs, and committing a group, keep the outputs
\* with their rows.
LEMMA DeleteRowsKeeps ==
  ASSUME MInv, DeleteRows
  PROVE  /\ rows' \subseteq Txs /\ metas' \in [Txs -> 0..Many]
         /\ \A t \in Txs : metas'[t] > 0 => t \in rows' \cap Spaces
<1>1. rows \subseteq Txs /\ metas \in [Txs -> 0..Many]
  BY DEF MInv, TypeOK
<1>2. rows' \subseteq Txs
  BY <1>1 DEF DeleteRows
<1>3. metas' = [t \in Txs |-> IF t \in Gone THEN 0 ELSE metas[t]]
  BY DEF DeleteRows
<1>4. metas' \in [Txs -> 0..Many]
  BY <1>1, <1>3 DEF Many
<1>5. ASSUME NEW t \in Txs, metas'[t] > 0
      PROVE  t \in rows' \cap Spaces
  <2>1. t \notin Gone /\ metas[t] > 0
    BY <1>3, <1>5
  <2> QED
    BY <2>1 DEF MInv, CycleInv, DeleteRows
<1> QED
  BY <1>2, <1>4, <1>5

LEMMA ApplyKeeps ==
  ASSUME MInv, pc = "commit", Apply
  PROVE  /\ rows' \subseteq Txs /\ metas' \in [Txs -> 0..Many]
         /\ \A t \in Txs : metas'[t] > 0 => t \in rows' \cap Spaces
<1>1. /\ rows \subseteq Txs /\ metas \in [Txs -> 0..Many]
      /\ cur \in Txs /\ last \in Txs \cup {NoTx}
  BY MempoolAssumption DEF MInv, TypeOK
<1>2. rows' \subseteq Txs
  BY <1>1 DEF Apply
<1>3. CASE last = NoTx
  <2>1. metas' = metas /\ rows \subseteq rows'
    BY <1>3 DEF Apply
  <2> QED
    BY <1>1, <1>2, <2>1 DEF MInv, CycleInv
<1>4. CASE last # NoTx
  <2>1. metas' = [metas EXCEPT ![last] = OneMore(@)]
    BY <1>4 DEF Apply
  <2>2. metas' \in [Txs -> 0..Many]
    BY <1>1, <1>4, <2>1 DEF Many, OneMore
  <2>3. last \in Spaces /\ last \in rows'
    BY <1>4 DEF MInv, CycleInv, HasRow, Apply
  <2>4. ASSUME NEW t \in Txs, metas'[t] > 0
        PROVE  t \in rows' \cap Spaces
    <3>1. CASE t = last
      BY <2>3, <3>1
    <3>2. CASE t # last
      <4>1. metas'[t] = metas[t]
        BY <1>1, <2>1, <3>2
      <4> QED
        BY <2>4, <4>1 DEF MInv, CycleInv, Apply
    <3> QED
      BY <3>1, <3>2
  <2> QED
    BY <1>2, <2>2, <2>4
<1> QED
  BY <1>3, <1>4

-----------------------------------------------------------------------------

\* The rows read are the rows there are; so, once those that are not in the
\* snapshot are gone, the rows left and the groups to process share nothing.
LEMMA CleanupKeepsMInv ==
  ASSUME MInv, Cleanup
  PROVE  MInv'
<1>1. /\ DeleteRows /\ todo' = snap \ existing /\ pc' = "pick"
      /\ UNCHANGED <<pool, mined, snap, existing, cur, left, found, last>>
  BY DEF Cleanup, ToProcess, node
<1>2. /\ rows' \subseteq Txs /\ metas' \in [Txs -> 0..Many]
      /\ \A t \in Txs : metas'[t] > 0 => t \in rows' \cap Spaces
  BY <1>1, DeleteRowsKeeps
<1>3. pc = "clean" /\ existing = rows /\ cur = NoTx
  BY DEF Cleanup, MInv, CycleInv, TypeOK
<1>4. TypeOK'
  BY <1>1, <1>2, <1>3 DEF MInv, TypeOK, Points
<1>5. rows' = rows \cap snap
  BY <1>1, <1>3 DEF DeleteRows, Gone
<1>6. NoClash' /\ OnlySnapshot'
  BY <1>1, <1>3, <1>5, <1>4, MempoolAssumption
  DEF NoClash, OnlySnapshot, TypeOK
<1>7. CycleInv'
  BY <1>1, <1>2 DEF CycleInv
<1> QED
  BY <1>4, <1>6, <1>7 DEF MInv

LEMMA LookupKeepsMInv ==
  ASSUME MInv, NEW t \in Txs, LookupFinds(t) \/ LookupSkips(t)
  PROVE  MInv'
<1>1. /\ pc = "lookup" /\ cur \in Txs /\ cur # NoTx
      /\ t \in left \cup {cur}
      /\ UNCHANGED <<pool, mined, rows, metas, snap, existing, todo, cur>>
      /\ left' \subseteq left
      /\ pc' = IF t = cur THEN "check" ELSE "lookup"
      /\ found' \in {found, found \cup {t}}
      /\ last' \in found' \cup {NoTx}
  BY DEF MInv, TypeOK, LookupFinds, LookupSkips, Upcoming, Advance, node, tables
<1>2. TypeOK'
  BY <1>1 DEF MInv, TypeOK, Points
<1>3. NoClash' /\ OnlySnapshot' /\ CycleInv'
  BY <1>1 DEF MInv, NoClash, OnlySnapshot, CycleInv
<1> QED
  BY <1>2, <1>3 DEF MInv

LEMMA CommitKeepsMInv ==
  ASSUME MInv, Commit
  PROVE  MInv'
<1>1. /\ pc = "commit" /\ Apply /\ pc' = "pick" /\ cur' = NoTx
      /\ left' = {} /\ found' = {} /\ last' = NoTx
      /\ UNCHANGED <<pool, mined, snap, existing, todo>>
  BY DEF Commit, NewGroup, node
<1>2. /\ rows' \subseteq Txs /\ metas' \in [Txs -> 0..Many]
      /\ \A t \in Txs : metas'[t] > 0 => t \in rows' \cap Spaces
  BY <1>1, ApplyKeeps
<1>3. TypeOK'
  BY <1>1, <1>2 DEF MInv, TypeOK, Points
<1>4. rows' \subseteq rows \cup {cur} /\ cur \notin todo /\ cur \in snap
  BY <1>1 DEF Apply, MInv, NoClash, OnlySnapshot, TypeOK
<1>5. NoClash' /\ OnlySnapshot'
  BY <1>1, <1>3, <1>4, MempoolAssumption
  DEF MInv, NoClash, OnlySnapshot, TypeOK
<1>6. CycleInv'
  BY <1>1, <1>2 DEF CycleInv
<1> QED
  BY <1>3, <1>5, <1>6 DEF MInv

LEMMA NextMInv ==
  ASSUME MInv, [Next]_vars
  PROVE  MInv'
<1>1. CASE NodeMoves
  BY <1>1, NodeKeepsMInv
<1>2. CASE BeginCycle
  <2>1. TypeOK'
    BY <1>2 DEF MInv, TypeOK, BeginCycle, node, tables, Points
  <2>2. NoClash' /\ OnlySnapshot' /\ CycleInv'
    BY <1>2 DEF MInv, NoClash, OnlySnapshot, CycleInv, BeginCycle, node, tables
  <2> QED
    BY <2>1, <2>2 DEF MInv
<1>3. CASE ReadRows
  <2>1. TypeOK'
    BY <1>3 DEF MInv, TypeOK, ReadRows, node, tables, Points
  <2>2. NoClash' /\ OnlySnapshot' /\ CycleInv'
    BY <1>3 DEF MInv, NoClash, OnlySnapshot, CycleInv, ReadRows, node, tables
  <2> QED
    BY <2>1, <2>2 DEF MInv
<1>4. CASE Cleanup
  BY <1>4, CleanupKeepsMInv
<1>5. CASE \E t \in Txs : PickGroup(t)
  <2>1. PICK t \in Txs : PickGroup(t)
    BY <1>5
  <2>2. TypeOK'
    BY <2>1, MempoolAssumption
    DEF MInv, TypeOK, PickGroup, ParentsOf, node, tables, Points
  <2>3. NoClash' /\ OnlySnapshot' /\ CycleInv'
    BY <2>1 DEF MInv, NoClash, OnlySnapshot, CycleInv, PickGroup, node, tables
  <2> QED
    BY <2>2, <2>3 DEF MInv
<1>6. CASE Lookup
  BY <1>6, LookupKeepsMInv DEF Lookup
<1>7. CASE NothingReported \/ StoreReported
  <2>1. /\ pc = "check" /\ pc' = "commit"
        /\ last' = NoTx \/ (last' = last /\ last \in Spaces /\ HasRow(last))
        /\ UNCHANGED <<pool, mined, rows, metas, snap, existing, todo, cur,
                       left, found>>
    BY <1>7 DEF NothingReported, StoreReported, Taken, node, tables
  <2>2. TypeOK'
    BY <2>1 DEF MInv, TypeOK, Points
  <2>3. NoClash' /\ OnlySnapshot' /\ CycleInv'
    BY <2>1 DEF MInv, NoClash, OnlySnapshot, CycleInv, HasRow
  <2> QED
    BY <2>2, <2>3 DEF MInv
<1>8. CASE Commit
  BY <1>8, CommitKeepsMInv
<1>9. CASE NoGroupLeft \/ StoreRefused \/ Fail
  BY <1>9, RollbackMInv DEF NoGroupLeft, StoreRefused, Fail
<1>10. CASE CleanupUnanswered
  BY <1>10, DeleteRowsKeeps, EndCycleMInv DEF CleanupUnanswered
<1>11. CASE CommitUnanswered
  BY <1>11, ApplyKeeps, EndCycleMInv DEF CommitUnanswered
<1>12. CASE UNCHANGED vars
  BY <1>12 DEF vars, node, tables, local, MInv, TypeOK, NoClash, OnlySnapshot,
               CycleInv, HasRow
<1> QED
  BY <1>1, <1>2, <1>3, <1>4, <1>5, <1>6, <1>7, <1>8, <1>9, <1>10, <1>11, <1>12
  DEF Next, Prepare, Group, Check

LEMMA MInvHolds == Spec => []MInv
BY InitMInv, NextMInv, PTL DEF Spec

\* The types, for every set of transactions.
THEOREM TypeCorrect == Spec => []TypeOK
BY MInvHolds, PTL DEF MInv

\* No cycle runs into a row an earlier cycle or group left behind: the filter
\* by the rows read first is enough, wherever the cycle before was cut short.
THEOREM NoCycleClashes == Spec => []NoClash
BY MInvHolds, PTL DEF MInv

\* What is shown as unconfirmed while groups are stored was in the node's
\* mempool at one moment.
THEOREM ShowsOneSnapshot == Spec => []OnlySnapshot
BY MInvHolds, PTL DEF MInv

\* What each step takes for granted; above all, no outputs without their row.
THEOREM CycleInvHolds == Spec => []CycleInv
BY MInvHolds, PTL DEF MInv

-----------------------------------------------------------------------------
(***************************************************************************)
(* The refinement: every step changes the rows as MempoolView allows.      *)
(***************************************************************************)

\* In a cycle, and still in it; or at its end.
Acts ==
  /\ pc # "idle"
  /\ \/ pc' # "idle" /\ snap' = snap
     \/ pc' = "idle" /\ snap' = {}

\* The commit of the cleanup drops from the view what the snapshot has not.
LEMMA DeleteDrops ==
  ASSUME MInv, pc = "clean", DeleteRows, Acts, pool' = pool
  PROVE  View!Drop
<1>1. rows' = rows \cap snap
  BY DEF MInv, CycleInv, DeleteRows, Gone
<1> QED
  BY <1>1 DEF Acts, View!Drop, View!Act, View!Leave

\* The commit of a group shows its transaction, or nothing if it was not found.
LEMMA ApplyShows ==
  ASSUME MInv, pc = "commit", Apply, Acts, pool' = pool
  PROVE  [View!Next]_View!vars
<1>1. cur \in Txs /\ cur \in snap /\ rows \subseteq snap /\ cur \notin rows
  BY DEF MInv, TypeOK, OnlySnapshot, NoClash
<1>2. CASE cur \in found
  <2>1. rows' = rows \cup {cur}
    BY <1>2 DEF Apply
  <2>2. View!Show(cur)
    BY <1>1, <2>1 DEF Acts, View!Show, View!Act, View!Leave
  <2> QED
    BY <1>1, <2>2 DEF View!Next
<1>3. CASE cur \notin found
  <2>1. rows' = rows
    BY <1>3 DEF Apply
  <2> QED
    BY <2>1 DEF Acts, View!Next, View!Forget, View!Leave, View!vars
<1> QED
  BY <1>2, <1>3

LEMMA StepRefines ==
  ASSUME MInv, [Next]_vars
  PROVE  [View!Next]_View!vars
<1>1. CASE NodeMoves
  <2>1. pool' \in SUBSET Txs /\ UNCHANGED <<pc, snap, rows>>
    BY <1>1 DEF MInv, TypeOK, NodeMoves, Enter, ChainMoves, Evict, tables, local
  <2> QED
    BY <2>1 DEF View!Next, View!NodeMoves
<1>2. CASE BeginCycle
  BY <1>2 DEF BeginCycle, node, tables, View!Next, View!Look
<1>3. CASE \/ ReadRows \/ (\E t \in Txs : PickGroup(t)) \/ Lookup
           \/ NothingReported \/ StoreReported \/ UNCHANGED vars
  BY <1>3 DEF ReadRows, PickGroup, Lookup, LookupFinds, LookupSkips, Advance,
    NothingReported, StoreReported, vars, local, node, tables, View!vars
<1>4. CASE Cleanup \/ CleanupUnanswered
  <2>1. pc = "clean" /\ DeleteRows /\ Acts /\ pool' = pool
    BY <1>4 DEF Cleanup, CleanupUnanswered, EndCycle, Acts, node
  <2> QED
    BY <2>1, DeleteDrops DEF View!Next
<1>5. CASE Commit \/ CommitUnanswered
  <2>1. pc = "commit" /\ Apply /\ Acts /\ pool' = pool
    BY <1>5 DEF Commit, CommitUnanswered, EndCycle, Acts, node
  <2> QED
    BY <2>1, ApplyShows
<1>6. CASE NoGroupLeft \/ StoreRefused \/ Fail
  <2>1. pc # "idle"
    BY <1>6, MempoolAssumption DEF NoGroupLeft, StoreRefused, Fail
  <2> QED
    BY <1>6, <2>1 DEF NoGroupLeft, StoreRefused, Fail, EndCycle, node, tables,
      View!Next, View!Forget, View!Leave
<1> QED
  BY <1>1, <1>2, <1>3, <1>4, <1>5, <1>6 DEF Next, Prepare, Group, Check

\* What is listed as unconfirmed is the abstract view of the node's mempool,
\* whatever the node does and wherever cycles are cut short.
THEOREM ViewImplemented == Spec => ImplementsView
<1>1. Init => View!Init
  BY DEF Init, View!Init
<1>2. MInv /\ [Next]_vars => [View!Next]_View!vars
  BY StepRefines
<1> QED
  BY <1>1, <1>2, MInvHolds, PTL DEF Spec, ImplementsView, View!Spec

-----------------------------------------------------------------------------
(***************************************************************************)
(* A calm node: it keeps what it has, and its branch, while a cycle runs,  *)
(* or mines it; it finds what it has or mined, and the spaces node knows   *)
(* all its blocks.                                                         *)
(***************************************************************************)
Calm ==
  /\ TxIndex /\ ~SpacesBehind /\ ~LookupErrors
  /\ EvictPoints \subseteq {"idle"} /\ ReorgPoints \subseteq {"idle"}

\* Why rows come with their outputs, and these are stored once, while the lookups
\* find what the snapshot names: a package holds all its group and ends in the
\* group's own transaction, so nothing else is stored for it, and if the group
\* goes back no further than the package the spaces node has seen the rest.
PackageInv ==
  /\ \A t \in pool : Depends[t] \subseteq pool \cup mined
  /\ \A t \in mined : Depends[t] \subseteq mined
  /\ pc = "idle" => snap = {}
  /\ snap \subseteq pool \cup mined
  /\ \A t \in snap : Depends[t] \subseteq snap \cup mined
  /\ pc = "lookup" =>
       left \subseteq snap /\ found = (Depends[cur] \cap snap) \ left
  /\ pc \in {"check", "commit"} =>
       found = (Depends[cur] \cap snap) \cup {cur}
  /\ pc = "check" => last = cur
  /\ pc = "commit" =>
       /\ last \in {cur, NoTx}
       /\ cur \in Spaces /\ Shallow(cur) => last = cur

CInv == MInv /\ PackageInv /\ MetasOnce

LEMMA InitCInv == Init => CInv
BY InitMInv DEF Init, CInv, PackageInv, MetasOnce

LEMMA NodeKeepsPackageInv ==
  ASSUME Calm, CInv, NodeMoves
  PROVE  PackageInv'
<1>1. UNCHANGED <<pc, snap, cur, left, found, last>>
  BY DEF NodeMoves, Enter, ChainMoves, Evict, local
<1>2. /\ pool \subseteq Txs /\ mined \subseteq Txs
      /\ \A u \in pool : Depends[u] \subseteq pool \cup mined
      /\ \A u \in mined : Depends[u] \subseteq mined
      /\ pc = "idle" => snap = {}
      /\ snap \subseteq pool \cup mined
      /\ \A u \in snap : Depends[u] \subseteq snap \cup mined
  BY DEF CInv, MInv, TypeOK, PackageInv
<1>3. /\ \A u \in pool' : Depends[u] \subseteq pool' \cup mined'
      /\ \A u \in mined' : Depends[u] \subseteq mined'
  <2>1. CASE ChainMoves
    <3>1. pool' = (pool \cup mined) \ mined'
          /\ \A u \in mined' : Depends[u] \subseteq mined'
      BY <2>1 DEF ChainMoves
    <3> QED
      BY <1>2, <3>1
  <2>2. CASE \E t \in Txs : Enter(t) \/ Evict(t)
    BY <1>2, <2>2 DEF Enter, Evict
  <2> QED
    BY <2>1, <2>2 DEF NodeMoves
<1>4. pc # "idle" => mined \subseteq mined' /\ snap \subseteq pool' \cup mined'
  BY <1>2 DEF NodeMoves, Enter, ChainMoves, Evict, Calm
<1>5. /\ pc = "idle" => snap' = {}
      /\ snap' \subseteq pool' \cup mined'
      /\ \A u \in snap' : Depends[u] \subseteq snap' \cup mined'
  BY <1>1, <1>2, <1>4
<1>6. pc = "commit" /\ Shallow(cur)' => Shallow(cur)
  BY <1>1, <1>4 DEF Shallow
<1> QED
  BY <1>1, <1>3, <1>5, <1>6 DEF CInv, PackageInv

\* A cycle that ended leaves nothing to know but what the node has.
LEMMA EndCycleKeepsPackageInv ==
  ASSUME CInv, EndCycle, UNCHANGED node
  PROVE  PackageInv'
BY DEF CInv, PackageInv, EndCycle, node, Shallow

\* Every lookup finds its transaction, so a package has all its members.
LEMMA LookupKeepsPackageInv ==
  ASSUME Calm, CInv, NEW t \in Txs, LookupFinds(t) \/ LookupSkips(t)
  PROVE  PackageInv'
<1>1. /\ pc = "lookup" /\ cur \in Txs /\ cur \in snap
      /\ left \subseteq Depends[cur] /\ left \subseteq snap
      /\ snap \subseteq pool \cup mined
      /\ found = (Depends[cur] \cap snap) \ left
  BY DEF CInv, MInv, TypeOK, OnlySnapshot, PackageInv, LookupFinds, LookupSkips
<1>2. Upcoming(t) /\ t \in snap /\ Known(t)
  BY <1>1 DEF LookupFinds, LookupSkips, Upcoming, Known, Calm
<1>3. LookupFinds(t)
  BY <1>2 DEF LookupSkips, Calm
<1>4. /\ UNCHANGED <<pool, mined, snap, cur>>
      /\ found' = found \cup {t} /\ last' = t /\ left' = left \ {t}
      /\ pc' = IF t = cur THEN "check" ELSE "lookup"
  BY <1>3 DEF LookupFinds, Advance, node
<1>5. CASE t \in left
  <2>1. t # cur
    BY <1>1, <1>5, MempoolAssumption
  <2>2. pc' = "lookup" /\ left' \subseteq snap
        /\ found' = (Depends[cur] \cap snap) \ left'
    BY <1>1, <1>4, <1>5, <2>1
  <2> QED
    BY <1>1, <1>4, <2>2 DEF CInv, PackageInv
<1>6. CASE t \notin left
  <2>1. left = {} /\ t = cur
    BY <1>2, <1>6 DEF Upcoming
  <2>2. pc' = "check" /\ last' = cur
        /\ found' = (Depends[cur] \cap snap) \cup {cur}
    BY <1>1, <1>4, <2>1
  <2> QED
    BY <1>1, <1>4, <2>2 DEF CInv, PackageInv
<1> QED
  BY <1>5, <1>6

\* A package of a shallow group is complete, so it is reported if it is about
\* spaces; of any other nothing but the last transaction is stored.
LEMMA CheckKeepsPackageInv ==
  ASSUME Calm, CInv, NothingReported \/ StoreReported
  PROVE  PackageInv'
<1>1. /\ pc = "check" /\ cur \in Txs /\ cur \in snap /\ last = cur
      /\ found = (Depends[cur] \cap snap) \cup {cur}
      /\ Depends[cur] \subseteq snap \cup mined
      /\ \A t \in snap : Depends[t] \subseteq snap \cup mined
  BY DEF CInv, MInv, TypeOK, OnlySnapshot, PackageInv, NothingReported,
         StoreReported
<1>2. Shallow(cur) => Complete(cur)
  BY <1>1 DEF Complete, InChain, Shallow, Calm
<1>3. /\ pc' = "commit" /\ last' \in {cur, NoTx}
      /\ cur \in Spaces /\ Shallow(cur) => last' = cur
  BY <1>1, <1>2, MempoolAssumption DEF NothingReported, StoreReported, Taken
<1>4. UNCHANGED <<pool, mined, snap, cur, left, found>>
  BY DEF NothingReported, StoreReported, node
<1>5. Shallow(cur)' <=> Shallow(cur)
  BY <1>4 DEF Shallow
<1> QED
  BY <1>1, <1>3, <1>4, <1>5 DEF CInv, PackageInv

LEMMA NextPackageInv ==
  ASSUME Calm, CInv, [Next]_vars
  PROVE  PackageInv'
<1>1. CASE NodeMoves
  BY <1>1, NodeKeepsPackageInv
<1>2. CASE BeginCycle
  BY <1>2 DEF CInv, PackageInv, BeginCycle, node
<1>3. CASE ReadRows
  BY <1>3 DEF CInv, PackageInv, ReadRows, node
<1>4. CASE Cleanup
  BY <1>4 DEF CInv, PackageInv, Cleanup, node
<1>5. CASE \E t \in Txs : PickGroup(t)
  <2>1. PICK t \in Txs : PickGroup(t)
    BY <1>5
  <2>2. found = {}
    BY <2>1 DEF CInv, MInv, TypeOK, PickGroup
  <2> QED
    BY <2>1, <2>2 DEF CInv, PackageInv, PickGroup, ParentsOf, node
<1>6. CASE Lookup
  BY <1>6, LookupKeepsPackageInv DEF Lookup
<1>7. CASE NothingReported \/ StoreReported
  BY <1>7, CheckKeepsPackageInv
<1>8. CASE Commit
  BY <1>8 DEF CInv, PackageInv, Commit, node
<1>9. CASE NoGroupLeft \/ StoreRefused \/ Fail \/ CleanupUnanswered
           \/ CommitUnanswered
  BY <1>9, EndCycleKeepsPackageInv
  DEF NoGroupLeft, StoreRefused, Fail, CleanupUnanswered, CommitUnanswered
<1>10. CASE UNCHANGED vars
  BY <1>10 DEF vars, node, tables, local, CInv, PackageInv, Shallow
<1> QED
  BY <1>1, <1>2, <1>3, <1>4, <1>5, <1>6, <1>7, <1>8, <1>9, <1>10
  DEF Next, Prepare, Group, Check

\* What a commit of a group adds: its row and, once, the outputs reported.
LEMMA ApplyAdds ==
  ASSUME CInv, pc = "commit", Apply
  PROVE  /\ rows' = rows \cup {cur} /\ cur \notin rows
         /\ \A t \in Txs : metas'[t] = IF t = last THEN 1 ELSE metas[t]
<1>1. /\ cur \in Txs /\ cur \in found /\ cur \notin rows
      /\ last \in {cur, NoTx} /\ NoTx \notin Txs
  BY MempoolAssumption DEF CInv, MInv, TypeOK, NoClash, PackageInv
<1>2. metas \in [Txs -> 0..Many] /\ metas[cur] = 0
  BY <1>1 DEF CInv, MInv, TypeOK, CycleInv, Many
<1>3. rows' = rows \cup {cur}
  BY <1>1 DEF Apply
<1>4. CASE last = cur
  <2>1. metas' = [metas EXCEPT ![cur] = 1]
    BY <1>1, <1>2, <1>4 DEF Apply, OneMore, Many
  <2> QED
    BY <1>1, <1>2, <1>3, <1>4, <2>1
<1>5. CASE last = NoTx
  BY <1>1, <1>3, <1>5 DEF Apply
<1> QED
  BY <1>1, <1>4, <1>5

LEMMA TableSteps ==
  ASSUME [Next]_vars
  PROVE  UNCHANGED tables \/ DeleteRows \/ (pc = "commit" /\ Apply)
BY DEF Next, Prepare, Group, Check, NodeMoves, Enter, ChainMoves, Evict, BeginCycle,
  ReadRows, Cleanup, CleanupUnanswered, PickGroup, NoGroupLeft, Lookup,
  LookupFinds, LookupSkips, NothingReported, StoreReported, StoreRefused,
  Commit, CommitUnanswered, Fail, vars, tables

\* Outputs are stored once, and go with their row.
LEMMA NextOnce ==
  ASSUME CInv, [Next]_vars
  PROVE  MetasOnce'
<1>1. CASE UNCHANGED tables
  BY <1>1 DEF CInv, tables, MetasOnce
<1>2. CASE DeleteRows
  BY <1>2 DEF CInv, MetasOnce, DeleteRows
<1>3. CASE pc = "commit" /\ Apply
  BY <1>3, ApplyAdds DEF CInv, MetasOnce
<1> QED
  BY <1>1, <1>2, <1>3, TableSteps

\* A row comes with its outputs if its group is shallow, and keeps them.
LEMMA StepComplete ==
  ASSUME CInv, [Next]_vars, NEW t \in rows' \cap Spaces,
         IF t \in rows THEN metas[t] > 0 ELSE Shallow(t)
  PROVE  metas'[t] > 0
<1>1. t \in Txs /\ metas \in [Txs -> 0..Many]
  BY MempoolAssumption DEF CInv, MInv, TypeOK
<1>2. CASE UNCHANGED tables
  BY <1>2 DEF tables
<1>3. CASE DeleteRows
  BY <1>1, <1>3 DEF DeleteRows
<1>4. CASE pc = "commit" /\ Apply
  <2>1. /\ rows' = rows \cup {cur} /\ cur \notin rows
        /\ metas'[t] = IF t = last THEN 1 ELSE metas[t]
    BY <1>1, <1>4, ApplyAdds
  <2>2. t \notin rows => t = cur /\ last = cur
    BY <1>4, <2>1 DEF CInv, PackageInv
  <2> QED
    BY <1>1, <2>1, <2>2
<1> QED
  BY <1>2, <1>3, <1>4, TableSteps

LEMMA CInvHolds ==
  ASSUME Calm
  PROVE  Spec => []CInv
<1>1. CInv /\ [Next]_vars => CInv'
  BY NextMInv, NextPackageInv, NextOnce DEF CInv
<1> QED
  BY InitCInv, <1>1, PTL DEF Spec

\* With a calm node a row of a shallow group comes with its spaces outputs, and
\* every row keeps what it came with: it is never looked at again.
THEOREM RowsAreComplete ==
  ASSUME Calm
  PROVE  Spec => RowsComplete
<1> DEFINE Kept == \A t \in rows' \cap Spaces :
                     (IF t \in rows THEN metas[t] > 0 ELSE Shallow(t)) => metas'[t] > 0
<1>1. CInv /\ [Next]_vars => [Kept]_vars
  BY StepComplete
<1> QED
  BY <1>1, CInvHolds, PTL DEF Spec, RowsComplete

\* None has them twice, however many cycles failed or committed unheard.
THEOREM MetasStoredOnce ==
  ASSUME Calm
  PROVE  Spec => []MetasOnce
BY CInvHolds, PTL DEF CInv

\* Because every package holds all its members and ends in its own transaction,
\* and no other transaction's outputs are stored.
THEOREM PackagesComplete ==
  ASSUME Calm
  PROVE  Spec => []PackageInv
BY CInvHolds, PTL DEF CInv

\* Nothing of the snapshot is lost: it is only filtered, picked and stored.
LEMMA NextMissed ==
  ASSUME Calm, CInv, NothingMissed, [Next]_vars
  PROVE  NothingMissed'
<1>1. CASE Cleanup
  <2>1. /\ rows' = rows \cap snap /\ todo' = snap \ rows
        /\ snap' = snap /\ cur' = NoTx
    BY <1>1 DEF Cleanup, DeleteRows, Gone, ToProcess, CInv, MInv, TypeOK, CycleInv
  <2> QED
    BY <2>1 DEF NothingMissed
<1>2. CASE \E t \in Txs : PickGroup(t)
  <2>1. PICK t \in Txs : PickGroup(t)
    BY <1>2
  <2>2. /\ rows' = rows /\ snap' = snap /\ t \in todo /\ todo' = todo \ {t}
        /\ pc = "pick" /\ cur = NoTx /\ cur' = t /\ t # NoTx
    BY <2>1, MempoolAssumption DEF PickGroup, tables, CInv, MInv, TypeOK
  <2> QED
    BY <2>2 DEF NothingMissed
<1>3. CASE Commit
  <2>1. cur \in found /\ pc = "commit"
    BY <1>3 DEF Commit, CInv, PackageInv
  <2>2. /\ rows' = rows \cup {cur} /\ cur' = NoTx
        /\ UNCHANGED <<snap, todo>> /\ cur # NoTx
    BY <1>3, <2>1 DEF Commit, Apply, CInv, MInv, TypeOK
  <2> QED
    BY <2>1, <2>2 DEF NothingMissed
<1>4. CASE \/ NodeMoves \/ Lookup \/ NothingReported \/ StoreReported
           \/ UNCHANGED vars
  <2>1. /\ UNCHANGED <<rows, snap, todo, cur>>
        /\ pc' \in {"pick", "lookup", "check", "commit"} =>
             pc \in {"pick", "lookup", "check", "commit"}
    BY <1>4 DEF NodeMoves, Enter, ChainMoves, Evict, Lookup, LookupFinds,
      LookupSkips, NothingReported, StoreReported, vars, local, tables
  <2> QED
    BY <2>1 DEF NothingMissed
<1>5. CASE \/ BeginCycle \/ ReadRows \/ NoGroupLeft \/ StoreRefused \/ Fail
           \/ CleanupUnanswered \/ CommitUnanswered
  BY <1>5 DEF BeginCycle, ReadRows, NoGroupLeft, StoreRefused, Fail,
    CleanupUnanswered, CommitUnanswered, EndCycle, NothingMissed
<1> QED
  BY <1>1, <1>2, <1>3, <1>4, <1>5 DEF Next, Prepare, Group, Check

\* A cycle that gets through its groups leaves exactly the snapshot.
THEOREM NoneIsMissed ==
  ASSUME Calm
  PROVE  Spec => []NothingMissed
<1>1. Init => NothingMissed
  BY DEF Init, NothingMissed
<1>2. CInv /\ NothingMissed /\ [Next]_vars => NothingMissed'
  BY NextMissed
<1> QED
  BY <1>1, <1>2, CInvHolds, PTL DEF Spec
=============================================================================
