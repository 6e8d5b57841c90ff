-------------------------- MODULE Snapshots_proofs --------------------------
(***************************************************************************)
(* The rollouts and root anchors of module Snapshots, for every tree of    *)
(* blocks, number of batches and listing of the spaces node, and wherever  *)
(* passes are cut short.                                                   *)
(*                                                                         *)
(* The invariant follows the answers by the work of the block that was the *)
(* node's last one when each was given: those of the run in progress are   *)
(* ordered, newer than what the pass was due to bring, and newer than all  *)
(* that the table shows.                                                   *)
(***************************************************************************)
EXTENDS Snapshots, TLAPS

\* No answer or due date is ahead of the node.
PastInv ==
  /\ Work[since] <= Work[tip]
  /\ shown # NoAnswers => \A i \in Index : Work[shown[i]] <= Work[tip]

\* The run in progress.
AskInv ==
  pc = "ask" =>
    /\ rows = RowsOf(asked, batch)
    /\ \A j \in 0 .. batch - 1 :
         /\ asked[j] \in Blocks
         /\ Work[since] <= Work[asked[j]]
         /\ Work[asked[j]] <= Work[tip]
         /\ \A k \in 0 .. batch - 1 : j < k => Work[asked[j]] <= Work[asked[k]]
         /\ shown # NoAnswers =>
              \A i \in Index : Work[shown[i]] <= Work[asked[j]]

\* Between the commit of the rollouts and the use of the pass's freshness.
DoneInv ==
  pc \in {"anchors", "apply", "fetch", "store"} =>
    /\ shown # NoAnswers
    /\ \A i \in Index : Work[since] <= Work[shown[i]]

IInv == TypeOK /\ RolloutsWhole /\ PastInv /\ AskInv /\ DoneInv

LEMMA WorkIsNat == \A b \in Blocks : Work[b] \in Nat
BY TreeAssumption

\* A table is never shown without answers: there is at least one batch.
LEMMA ShownInBlocks ==
  ASSUME RolloutsWhole, shown # NoAnswers
  PROVE  shown \in [Index -> Blocks]
BY DEF RolloutsWhole

LEMMA IndexFacts ==
  /\ Batches \in Nat \ {0}
  /\ 0 \in Index
  /\ \A i : i \in Index <=> i \in Int /\ 0 <= i /\ i < Batches
BY SnapshotsAssumption DEF Index

LEMMA AnswersOfBlocks ==
  ASSUME NEW f \in [Index -> Blocks]
  PROVE  f # NoAnswers
<1>1. f[0] \in Blocks
  BY IndexFacts
<1>2. NoAnswers[0] = NoBlock
  BY IndexFacts DEF NoAnswers
<1>. QED
  BY <1>1, <1>2, SnapshotsAssumption

LEMMA Initially == Init => IInv
<1>. SUFFICES ASSUME Init PROVE IInv
  OBVIOUS
<1>1. TypeOK
  BY IndexFacts DEF Init, TypeOK, Points, NoAnswers
<1>. QED
  BY <1>1, WorkIsNat DEF Init, IInv, TypeOK, RolloutsWhole, PastInv, AskInv, DoneInv

\* Nothing is claimed of a pass that has ended.
LEMMA EndKeeps ==
  ASSUME IInv, EndPass, tip' = tip, rollouts' = rollouts, shown' = shown,
         since' = since, stored' \in SUBSET Blocks, anchored' \in SUBSET stored'
  PROVE  IInv'
<1>1. TypeOK'
  BY IndexFacts DEF IInv, TypeOK, EndPass, Points, NoAnswers
<1>2. RolloutsWhole' /\ PastInv'
  BY DEF IInv, RolloutsWhole, PastInv, RowsOf
<1>. QED
  BY <1>1, <1>2 DEF IInv, EndPass, AskInv, DoneInv

LEMMA NodeKeeps ==
  ASSUME IInv, NodeMoves
  PROVE  IInv'
<1>. USE DEF IInv
<1>1. PICK b \in Blocks : Work[b] > Work[tip] /\ tip' = b
  BY DEF NodeMoves
<1>2. UNCHANGED <<rollouts, stored, anchored, pc, batch, rows, roots, blk, asked, shown, since>>
  BY DEF NodeMoves, tables, local, history
<1>3. TypeOK'
  BY <1>1, <1>2 DEF TypeOK
<1>4. RolloutsWhole'
  BY <1>2 DEF RolloutsWhole, RowsOf
<1>5. \A c \in Blocks : Work[c] <= Work[tip] => Work[c] <= Work[tip']
  BY <1>1, WorkIsNat DEF TypeOK
<1>6. PastInv'
  BY <1>2, <1>5, ShownInBlocks DEF PastInv, TypeOK
<1>7. AskInv'
  BY <1>2, <1>5 DEF AskInv, RowsOf
<1>8. DoneInv'
  BY <1>2 DEF DoneInv
<1>. QED
  BY <1>3, <1>4, <1>6, <1>7, <1>8

\* The rows of one more batch.
LEMMA OneMoreBatch ==
  ASSUME NEW f, NEW n \in Index, NEW b \in Blocks,
         f \in [Index -> Blocks \cup {NoBlock}]
  PROVE  RowsOf([f EXCEPT ![n] = b], n + 1)
           = RowsOf(f, n) \cup (Listing[b][n] \X {n})
<1>. DEFINE g == [f EXCEPT ![n] = b]
<1>1. \A i \in 0 .. n - 1 : g[i] = f[i]
  BY IndexFacts
<1>2. g[n] = b
  OBVIOUS
<1>3. Listing[b][n] \subseteq Names
  BY SnapshotsAssumption
<1>4. 0 .. (n + 1) - 1 = (0 .. n - 1) \cup {n} /\ n \notin 0 .. n - 1
  BY IndexFacts
<1>5. ASSUME NEW r \in Names \X ((0 .. n - 1) \cup {n})
      PROVE  r[1] \in Listing[g[r[2]]][r[2]]
               <=> r \in RowsOf(f, n) \cup (Listing[b][n] \X {n})
  <2>1. CASE r[2] = n
    BY <1>2, <1>4, <2>1 DEF RowsOf
  <2>2. CASE r[2] \in 0 .. n - 1
    BY <1>1, <1>4, <2>2 DEF RowsOf
  <2>. QED
    BY <2>1, <2>2
<1>6. RowsOf(f, n) \cup (Listing[b][n] \X {n}) \subseteq Names \X ((0 .. n - 1) \cup {n})
  BY <1>3 DEF RowsOf
<1>. QED
  BY <1>4, <1>5, <1>6 DEF RowsOf

LEMMA AskKeeps ==
  ASSUME IInv, GetRollOut
  PROVE  IInv'
<1>. USE DEF IInv
<1>1. /\ pc = "ask" /\ pc' = "ask"
      /\ batch \in Index /\ batch' = batch + 1
      /\ asked' = [asked EXCEPT ![batch] = tip]
      /\ rows' = rows \cup (Listing[tip][batch] \X {batch})
      /\ UNCHANGED <<tip, rollouts, stored, anchored, roots, blk, shown, since>>
  BY IndexFacts DEF GetRollOut, MoreBatches, TypeOK, tables
<1>2. TypeOK'
  <2>1. Listing[tip][batch] \subseteq Names
    BY <1>1, SnapshotsAssumption DEF TypeOK
  <2>2. rows' \subseteq Names \X Index
    BY <1>1, <2>1 DEF TypeOK
  <2>3. batch' \in 0 .. Batches /\ asked' \in [Index -> Blocks \cup {NoBlock}]
    BY <1>1, IndexFacts DEF TypeOK
  <2>. QED
    BY <1>1, <2>2, <2>3 DEF TypeOK
<1>3. RolloutsWhole' /\ PastInv' /\ DoneInv'
  BY <1>1 DEF RolloutsWhole, PastInv, DoneInv, RowsOf
<1>4. rows' = RowsOf(asked', batch')
  <2>1. rows = RowsOf(asked, batch)
    BY <1>1 DEF AskInv
  <2>2. RowsOf(asked', batch + 1) = RowsOf(asked, batch) \cup (Listing[tip][batch] \X {batch})
    BY <1>1, OneMoreBatch DEF TypeOK
  <2>. QED
    BY <1>1, <2>1, <2>2
<1>5. /\ asked'[batch] = tip
      /\ \A j \in 0 .. batch - 1 : asked'[j] = asked[j]
      /\ 0 .. batch' - 1 = (0 .. batch - 1) \cup {batch}
      /\ \A j \in 0 .. batch - 1 : j \in Int /\ j < batch
  BY <1>1, IndexFacts DEF TypeOK
<1>6. ASSUME NEW j \in 0 .. batch' - 1
      PROVE  /\ asked'[j] \in Blocks
             /\ Work[since'] <= Work[asked'[j]]
             /\ Work[asked'[j]] <= Work[tip']
             /\ \A k \in 0 .. batch' - 1 : j < k => Work[asked'[j]] <= Work[asked'[k]]
             /\ shown' # NoAnswers => \A i \in Index : Work[shown'[i]] <= Work[asked'[j]]
  <2>1. tip \in Blocks /\ Work[tip] \in Int /\ batch \in Int
    BY <1>1, WorkIsNat, IndexFacts DEF TypeOK
  <2>2. CASE j = batch
    <3>1. \A k \in 0 .. batch' - 1 : ~ j < k
      BY <1>5, <2>1, <2>2
    <3>. QED
      BY <1>1, <1>5, <2>1, <2>2, <3>1 DEF PastInv
  <2>3. CASE j \in 0 .. batch - 1
    <3>1. \A k \in 0 .. batch' - 1 : j < k => Work[asked'[j]] <= Work[asked'[k]]
      BY <1>1, <1>5, <2>3 DEF AskInv
    <3>. QED
      BY <1>1, <1>5, <2>3, <3>1 DEF AskInv
  <2>. QED
    BY <1>5, <2>2, <2>3
<1>7. AskInv'
  BY <1>4, <1>6 DEF AskInv
<1>. QED
  BY <1>2, <1>3, <1>7

\* What a full run brings, whether its commit is heard of or not.
LEMMA FullRun ==
  ASSUME IInv, Replace
  PROVE  /\ shown' = asked /\ asked \in [Index -> Blocks]
         /\ RolloutsWhole' /\ PastInv'
         /\ \A i \in Index : Work[since'] <= Work[shown'[i]]
         /\ rollouts' \subseteq Names \X Index
         /\ shown # NoAnswers =>
              \A i, j \in Index : Work[shown[j]] <= Work[asked[i]]
<1>. USE DEF IInv
<1>1. /\ pc = "ask" /\ batch = Batches /\ rollouts' = rows /\ shown' = asked
      /\ tip' = tip /\ since' = since
  BY IndexFacts DEF Replace, MoreBatches, TypeOK
<1>2. 0 .. batch - 1 = Index
  BY <1>1 DEF Index
<1>3. asked \in [Index -> Blocks]
  BY <1>1, <1>2 DEF AskInv, TypeOK
<1>4. RolloutsWhole'
  <2>1. \A i, j \in Index : i < j => Work[shown'[i]] <= Work[shown'[j]]
    BY <1>1, <1>2 DEF AskInv
  <2>2. rollouts' = RowsOf(shown', Batches)
    BY <1>1 DEF AskInv
  <2>. QED
    BY <1>1, <1>3, <2>1, <2>2 DEF RolloutsWhole, RowsOf
<1>5. PastInv'
  BY <1>1, <1>2 DEF PastInv, AskInv
<1>. QED
  BY <1>1, <1>2, <1>3, <1>4, <1>5 DEF AskInv, TypeOK

LEMMA CommitKeeps ==
  ASSUME IInv, CommitRollouts
  PROVE  IInv'
<1>1. /\ pc' = "anchors"
      /\ UNCHANGED <<tip, stored, anchored, since, batch, rows, roots, blk, asked>>
      /\ Replace /\ pc = "ask"
  BY DEF CommitRollouts, Replace
<1>2. TypeOK'
  BY <1>1, FullRun DEF IInv, TypeOK, Points
<1>3. DoneInv'
  BY <1>1, FullRun, AnswersOfBlocks DEF DoneInv
<1>. QED
  BY <1>1, <1>2, <1>3, FullRun DEF IInv, AskInv

LEMMA UnansweredKeeps ==
  ASSUME IInv, CommitUnanswered
  PROVE  IInv'
<1>1. CASE Replace
  <2>1. UNCHANGED <<tip, stored, anchored, since>>
    BY <1>1 DEF Replace
  <2>2. TypeOK'
    BY <1>1, <2>1, FullRun, IndexFacts
    DEF CommitUnanswered, EndPass, IInv, TypeOK, Points, NoAnswers
  <2>. QED
    BY <1>1, <2>2, FullRun DEF CommitUnanswered, EndPass, IInv, AskInv, DoneInv
<1>2. CASE UpdateRootAnchors
  BY <1>2, EndKeeps DEF CommitUnanswered, UpdateRootAnchors, Updated, IInv, TypeOK
<1>3. CASE Store
  BY <1>3, EndKeeps DEF CommitUnanswered, Store, IInv, TypeOK
<1>. QED
  BY <1>1, <1>2, <1>3 DEF CommitUnanswered

LEMMA StepKeeps ==
  ASSUME IInv, [Next]_vars
  PROVE  IInv'
<1>. USE DEF IInv
<1>1. CASE NodeMoves
  BY <1>1, NodeKeeps
<1>2. CASE DeleteRollouts
  <2>1. TypeOK'
    BY <1>2, IndexFacts DEF DeleteRollouts, FirstBatch, Kept, TypeOK, Points, tables, history
  <2>2. RolloutsWhole' /\ PastInv' /\ DoneInv'
    BY <1>2 DEF DeleteRollouts, RolloutsWhole, PastInv, DoneInv, RowsOf, tables, history
  <2>3. AskInv'
    BY <1>2 DEF DeleteRollouts, FirstBatch, Kept, AskInv, RowsOf
  <2>. QED
    BY <2>1, <2>2, <2>3
<1>3. CASE GetRollOut
  BY <1>3, AskKeeps
<1>4. CASE BadName
  BY <1>4, EndKeeps DEF BadName, tables, TypeOK
<1>5. CASE CommitRollouts
  BY <1>5, CommitKeeps
<1>6. CASE GetRootAnchors
  BY <1>6 DEF GetRootAnchors, TypeOK, Points, RolloutsWhole, PastInv, AskInv,
              DoneInv, RowsOf, tables, history
<1>7. CASE CommitRootAnchors
  BY <1>7 DEF CommitRootAnchors, UpdateRootAnchors, Updated, TypeOK, Points,
              RolloutsWhole, PastInv, AskInv, DoneInv, RowsOf
<1>8. CASE BeginPass
  <2>1. TypeOK'
    BY <1>8 DEF BeginPass, TypeOK, Points, tables
  <2>2. PastInv'
    BY <1>8, WorkIsNat DEF BeginPass, PastInv, TypeOK, tables
  <2>. QED
    BY <1>8, <2>1, <2>2 DEF BeginPass, RolloutsWhole, AskInv, DoneInv, RowsOf, tables
<1>9. CASE FetchBlock
  <2>1. TypeOK'
    BY <1>9, SnapshotsAssumption DEF FetchBlock, TypeOK, Points, tables
  <2>2. PastInv'
    BY <1>9, WorkIsNat DEF FetchBlock, PastInv, TypeOK, tables
  <2>. QED
    BY <1>9, <2>1, <2>2
    DEF FetchBlock, Renews, RolloutsWhole, AskInv, DoneInv, RowsOf, tables
<1>10. CASE NothingToFetch
  BY <1>10, EndKeeps DEF NothingToFetch, tables, TypeOK
<1>11. CASE StoreBlock
  <2>1. stored' = stored \cup {blk} /\ blk \in Blocks /\ pc = "store"
        /\ UNCHANGED <<tip, rollouts, anchored, shown, since>>
    BY <1>11 DEF StoreBlock, Store, TypeOK
  <2>2. CASE EndPass
    BY <2>1, <2>2, EndKeeps DEF TypeOK
  <2>3. CASE /\ \E b \in Blocks \ {blk} : Parent[b] = blk /\ blk' = b
             /\ UNCHANGED <<pc, batch, rows, roots, asked>>
    <3>1. TypeOK'
      BY <2>1, <2>3, SnapshotsAssumption DEF TypeOK
    <3>. QED
      BY <2>1, <2>3, <3>1 DEF RolloutsWhole, PastInv, AskInv, DoneInv, RowsOf
  <2>. QED
    BY <1>11, <2>2, <2>3 DEF StoreBlock
<1>12. CASE CommitUnanswered
  BY <1>12, UnansweredKeeps
<1>13. CASE Fail
  BY <1>13, EndKeeps DEF Fail, tables, TypeOK
<1>14. CASE UNCHANGED vars
  BY <1>14 DEF vars, tables, local, history, TypeOK, RolloutsWhole, PastInv,
               AskInv, DoneInv, RowsOf
<1>. QED
  BY <1>1, <1>2, <1>3, <1>4, <1>5, <1>6, <1>7, <1>8, <1>9, <1>10, <1>11, <1>12,
     <1>13, <1>14
  DEF Next, SyncRollouts, SyncRootAnchors, SyncBlocks

LEMMA Invariance == Spec => []IInv
<1>1. Init => IInv
  BY Initially
<1>2. IInv /\ [Next]_vars => IInv'
  BY StepKeeps
<1>. QED
  BY <1>1, <1>2, PTL DEF Spec

\* Every variable of the copy of rollouts and anchors keeps to its type; in
\* particular an anchor is only ever set on a block that has a row.
THEOREM TypeCorrect == Spec => []TypeOK
<1>1. IInv => TypeOK
  BY DEF IInv
<1>. QED
  BY <1>1, Invariance, PTL

\* Table rollouts is always one whole run through the batches, in order.
THEOREM RolloutsAreWhole == Spec => []RolloutsWhole
<1>1. IInv => RolloutsWhole
  BY DEF IInv
<1>. QED
  BY <1>1, Invariance, PTL

\* Every block is stored on top of rollouts as new as the pass was due to bring.
THEOREM StoresOnFresh == Spec => []StoredOnFresh
<1>1. IInv => StoredOnFresh
  <2>. SUFFICES ASSUME IInv, pc \in {"fetch", "store"}, NEW i \in Index
                PROVE  Work[shown[i]] >= Work[since]
    BY DEF StoredOnFresh
  <2>1. shown[i] \in Blocks /\ since \in Blocks /\ Work[since] <= Work[shown[i]]
    BY ShownInBlocks DEF IInv, DoneInv, TypeOK
  <2>. QED
    BY <2>1, WorkIsNat
<1>. QED
  BY <1>1, Invariance, PTL

\* No commit puts older answers in the place of newer ones.
THEOREM RolloutsNeverOlder == Spec => NeverOlder
<1>. DEFINE Forward ==
       \A i, j \in Index :
         shown' # shown /\ shown # NoAnswers => Work[shown'[i]] >= Work[shown[j]]
<1>1. IInv /\ [Next]_vars => [Forward]_vars
  <2>. SUFFICES ASSUME IInv, [Next]_vars, NEW i \in Index, NEW j \in Index,
                       shown' # shown, shown # NoAnswers
                PROVE  Work[shown'[i]] >= Work[shown[j]]
    OBVIOUS
  <2>1. Replace
    BY DEF Next, vars, NodeMoves, SyncRollouts, SyncRootAnchors, SyncBlocks,
           DeleteRollouts, GetRollOut, BadName, CommitRollouts, GetRootAnchors,
           CommitRootAnchors, UpdateRootAnchors, BeginPass, FetchBlock,
           NothingToFetch, StoreBlock, Store, CommitUnanswered, Fail, history
  <2>2. shown'[i] \in Blocks /\ Work[shown[j]] <= Work[shown'[i]]
    BY <2>1, FullRun
  <2>3. shown[j] \in Blocks
    BY ShownInBlocks DEF IInv
  <2>. QED
    BY <2>2, <2>3, WorkIsNat
<1>. QED
  BY <1>1, Invariance, PTL DEF Spec, NeverOlder

-----------------------------------------------------------------------------
(***************************************************************************)
(* A node that stands still: a block connected since the pass was last due *)
(* has more work than the one that was the last one then, so answers that  *)
(* are new enough are the answer for that very block.                      *)
(***************************************************************************)

\* b was the node's last block when the pass was last due, or later.
Recent(b) == b \in Blocks /\ (b = since \/ Work[b] > Work[since])

\* The answer holds the anchors, and the rows have got those, that the node kept
\* when a recent block was the last one.
RecentRoots ==
  \E b \in Blocks :
    /\ Recent(b) /\ Work[b] <= Work[tip]
    /\ roots = Anchoring \cap Ancestors[b]

RecentAnchors ==
  \E b \in Blocks :
    /\ Recent(b) /\ Work[b] <= Work[tip]
    /\ stored \cap Anchoring \cap Ancestors[b] \subseteq anchored

RecentInv ==
  /\ Recent(tip)
  /\ pc = "ask" => \A j \in 0 .. batch - 1 : Recent(asked[j])
  /\ pc \in {"anchors", "apply", "fetch", "store"} =>
       \A i \in Index : Recent(shown[i])
  /\ pc = "apply" => RecentRoots
  /\ pc = "fetch" => RecentAnchors

LEMMA EndKeepsRecent ==
  ASSUME RecentInv, EndPass, tip' = tip, since' = since
  PROVE  RecentInv'
BY DEF RecentInv, EndPass, Recent

LEMMA NodeKeepsRecent ==
  ASSUME IInv, RecentInv, NodeMoves
  PROVE  RecentInv'
<1>1. PICK b \in Blocks : Work[b] > Work[tip] /\ tip' = b
  BY DEF NodeMoves
<1>2. UNCHANGED <<stored, anchored, pc, batch, roots, asked, shown, since>>
  BY DEF NodeMoves, tables, local, history
<1>3. /\ tip \in Blocks /\ since \in Blocks
      /\ \A c \in Blocks : Work[c] <= Work[tip] => Work[c] <= Work[tip']
  BY <1>1, WorkIsNat DEF IInv, TypeOK
<1>4. Recent(tip)'
  <2>1. Work[since] <= Work[tip]
    BY DEF IInv, PastInv
  <2>2. Work[tip'] > Work[since]
    BY <1>1, <1>3, <2>1, WorkIsNat
  <2>. QED
    BY <1>1, <1>2, <2>2 DEF Recent
<1>. QED
  BY <1>2, <1>3, <1>4 DEF RecentInv, Recent, RecentRoots, RecentAnchors

LEMMA StepKeepsRecent ==
  ASSUME IInv, RecentInv, [Next]_vars
  PROVE  RecentInv'
<1>1. CASE NodeMoves
  BY <1>1, NodeKeepsRecent
<1>2. CASE DeleteRollouts
  BY <1>2 DEF DeleteRollouts, FirstBatch, RecentInv, Recent, history
<1>3. CASE GetRollOut
  <2>1. /\ pc = "ask" /\ pc' = "ask" /\ batch \in Index /\ batch' = batch + 1
        /\ asked' = [asked EXCEPT ![batch] = tip]
        /\ UNCHANGED <<tip, since>>
    BY <1>3, IndexFacts DEF GetRollOut, MoreBatches, IInv, TypeOK
  <2>2. /\ asked'[batch] = tip
        /\ \A j \in 0 .. batch - 1 : asked'[j] = asked[j]
        /\ 0 .. batch' - 1 = (0 .. batch - 1) \cup {batch}
    BY <2>1, IndexFacts DEF IInv, TypeOK
  <2>. QED
    BY <2>1, <2>2 DEF RecentInv, Recent
<1>4. CASE CommitRollouts
  <2>1. /\ pc = "ask" /\ pc' = "anchors" /\ shown' = asked /\ batch = Batches
        /\ UNCHANGED <<tip, since>>
    BY <1>4, IndexFacts DEF CommitRollouts, Replace, MoreBatches, IInv, TypeOK
  <2>2. \A i \in Index : Recent(asked[i])
    BY <2>1 DEF RecentInv, Index
  <2>. QED
    BY <2>1, <2>2 DEF RecentInv, Recent
<1>5. CASE GetRootAnchors
  <2>1. /\ pc = "anchors" /\ pc' = "apply" /\ roots' = Anchoring \cap Ancestors[tip]
        /\ UNCHANGED <<tip, shown, since>>
    BY <1>5 DEF GetRootAnchors, history
  <2>2. RecentRoots'
    <3>1. Recent(tip)' /\ tip \in Blocks /\ Work[tip] <= Work[tip]
      BY <2>1, WorkIsNat DEF RecentInv, Recent, IInv, TypeOK
    <3>. QED
      BY <2>1, <3>1 DEF RecentRoots, Recent
  <2>. QED
    BY <2>1, <2>2 DEF RecentInv, Recent
<1>6. CASE CommitRootAnchors
  <2>1. /\ pc = "apply" /\ pc' \in {"fetch", "store"}
        /\ anchored' = anchored \cup (roots \cap stored)
        /\ UNCHANGED <<tip, stored, shown, since>>
    BY <1>6 DEF CommitRootAnchors, UpdateRootAnchors, Updated
  <2>2. RecentAnchors'
    <3>1. PICK b \in Blocks : /\ Recent(b) /\ Work[b] <= Work[tip]
                              /\ roots = Anchoring \cap Ancestors[b]
      BY <2>1 DEF RecentInv, RecentRoots
    <3>2. stored' \cap Anchoring \cap Ancestors[b] \subseteq anchored'
      BY <2>1, <3>1
    <3>. QED
      BY <2>1, <3>1, <3>2 DEF RecentAnchors, Recent
  <2>. QED
    BY <2>1, <2>2 DEF RecentInv, Recent
<1>7. CASE BeginPass
  BY <1>7 DEF BeginPass, RecentInv, Recent, IInv, TypeOK
<1>8. CASE FetchBlock
  <2>1. /\ pc = "fetch" /\ UNCHANGED <<tip, shown, batch, asked>>
        /\ \/ pc' = "delete" /\ since' = tip
           \/ pc' = "store" /\ since' = since
    BY <1>8 DEF FetchBlock, Renews
  <2>. QED
    BY <2>1 DEF RecentInv, Recent
<1>9. CASE StoreBlock
  <2>1. /\ pc = "store" /\ pc' \in {"store", "idle"}
        /\ UNCHANGED <<tip, shown, since>>
    BY <1>9 DEF StoreBlock, Store, EndPass
  <2>. QED
    BY <2>1 DEF RecentInv, Recent
<1>10. CASE BadName \/ NothingToFetch \/ Fail \/ CommitUnanswered
  <2>1. EndPass /\ UNCHANGED <<tip, since>>
    BY <1>10 DEF BadName, NothingToFetch, Fail, CommitUnanswered, Replace,
                 UpdateRootAnchors, Store
  <2>. QED
    BY <2>1, EndKeepsRecent
<1>11. CASE UNCHANGED vars
  BY <1>11 DEF vars, tables, local, history, RecentInv, Recent, RecentRoots, RecentAnchors
<1>. QED
  BY <1>1, <1>2, <1>3, <1>4, <1>5, <1>6, <1>7, <1>8, <1>9, <1>10, <1>11
  DEF Next, SyncRollouts, SyncRootAnchors, SyncBlocks

\* A recent last block is the node's last one where the node did not move.
LEMMA RecentIsLast ==
  ASSUME IInv, tip = since, NEW b, Recent(b), Work[b] <= Work[tip]
  PROVE  b = tip
BY WorkIsNat DEF Recent, IInv, TypeOK

\* A pass on a node that stands still brings the rollouts and the anchors up to
\* date before it stores its first block.
THEOREM StillIsFresh == Spec => []FreshIfStill
<1>1. Init => IInv /\ RecentInv
  BY Initially DEF Init, RecentInv, Recent
<1>2. IInv /\ RecentInv /\ [Next]_vars => (IInv /\ RecentInv)'
  BY StepKeeps, StepKeepsRecent
<1>3. ASSUME IInv, RecentInv
      PROVE  FreshIfStill
  <2>. SUFFICES ASSUME pc \in {"fetch", "store"}, tip = since
                PROVE  /\ rollouts = RowsOf([i \in Index |-> tip], Batches)
                       /\ pc = "fetch" => stored \cap Anchoring \cap Ancestors[tip]
                                            \subseteq anchored
    BY DEF FreshIfStill
  <2>1. shown \in [Index -> Blocks] /\ rollouts = RowsOf(shown, Batches)
    BY <1>3 DEF IInv, DoneInv, RolloutsWhole
  <2>2. \A i \in Index : shown[i] = tip
    BY <1>3, RecentIsLast DEF IInv, DoneInv, PastInv, RecentInv
  <2>3. shown = [i \in Index |-> tip]
    BY <2>1, <2>2
  <2>4. ASSUME pc = "fetch"
        PROVE  stored \cap Anchoring \cap Ancestors[tip] \subseteq anchored
    <3>1. PICK b \in Blocks :
            /\ Recent(b) /\ Work[b] <= Work[tip]
            /\ stored \cap Anchoring \cap Ancestors[b] \subseteq anchored
      BY <1>3, <2>4 DEF RecentInv, RecentAnchors
    <3>. QED
      BY <1>3, <3>1, RecentIsLast
  <2>. QED
    BY <2>1, <2>3, <2>4
<1>. QED
  BY <1>1, <1>2, <1>3, PTL DEF Spec
=============================================================================
