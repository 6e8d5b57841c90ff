---------------------------- MODULE Populate_proofs ----------------------------
(***************************************************************************)
(* Proofs about Populate, for every range of heights, every batch size and *)
(* wherever attempts fail.                                                 *)
(*                                                                         *)
(* What the service commits it adds from below, because an attempt inserts *)
(* from below on top of what the attempts before left, committed or not:   *)
(* at any time a height the attempt has passed is one copy ahead of those  *)
(* it has not (AttemptInv).  A block above the end of an attempt that is   *)
(* to go to the latest block was stored with its outputs after the end was *)
(* read (EndInv).  IInv adds the types and what a failure leaves.          *)
(***************************************************************************)
EXTENDS Populate, TLAPS

\* The copies of h if the open transaction were committed.
Total(h) == Plus(committed[h], pending[h])

Working == pc \in {"block", "insert", "commit"}

\* The attempt has inserted the outputs of h.
Passed(h) == h < height \/ (h = height /\ pc = "commit")

AttemptInv ==
  /\ \A g, h \in Heights : g < h => Total(g) >= Total(h)
  /\ Working => \A g, h \in Heights :
       g < h /\ Passed(g) /\ ~Passed(h) => Total(g) >= Plus(Total(h), 1)
  /\ Working => \A h \in Heights :
       Passed(h) => Total(h) > 0 /\ h \notin Unstorable

EndInv ==
  Working /\ SyncEndHeight = -1 =>
    \A h \in stored : h <= endHeight \/ h \in synced

InRange ==
  /\ Working => height >= ActivationHeight
  /\ pc \in {"insert", "commit"} => height \in Heights

IInv ==
  /\ TypeOK
  /\ InRange
  /\ EarlyFailureLeavesNothing
  /\ AddsFromBelow
  /\ AttemptInv
  /\ EndInv
  /\ DoneComplete

-----------------------------------------------------------------------------

\* The capped sum behaves as a sum where it matters.
LEMMA PlusFacts ==
  ASSUME NEW m \in 0..Many, NEW n \in 0..Many
  PROVE  /\ Plus(m, n) \in 0..Many
         /\ Plus(m, 0) = m
         /\ Plus(m, Plus(n, 1)) = Plus(Plus(m, n), 1)
         /\ Plus(m, 1) >= m /\ Plus(m, 1) > 0
         /\ m >= n => Plus(m, 1) >= Plus(n, 1)
BY DEF Plus, Many

LEMMA Types ==
  ASSUME TypeOK
  PROVE  /\ Heights \subseteq Nat /\ ActivationHeight \in Nat
         /\ \A h \in Heights : h >= ActivationHeight
         /\ \A h \in Heights : committed[h] \in 0..Many /\ pending[h] \in 0..Many
         /\ \A h \in Heights : Total(h) \in 0..Many
<1>1. \A h \in Heights : committed[h] \in 0..Many /\ pending[h] \in 0..Many
  BY DEF TypeOK
<1> QED
  BY <1>1, PlusFacts, PopulateAssumption DEF Heights, Total

LEMMA InitIInv == Init => IInv
<1> SUFFICES ASSUME Init PROVE IInv
  OBVIOUS
<1>1. TypeOK
  <2>1. None \in [Heights -> 0..Many]
    BY DEF None, Many
  <2> QED
    BY <2>1 DEF Init, TypeOK, Points
<1>2. \A h \in Heights : committed[h] = 0 /\ Total(h) = 0
  BY DEF Init, None, Total, Plus, Many
<1>3. AddsFromBelow /\ AttemptInv
  BY <1>2 DEF Init, AddsFromBelow, AttemptInv, Working
<1> QED
  BY <1>1, <1>3
  DEF Init, IInv, InRange, EndInv, Working, EarlyFailureLeavesNothing, DoneComplete

\* An attempt that begins has passed nothing yet.
LEMMA StartsIInv ==
  ASSUME IInv, Begin \/ ReadEnd
  PROVE  IInv'
<1>1. /\ UNCHANGED <<stored, synced, committed, pending>> /\ conn' = "open"
      /\ deferred' \in BOOLEAN
      /\ \/ pc' = "end" /\ height' = height /\ endHeight' = endHeight
         \/ /\ pc' = "block" /\ height' = ActivationHeight
            /\ endHeight' \in Heights \cup {-1}
  BY DEF IInv, TypeOK, Begin, ReadEnd, FirstHeight, database
<1>2. TypeOK'
  BY <1>1, PopulateAssumption DEF IInv, TypeOK, Points
<1>3. AddsFromBelow' /\ \A h \in Heights : Total(h)' = Total(h)
  BY <1>1 DEF IInv, AddsFromBelow, Total
<1>4. \A h \in Heights : Working' => ~Passed(h)'
  BY <1>1, PopulateAssumption DEF Working, Passed, Heights
<1>5. AttemptInv'
  BY <1>3, <1>4 DEF IInv, AttemptInv
<1>6. EndInv'
  <2>1. CASE Begin
    BY <2>1 DEF Begin, EndInv, Working
  <2>2. CASE ReadEnd
    BY <2>2 DEF ReadEnd, EndsAt, MaxStored, EndInv, database
  <2> QED
    BY <2>1, <2>2
<1> QED
  BY <1>1, <1>2, <1>3, <1>5, <1>6, PopulateAssumption
  DEF IInv, InRange, Working, EarlyFailureLeavesNothing, DoneComplete

\* One more copy of the block in work: it had as many as those above at least,
\* and one less than those below.
LEMMA InsertedTotals ==
  ASSUME IInv, pc = "insert"
  PROVE  /\ Inserted \in [Heights -> 0..Many]
         /\ \A h \in Heights : Total(h) \in 0..Many /\ Plus(Total(h), 1) \in 1..Many
                                /\ Plus(Total(h), 1) >= Total(h)
         /\ \A g, h \in Heights :
              g < height /\ height <= h => Total(g) >= Plus(Total(h), 1)
         /\ (pending' = Inserted /\ UNCHANGED committed) =>
              /\ \A h \in Heights :
                   Total(h)' = IF h = height THEN Plus(Total(h), 1) ELSE Total(h)
              /\ \A g, h \in Heights : g < h => Total(g)' >= Total(h)'
<1>1. /\ height \in Heights /\ height \in Nat
      /\ pending \in [Heights -> 0..Many]
  BY DEF IInv, TypeOK, InRange
<1>2. \A m \in 0..Many : Plus(m, 1) \in 1..Many /\ Plus(m, 1) >= m
  BY DEF Plus, Many
<1>3. Plus(pending[height], 1) \in 0..Many
  BY <1>1, <1>2, Types DEF IInv, Many
<1>4. Inserted \in [Heights -> 0..Many]
  BY <1>1, <1>3 DEF Inserted
<1>5. \A h \in Heights : Total(h) \in 0..Many /\ Plus(Total(h), 1) \in 1..Many
                          /\ Plus(Total(h), 1) >= Total(h)
  BY <1>2, Types DEF IInv
<1>6. \A g, h \in Heights : g < height /\ height <= h => Total(g) >= Plus(Total(h), 1)
  <2>1. Working /\ \A h \in Heights : Passed(h) <=> h < height
    BY <1>1 DEF Working, Passed
  <2> QED
    BY <1>1, <2>1, Types DEF IInv, AttemptInv
<1>7. ASSUME pending' = Inserted, UNCHANGED committed, NEW h \in Heights
      PROVE  Total(h)' = IF h = height THEN Plus(Total(h), 1) ELSE Total(h)
  <2>1. committed[h] \in 0..Many /\ pending[h] \in 0..Many
    BY Types DEF IInv
  <2>2. pending'[h] = IF h = height THEN Plus(pending[h], 1) ELSE pending[h]
    BY <1>1, <1>7 DEF Inserted
  <2> QED
    BY <1>7, <2>1, <2>2, PlusFacts DEF Total
<1>8. \A g, h \in Heights : g < h => Total(g) >= Total(h)
  BY DEF IInv, AttemptInv
<1>9. ASSUME pending' = Inserted, UNCHANGED committed,
             NEW g \in Heights, NEW h \in Heights, g < h
      PROVE  Total(g)' >= Total(h)'
  <2>1. /\ Total(g)' = IF g = height THEN Plus(Total(g), 1) ELSE Total(g)
        /\ Total(h)' = IF h = height THEN Plus(Total(h), 1) ELSE Total(h)
    BY <1>7, <1>9
  <2> QED
    BY <1>1, <1>5, <1>6, <1>8, <1>9, <2>1, Types DEF IInv, Many
<1> QED
  BY <1>4, <1>5, <1>6, <1>7, <1>9

LEMMA InsertIInv ==
  ASSUME IInv, Insert
  PROVE  IInv'
<1>1. /\ pc = "insert" /\ height \in Heights /\ height \in Nat
      /\ height \notin Unstorable
      /\ pending' = Inserted
      /\ UNCHANGED <<stored, synced, committed, conn, deferred, endHeight>>
      /\ \/ pc' = "commit" /\ height' = height
         \/ pc' = "block" /\ height' = height + 1
  BY DEF IInv, TypeOK, InRange, Insert, NextHeight, database
<1>2. TypeOK'
  BY <1>1, InsertedTotals DEF IInv, TypeOK, Points
<1>3. \A h \in Heights :
        Total(h)' = IF h = height THEN Plus(Total(h), 1) ELSE Total(h)
  BY <1>1, InsertedTotals
<1>4. \A h \in Heights : Passed(h) <=> h < height
  BY <1>1 DEF Passed
<1>5. \A h \in Heights : Passed(h)' <=> h <= height
  BY <1>1, Types DEF IInv, Passed
<1>6. ASSUME NEW g \in Heights, NEW h \in Heights, g <= height, height < h
      PROVE  Total(g)' >= Plus(Total(h)', 1)
  <2>1. Total(h)' = Total(h)
    BY <1>1, <1>3, <1>6
  <2>2. CASE g = height
    <3>1. Total(g) >= Total(h) /\ Total(g)' = Plus(Total(g), 1)
      BY <1>3, <1>6, <2>2 DEF IInv, AttemptInv
    <3> QED
      BY <1>1, <2>1, <3>1, InsertedTotals, PlusFacts
  <2>3. CASE g < height
    <3>1. Total(g)' = Total(g) /\ Total(g) >= Plus(Total(h), 1)
      BY <1>1, <1>3, <1>6, <2>3, InsertedTotals, Types DEF IInv
    <3> QED
      BY <2>1, <3>1
  <2> QED
    BY <1>1, <1>6, <2>2, <2>3, Types DEF IInv
<1>7. ASSUME NEW h \in Heights, h <= height
      PROVE  Total(h)' > 0 /\ h \notin Unstorable
  <2>1. CASE h = height
    BY <1>1, <1>3, <2>1, InsertedTotals
  <2>2. CASE h < height
    BY <1>1, <1>3, <1>4, <2>2 DEF IInv, AttemptInv, Working
  <2> QED
    BY <1>1, <1>7, <2>1, <2>2, Types DEF IInv
<1>8. AttemptInv'
  <2>1. \A g, h \in Heights : Passed(g)' /\ ~Passed(h)' => g <= height /\ height < h
    BY <1>1, <1>5, Types DEF IInv
  <2>2. \A g, h \in Heights : g < h => Total(g)' >= Total(h)'
    BY <1>1, InsertedTotals
  <2> QED
    BY <1>5, <1>6, <1>7, <2>1, <2>2 DEF AttemptInv
<1>9. height' >= ActivationHeight /\ (pc' = "commit" => height' \in Heights)
  BY <1>1, Types DEF IInv
<1>10. EndInv'
  BY <1>1 DEF IInv, EndInv, Working
<1> QED
  BY <1>1, <1>2, <1>8, <1>9, <1>10
  DEF IInv, InRange, Working, EarlyFailureLeavesNothing, DoneComplete,
      AddsFromBelow

\* A commit makes the totals permanent, and leaves them the totals they were.
LEMMA ApplyTotals ==
  ASSUME IInv, Apply, pending' = None
  PROVE  /\ committed' \in [Heights -> 0..Many] /\ pending' \in [Heights -> 0..Many]
         /\ \A h \in Heights : committed'[h] = Total(h) /\ Total(h)' = Total(h)
         /\ AddsFromBelow'
<1>1. \A h \in Heights : committed'[h] = Total(h) /\ Total(h) \in 0..Many
  BY Types DEF IInv, Apply, Total
<1>2. \A h \in Heights : pending'[h] = 0
  BY DEF None
<1>3. \A h \in Heights : Total(h)' = Total(h)
  BY <1>1, <1>2, PlusFacts DEF Total
<1>4. committed' \in [Heights -> 0..Many] /\ pending' \in [Heights -> 0..Many]
  BY <1>1 DEF Apply, None, Many
<1> QED
  BY <1>1, <1>3, <1>4 DEF IInv, AddsFromBelow, AttemptInv

LEMMA CommitsIInv ==
  ASSUME IInv, CommitBatch \/ Finish \/ CommitUnanswered
  PROVE  IInv'
<1>1. /\ Apply /\ pending' = None /\ endHeight' = endHeight
      /\ UNCHANGED <<stored, synced>>
      /\ height \in Nat /\ pc \in {"commit", "block"}
  BY DEF IInv, TypeOK, CommitBatch, ConnAfterBatch, NextHeight, Finish, MoreBlocks,
         CommitUnanswered, database
<1>2. /\ committed' \in [Heights -> 0..Many] /\ pending' \in [Heights -> 0..Many]
      /\ \A h \in Heights : committed'[h] = Total(h) /\ Total(h)' = Total(h)
      /\ AddsFromBelow'
  BY <1>1, ApplyTotals
<1>3. CASE CommitBatch
  <2>1. /\ pc = "commit" /\ pc' = "block" /\ height' = height + 1
        /\ deferred' = FALSE /\ conn' = "open" /\ height \in Heights
    BY <1>3 DEF IInv, TypeOK, InRange, CommitBatch, ConnAfterBatch, NextHeight
  <2>2. height' \in Nat /\ height' >= ActivationHeight
    BY <1>1, <2>1, Types DEF IInv
  <2>3. TypeOK'
    BY <1>1, <1>2, <2>1, <2>2 DEF IInv, TypeOK, Points
  <2>4. \A h \in Heights : Passed(h)' <=> Passed(h)
    BY <1>1, <2>1, Types DEF IInv, Passed
  <2>5. AttemptInv'
    BY <1>2, <2>1, <2>4 DEF IInv, AttemptInv, Working
  <2>6. EndInv'
    BY <1>1, <2>1 DEF IInv, EndInv, Working
  <2> QED
    BY <1>2, <2>1, <2>2, <2>3, <2>5, <2>6
    DEF IInv, InRange, Working, EarlyFailureLeavesNothing, DoneComplete
<1>4. CASE Finish
  <2>1. /\ pc = "block" /\ height > endHeight /\ pc' = "done" /\ conn' = "idle"
        /\ height' = height /\ deferred' = deferred
    BY <1>4, PopulateAssumption DEF IInv, TypeOK, Heights, Finish, MoreBlocks
  <2>2. TypeOK'
    BY <1>1, <1>2, <2>1 DEF IInv, TypeOK, Points
  <2>3. AttemptInv'
    BY <1>2, <2>1 DEF IInv, AttemptInv, Working
  <2>4. \A h \in ActivationHeight..endHeight : h \in Heights /\ Passed(h)
    BY <2>1, PopulateAssumption DEF IInv, TypeOK, Heights, Passed
  <2>5. \A h \in ActivationHeight..endHeight : committed'[h] > 0 /\ h \notin Unstorable
    BY <1>2, <2>1, <2>4 DEF IInv, AttemptInv, Working
  <2>6. SyncEndHeight = -1 => \A h \in stored : committed'[h] > 0 \/ h \in synced
    <3>1. SyncEndHeight = -1 => \A h \in stored : h <= endHeight \/ h \in synced
      BY <2>1 DEF IInv, EndInv, Working
    <3>2. \A h \in stored : h <= endHeight => h \in ActivationHeight..endHeight
      BY PopulateAssumption DEF IInv, TypeOK, Heights
    <3> QED
      BY <2>5, <3>1, <3>2
  <2>7. DoneComplete'
    BY <1>1, <2>5, <2>6 DEF DoneComplete
  <2>8. EndInv'
    BY <2>1 DEF EndInv, Working
  <2> QED
    BY <1>2, <2>1, <2>2, <2>3, <2>7, <2>8
    DEF IInv, InRange, Working, EarlyFailureLeavesNothing
<1>5. CASE CommitUnanswered
  <2>1. /\ pc' = "begin" /\ conn' = "closed" /\ height' = height
        /\ deferred' = deferred
    BY <1>5 DEF CommitUnanswered
  <2>2. TypeOK'
    BY <1>1, <1>2, <2>1 DEF IInv, TypeOK, Points
  <2>3. AttemptInv'
    BY <1>2, <2>1 DEF IInv, AttemptInv, Working
  <2> QED
    BY <1>1, <1>2, <2>1, <2>2, <2>3
    DEF IInv, InRange, EndInv, Working, EarlyFailureLeavesNothing, DoneComplete
<1> QED
  BY <1>3, <1>4, <1>5

\* A failure drops the open transaction's inserts, keeps them all, or keeps them
\* with a part of the block in work: that is still no more than below it.
LEMMA ReturnsIInv ==
  ASSUME IInv,
         \/ BeginFails
         \/ \E c \in {"open", "aborted", "closed"} : Return(c, pending)
         \/ Refused
  PROVE  IInv'
<1>1. /\ UNCHANGED <<stored, synced, committed, deferred, height, endHeight>>
      /\ pc' = "begin"
      /\ conn' \in {"idle", "open", "aborted", "closed"}
      /\ \/ pending' \in {None, pending}
         \/ pc = "insert" /\ pending' = Inserted
  BY DEF BeginFails, Return, Refused, RollsBack, database
<1>2. \A g, h \in Heights : g < h => Total(g)' >= Total(h)'
  <2>1. CASE pending' = pending
    BY <1>1, <2>1 DEF IInv, AttemptInv, Total
  <2>2. CASE pending' = None
    <3>1. \A h \in Heights : Total(h)' = committed[h]
      BY <1>1, <2>2, Types, PlusFacts DEF IInv, Total, None
    <3> QED
      BY <3>1 DEF IInv, AddsFromBelow
  <2>3. CASE pc = "insert" /\ pending' = Inserted
    BY <1>1, <2>3, InsertedTotals
  <2> QED
    BY <1>1, <2>1, <2>2, <2>3
<1>3. TypeOK'
  <2>1. pending' \in [Heights -> 0..Many]
    BY <1>1, InsertedTotals DEF IInv, TypeOK, None, Many
  <2> QED
    BY <1>1, <2>1 DEF IInv, TypeOK, Points
<1>4. EarlyFailureLeavesNothing'
  BY DEF BeginFails, Return, Refused, RollsBack, EarlyFailureLeavesNothing
<1> QED
  BY <1>1, <1>2, <1>3, <1>4
  DEF IInv, InRange, AddsFromBelow, AttemptInv, EndInv, Working, DoneComplete

LEMMA NextIInv ==
  ASSUME IInv, [Next]_vars
  PROVE  IInv'
<1>1. CASE BlockStored
  <2>1. /\ stored' \subseteq Heights /\ synced' \subseteq stored'
        /\ \A h \in stored' : h \in stored \/ h \in synced'
        /\ synced \subseteq synced'
        /\ UNCHANGED <<committed, pending, conn, deferred, pc, height, endHeight>>
    BY <1>1 DEF IInv, TypeOK, BlockStored
  <2>2. EndInv' /\ DoneComplete'
    BY <2>1 DEF IInv, EndInv, DoneComplete, Working
  <2> QED
    BY <2>1, <2>2 DEF IInv, TypeOK, InRange, EarlyFailureLeavesNothing,
      AddsFromBelow, AttemptInv, Working, Passed, Total
<1>2. CASE Begin \/ ReadEnd
  BY <1>2, StartsIInv
<1>3. CASE Fetch
  <2>1. /\ pc = "block" /\ pc' = "insert" /\ height \in Nat
        /\ height <= endHeight /\ endHeight \in Heights \cup {-1}
        /\ UNCHANGED <<stored, synced, committed, pending, conn, deferred, height,
                       endHeight>>
    BY <1>3 DEF IInv, TypeOK, Fetch, MoreBlocks, database
  <2>2. TypeOK'
    BY <2>1 DEF IInv, TypeOK, Points
  <2>3. height \in Heights
    BY <2>1, PopulateAssumption DEF IInv, InRange, Working, Heights
  <2> QED
    BY <2>1, <2>2, <2>3 DEF IInv, InRange, EarlyFailureLeavesNothing,
      AddsFromBelow, AttemptInv, EndInv, Working, Passed, Total, DoneComplete
<1>4. CASE Insert
  BY <1>4, InsertIInv
<1>5. CASE CommitBatch \/ Finish \/ CommitUnanswered
  BY <1>5, CommitsIInv
<1>6. CASE BeginFails \/ CallFails \/ Refused \/ StatementFails \/ ConnectionLost
  BY <1>6, ReturnsIInv DEF CallFails, MoreBlocks, StatementFails, ConnectionLost
<1>7. CASE UNCHANGED vars
  BY <1>7 DEF vars, database, IInv, TypeOK, InRange, EarlyFailureLeavesNothing,
    AddsFromBelow, AttemptInv, EndInv, Working, Passed, Total, DoneComplete
<1> QED
  BY <1>1, <1>2, <1>3, <1>4, <1>5, <1>6, <1>7 DEF Next, Attempt, Failure

LEMMA IInvHolds == Spec => []IInv
BY InitIInv, NextIInv, PTL DEF Spec

\* The types, for every range and batch size.
THEOREM TypeCorrect == Spec => []TypeOK
BY IInvHolds, PTL DEF IInv

\* Success means completeness, whatever attempts failed before and whatever the
\* sync service stored meanwhile.
THEOREM SuccessIsComplete == Spec => []DoneComplete
BY IInvHolds, PTL DEF IInv

\* What the service adds it adds from below: no block gets a copy of its outputs
\* from it, nor a part of one, before the blocks below have theirs.
THEOREM AlwaysAddsFromBelow == Spec => []AddsFromBelow
BY IInvHolds, PTL DEF IInv

\* An attempt that fails before its first commit leaves no trace.
THEOREM EarlyFailuresAreClean == Spec => []EarlyFailureLeavesNothing
BY IInvHolds, PTL DEF IInv
=============================================================================
