------------------------------- MODULE Populate -------------------------------
(***************************************************************************)
(* The populate service (cmd/populate/populate.go): it inserts the spaces  *)
(* outputs of blocks that are in the database already, from the activation *)
(* height up, on one connection, and commits now and then.  An attempt     *)
(* that fails is made again from the start, on the same connection.  The   *)
(* sync service, which stores blocks meanwhile, inserts their outputs into *)
(* the same table; neither looks whether they are there.                   *)
(*                                                                         *)
(* Simplifications.  All blocks have spaces outputs; the outputs of one    *)
(* block that this service inserts are one number, how often it did so,    *)
(* in whole or in part, counted up to Many.  The node's chain only grows   *)
(* meanwhile, so a height stands for its block.  What the PostgreSQL       *)
(* server and pgx make of a transaction that is left open is external.     *)
(***************************************************************************)
EXTENDS Integers, FiniteSets

CONSTANTS
  ActivationHeight,  \* activationBlock, and the lowest block modelled
  TopHeight,         \* the highest one
  SyncEndHeight,     \* syncEndHeight: where to stop, -1 for the latest block
  Batch,             \* a height divisible by it is committed: 10 in the code
  Unstorable,        \* blocks with a covenant StoreSpacesTransaction does not know
  FaultPoints        \* where an attempt may fail

Heights == ActivationHeight..TopHeight
Points == {"begin", "end", "block", "insert", "commit"}

ASSUME PopulateAssumption ==
  /\ ActivationHeight \in Nat \ {0}
  /\ TopHeight \in Nat
  /\ SyncEndHeight \in Heights \cup {-1}
  /\ Batch \in Nat \ {0}
  /\ Unstorable \subseteq Heights
  /\ FaultPoints \subseteq Points

VARIABLES
  stored,     \* the heights at which the database has the node's block
  synced,     \* those whose outputs were inserted with the block
  committed,  \* how often this service inserted the outputs of each block
  pending,    \* how often it did so in the open transaction
  conn,       \* the connection: idle, in a transaction, in one that failed, or closed
  deferred,   \* the deferred Rollback belongs to the open transaction
  pc,         \* where the attempt is
  height,     \* the block in work
  endHeight   \* the last one of this attempt

database == <<stored, synced>>
vars == <<database, committed, pending, conn, deferred, pc, height, endHeight>>

\* The counters go no further than this.
Many == 3
Plus(m, n) == IF m + n < Many THEN m + n ELSE Many
None == [h \in Heights |-> 0]

\* GetBlocksMaxHeight returns h; the mempool's row has height -1.
MaxStored(h) == h \in stored \cup {-1} /\ \A g \in stored : g <= h

\* h is where an attempt that starts now is to stop.
EndsAt(h) == IF SyncEndHeight = -1 THEN MaxStored(h) ELSE h = SyncEndHeight

\* Mutant of FirstHeight: an attempt goes on at the height the last one had got
\* to.
HeightReached == IF height = 0 THEN ActivationHeight ELSE height

\* Where the loop starts.
FirstHeight == ActivationHeight

\* Mutants of the loop's header: the height stays; the last block is left out.
SameHeight == height
MoreButOne == height < endHeight

NextHeight == height + 1
MoreBlocks == height <= endHeight

\* Mutant of ConnAfterBatch: there is no pg.Begin for the next batch.
NoNextBatch == "idle"

\* The connection after a batch: in the next transaction.
ConnAfterBatch == "open"

\* Mutant of RollsBack: there is no deferred Rollback.
NeverRollsBack == FALSE

\* The deferred Rollback still does something: it belongs to the transaction that
\* is open.
RollsBack == deferred

-----------------------------------------------------------------------------

Init ==
  /\ stored \in SUBSET Heights
  /\ synced \in SUBSET (stored \ Unstorable)
  /\ committed = None
  /\ pending = None
  /\ conn = "idle"
  /\ deferred = FALSE
  /\ pc = "begin"
  /\ height = 0
  /\ endHeight = -1

\* StoreBlock, called by the sync service: from the activation height on it
\* inserts the outputs with the block, and does not commit one without the other.
BlockStored ==
  /\ \E h \in Heights \ (stored \cup Unstorable) :
       /\ stored' = stored \cup {h}
       /\ synced' = synced \cup {h}
  /\ UNCHANGED <<committed, pending, conn, deferred, pc, height, endHeight>>

\* pg.Begin: if a transaction is open on the connection, it goes on.
Begin ==
  /\ pc = "begin"
  /\ conn \in {"idle", "open"}
  /\ conn' = "open"
  /\ deferred' = TRUE
  /\ pc' = "end"
  /\ UNCHANGED <<database, committed, pending, height, endHeight>>

\* If that one failed, or the connection is closed, Begin is an error, and pgx
\* closes the connection.  main retries for ever.
BeginFails ==
  /\ pc = "begin"
  /\ conn \in {"aborted", "closed"}
  /\ conn' = "closed"
  /\ pending' = None
  /\ UNCHANGED <<database, committed, deferred, pc, height, endHeight>>

\* endHeight, and the start of the loop.
ReadEnd ==
  /\ pc = "end"
  /\ \E h \in Heights \cup {-1} : EndsAt(h) /\ endHeight' = h
  /\ height' = FirstHeight
  /\ pc' = "block"
  /\ UNCHANGED <<database, committed, pending, conn, deferred>>

\* GetBlockHash and GetBlockMeta.
Fetch ==
  /\ pc = "block"
  /\ MoreBlocks
  /\ pc' = "insert"
  /\ UNCHANGED <<database, committed, pending, conn, deferred, height, endHeight>>

Inserted == [pending EXCEPT ![height] = Plus(@, 1)]

\* StoreSpacesTransaction for each transaction of the block; vmetaouts refers to
\* the block's rows in transactions, so those must be there.
Insert ==
  /\ pc = "insert"
  /\ height \in stored \ Unstorable
  /\ pending' = Inserted
  /\ IF height % Batch = 0
     THEN pc' = "commit" /\ UNCHANGED height
     ELSE pc' = "block" /\ height' = NextHeight
  /\ UNCHANGED <<database, committed, conn, deferred, endHeight>>

Apply == committed' = [h \in Heights |-> Plus(committed[h], pending[h])]

\* tx.Commit, and pg.Begin for the next batch, which defer knows nothing of.
CommitBatch ==
  /\ pc = "commit"
  /\ Apply
  /\ pending' = None
  /\ conn' = ConnAfterBatch
  /\ deferred' = FALSE
  /\ height' = NextHeight
  /\ pc' = "block"
  /\ UNCHANGED <<database, endHeight>>

\* The final commit; main returns.
Finish ==
  /\ pc = "block"
  /\ ~MoreBlocks
  /\ Apply
  /\ pending' = None
  /\ conn' = "idle"
  /\ pc' = "done"
  /\ UNCHANGED <<database, deferred, height, endHeight>>

\* syncSpacesTransactions returns an error and leaves the connection as c, with
\* what it inserted, but for the deferred Rollback of the attempt's first
\* transaction.
Return(c, inserted) ==
  /\ conn' = IF RollsBack /\ c # "closed" THEN "idle" ELSE c
  /\ pending' = IF RollsBack \/ c = "closed" THEN None ELSE inserted
  /\ pc' = "begin"
  /\ UNCHANGED <<database, committed, deferred, height, endHeight>>

\* A call to a node fails: the transaction stays open.
CallFails ==
  /\ pc = "block" /\ MoreBlocks
  /\ pc \in FaultPoints
  /\ Return("open", pending)

\* A covenant is unknown, with none or some of the block's outputs inserted: that
\* is no statement, so the transaction stays open too, and it is so every time.
Refused ==
  /\ pc = "insert"
  /\ height \in Unstorable
  /\ \/ Return("open", pending)
     \/ height \in stored /\ Return("open", Inserted)

\* A statement fails, and with it the transaction.
StatementFails ==
  /\ \/ pc = "insert" /\ height \notin stored
     \/ pc \in FaultPoints \cap {"end", "insert"}
  /\ Return("aborted", pending)

\* The connection is lost.
ConnectionLost ==
  /\ pc \in FaultPoints
  /\ conn # "closed"
  /\ Return("closed", pending)

\* It is lost after the server made the commit, the final one too.
CommitUnanswered ==
  /\ pc \in FaultPoints
  /\ pc = "commit" \/ (pc = "block" /\ ~MoreBlocks)
  /\ Apply
  /\ pending' = None
  /\ conn' = "closed"
  /\ pc' = "begin"
  /\ UNCHANGED <<database, deferred, height, endHeight>>

Attempt == Begin \/ BeginFails \/ ReadEnd \/ Fetch \/ Insert \/ CommitBatch \/ Finish
Failure ==
  CallFails \/ Refused \/ StatementFails \/ ConnectionLost \/ CommitUnanswered

Next == BlockStored \/ Attempt \/ Failure

Spec == Init /\ [][Next]_vars

(***************************************************************************)
(* main makes attempts until one succeeds, and no fault strikes one and    *)
(* the same step for ever.  A refusal is no fault: a block that cannot be  *)
(* stored is never inserted, and an attempt that comes to it returns.      *)
(***************************************************************************)
Fairness ==
  /\ WF_vars(Begin \/ BeginFails)
  /\ WF_vars(Refused)
  /\ SF_vars(ReadEnd)
  /\ SF_vars(Finish)
  /\ \A h \in Heights : SF_vars(height = h /\ Fetch)
  /\ \A h \in Heights \ Unstorable : SF_vars(height = h /\ Insert)
  /\ \A h \in {g \in Heights \ Unstorable : g % Batch = 0} :
       SF_vars(height = h /\ CommitBatch)

FairSpec == Spec /\ Fairness

-----------------------------------------------------------------------------
(***************************************************************************)
(* Properties.                                                             *)
(***************************************************************************)

TypeOK ==
  /\ stored \subseteq Heights
  /\ synced \subseteq stored
  /\ committed \in [Heights -> 0..Many]
  /\ pending \in [Heights -> 0..Many]
  /\ conn \in {"idle", "open", "aborted", "closed"}
  /\ deferred \in BOOLEAN
  /\ pc \in Points \cup {"done"}
  /\ pc \in {"end", "block", "insert", "commit"} => conn = "open"
  /\ height \in Nat
  /\ endHeight \in Heights \cup {-1}

\* Success means that the outputs of every block up to the end are there, though
\* attempts before were cut off in the middle of a transaction and this one went
\* on in it; and, if no end was set, of every block in the database: those stored
\* since the end was read have brought theirs along.
DoneComplete ==
  pc = "done" =>
    /\ \A h \in ActivationHeight..endHeight : committed[h] > 0 /\ h \notin Unstorable
    /\ SyncEndHeight = -1 => \A h \in stored : committed[h] > 0 \/ h \in synced

\* Whatever attempts came to nothing, what this service adds to the table it adds
\* from below: it never has more copies of a block's outputs there, or of a part
\* of them, than of those of the blocks under it.  (What StoreBlock inserted
\* itself is not counted: it may be above blocks that have nothing yet.)
AddsFromBelow ==
  \A g, h \in Heights : g < h => committed[g] >= committed[h]

\* An attempt that fails before its first commit leaves nothing, so its retry
\* starts like the first attempt.
EarlyFailureLeavesNothing ==
  pc = "begin" /\ deferred => pending = None /\ conn \in {"idle", "closed"}

\* "Committed progress at block %d": what was committed is not stored again.
PopulatedOnce == \A h \in Heights : committed[h] <= 1

\* Once the blocks are there that can be, the service comes to an end, unless it
\* has lost its only connection or comes to a block that cannot be stored again
\* and again: the transactions that failed attempts leave open do no other harm
\* to the ones that follow.
FinishesOrLoses ==
  <>(Heights \ Unstorable \subseteq stored) =>
    \/ <>(pc = "done" \/ conn = "closed")
    \/ \E h \in Unstorable : []<>(pc = "insert" /\ height = h)
=============================================================================
