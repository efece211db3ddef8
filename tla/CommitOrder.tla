---------------------------- MODULE CommitOrder ----------------------------
(***************************************************************************)
(* How the Change Log of Business Entities numbers its entries: the        *)
(* triggers that backend/entity/change_log.py installs.                    *)
(*                                                                         *)
(* A writing transaction appends entries, with sequence numbers, while it  *)
(* is open.  COMMIT fires the deferred trigger, which for each entity      *)
(* written locks the row of the entity's commit counter, numbers the       *)
(* transaction's entries above it and keeps the lock until the transaction *)
(* ends.  Sequence numbers are taken in any order and are lost by a        *)
(* rollback; commit numbers must come in the order in which entries become *)
(* visible, for readers rely on nothing turning up below what they saw.    *)
(***************************************************************************)
EXTENDS Integers, FiniteSets

CONSTANTS Entity,    \* entity ids, as numbers: their order is the locking order
          Tx, NoTx,  \* writing transactions
          MaxSeq     \* bound on the entries appended to one entity

ASSUME CommitOrderAssumption ==
  /\ Entity \subseteq Nat
  /\ IsFiniteSet(Tx) /\ NoTx \notin Tx
  /\ MaxSeq \in Nat

VARIABLES tx,       \* state of each transaction
          started,  \* rank of its transaction_timestamp, 0 before it starts
          log,      \* the entries, those of open transactions included
          seq,      \* last value of each entity's sequence
          counter,  \* committed last_seq of each entity's commit counter
          holder    \* the transaction that holds the counter's row lock

txVars == <<tx, started, log, seq, counter, holder>>

-----------------------------------------------------------------------------
Finished == {"committed", "aborted"}
InProgress == {"open", "committing"}

Of(t, e) == {x \in log : x.tx = t /\ x.entity = e}
Visible(e) == {x \in log : x.entity = e /\ tx[x.tx] = "committed"}
Numbers(xs) == {x.commit : x \in xs}

\* The names that end in _Wrong are deliberately wrong variants of a
\* definition; they confirm that a property can fail.

\* The entities on the pending table for t, and the one the trigger takes next.
Pending(t) == {e \in Entity : \E x \in Of(t, e) : x.commit = 0}
NextPending_Wrong(t) == CHOOSE e \in Pending(t) :
  \A d \in Pending(t) : \E x \in Of(t, e) : \A y \in Of(t, d) : x.seq <= y.seq
NextPending(t) == CHOOSE e \in Pending(t) : \A d \in Pending(t) : e <= d

OrderInit ==
  /\ tx = [t \in Tx |-> "idle"] /\ started = [t \in Tx |-> 0]
  /\ log = {} /\ seq = [e \in Entity |-> 0]
  /\ counter = [e \in Entity |-> 0] /\ holder = [e \in Entity |-> NoTx]

-----------------------------------------------------------------------------
Begin(t) ==
  /\ tx[t] = "idle"
  /\ tx' = [tx EXCEPT ![t] = "open"]
  /\ started' = [started EXCEPT ![t] = 1 + Cardinality({u \in Tx : started[u] > 0})]
  /\ UNCHANGED <<log, seq, counter, holder>>

\* The append trigger; one entry stands for the rows of one statement.
AppendEntry(t, e) ==
  /\ tx[t] = "open" /\ seq[e] < MaxSeq
  /\ seq' = [seq EXCEPT ![e] = @ + 1]
  /\ log' = log \cup {[entity |-> e, tx |-> t, seq |-> seq[e] + 1, commit |-> 0]}
  /\ UNCHANGED <<tx, started, counter, holder>>

\* row_number() over seq, above the counter.
Numbered_Wrong(x) == [x EXCEPT !.commit = counter[x.entity] + x.seq]
Numbered(x) ==
  [x EXCEPT !.commit = counter[x.entity]
                       + Cardinality({y \in Of(x.tx, x.entity) : y.seq <= x.seq})]

\* SELECT ... FOR UPDATE waits for the transaction that holds the row.
CanLock_Wrong(t, e) == TRUE
CanLock(t, e) == holder[e] = NoTx

\* One turn of the deferred trigger's loop; the first one is COMMIT.
AssignCommit(t) ==
  LET e == NextPending(t) IN
  /\ tx[t] \in InProgress /\ Pending(t) # {}
  /\ CanLock(t, e)
  /\ tx' = [tx EXCEPT ![t] = "committing"]
  /\ holder' = [holder EXCEPT ![e] = t]
  /\ log' = (log \ Of(t, e)) \cup {Numbered(x) : x \in Of(t, e)}
  /\ UNCHANGED <<started, seq, counter>>

Unlocked(t) == [e \in Entity |-> IF holder[e] = t THEN NoTx ELSE holder[e]]

\* The counter's new value, and with it every entry, becomes visible.
Commit(t) ==
  /\ tx[t] \in InProgress /\ Pending(t) = {}
  /\ tx' = [tx EXCEPT ![t] = "committed"]
  /\ counter' = [e \in Entity |-> IF holder[e] = t
                                  THEN counter[e] + Cardinality(Of(t, e)) ELSE counter[e]]
  /\ holder' = Unlocked(t)
  /\ UNCHANGED <<started, log, seq>>

\* A rollback returns the numbers; nothing returns to the sequence.
Abort(t) ==
  /\ tx[t] \in InProgress
  /\ tx' = [tx EXCEPT ![t] = "aborted"]
  /\ log' = {x \in log : x.tx # t}
  /\ holder' = Unlocked(t)
  /\ UNCHANGED <<started, seq, counter>>

OrderNext == \E t \in Tx : \/ Begin(t) \/ AssignCommit(t) \/ Commit(t) \/ Abort(t)
                           \/ \E e \in Entity : AppendEntry(t, e)

OrderSpec == OrderInit /\ [][OrderNext]_txVars

-----------------------------------------------------------------------------
(* Properties *)

Entry == [entity : Entity, tx : Tx, seq : Nat \ {0}, commit : Nat]

\* Types, and no number that can be read is above the counter.
OrderTypeOK ==
  /\ tx \in [Tx -> {"idle"} \cup InProgress \cup Finished]
  /\ started \in [Tx -> Nat]
  /\ log \subseteq Entry /\ IsFiniteSet(log)
  /\ seq \in [Entity -> Nat] /\ counter \in [Entity -> Nat]
  /\ holder \in [Entity -> Tx \cup {NoTx}]
  /\ \A e \in Entity : \A x \in Visible(e) : x.commit \in 1..counter[e]

\* No two entries of an entity have the same commit number, committed or not:
\* commit_seq alone is a position.
NumbersAreDistinct ==
  \A x, y \in log : x.entity = y.entity /\ x.commit > 0 /\ x.commit = y.commit => x = y

\* Entries become visible in the order of their numbers: what a transaction
\* makes visible is above everything that was visible before.
VisibleInOrder ==
  [][\A e \in Entity : \A x \in Visible(e)' \ Visible(e) : \A y \in Visible(e) :
       y.commit < x.commit]_txVars

\* The transaction t waits for, in the middle of its COMMIT.
Blocker(t) == IF tx[t] = "committing" /\ Pending(t) # {} THEN holder[NextPending(t)] ELSE NoTx

\* Transactions that write the same entities in different orders never wait for
\* each other in a circle: every set of transactions has one that waits for none
\* of the set.
NoWaitCycle == \A T \in SUBSET Tx : T # {} => \E t \in T : Blocker(t) \notin T
=============================================================================
