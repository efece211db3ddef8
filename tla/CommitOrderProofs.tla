------------------------- MODULE CommitOrderProofs -------------------------
(* Commit numbers come in the order in which entries become visible. *)
EXTENDS ChangeFeed, FiniteSetTheorems, WellFoundedInduction, TLAPS

\* An entry belongs to a transaction that runs or has committed, is numbered
\* when that one has, and before only under the lock of the counter.
LogOK ==
  \A x \in log :
    /\ tx[x.tx] \in {"open", "committing", "committed"}
    /\ x.seq <= seq[x.entity]
    /\ x.commit = 0 => tx[x.tx] # "committed"
    /\ x.commit # 0 /\ tx[x.tx] # "committed" => holder[x.entity] = x.tx

SeqsAreDistinct ==
  \A x, y \in log : x.entity = y.entity /\ x.seq = y.seq => x = y

\* Who holds a counter is committing, has numbered its entries just above it,
\* and has only greater entities before it.
HolderOK ==
  \A e \in Entity : \A t \in Tx :
    holder[e] = t =>
      /\ tx[t] = "committing"
      /\ \A x \in Of(t, e) : x.commit \in (counter[e] + 1)..(counter[e] + Cardinality(Of(t, e)))
      /\ \A d \in Pending(t) : e < d

OrderInv ==
  OrderTypeOK /\ LogOK /\ SeqsAreDistinct /\ NumbersAreDistinct /\ HolderOK
-----------------------------------------------------------------------------
(* Sets *)

\* A set of natural numbers has a least one.
LEMMA SmallestNat ==
  ASSUME NEW T \in SUBSET Nat, T # {}
  PROVE  \E x \in T : \A y \in T : x <= y
<1> DEFINE I == {0..n : n \in T}
<1>1. IsWellFoundedOn(StrictSubsetOrdering(Nat), FiniteSubsetsOf(Nat))
  BY FS_StrictSubsetOrderingWellFounded
<1>2. I \subseteq FiniteSubsetsOf(Nat) /\ I # {}
  <2>1. \A n \in Nat : IsFiniteSet(0..n) /\ 0..n \subseteq Nat
    BY FS_Interval
  <2>2. QED
    BY <2>1 DEF FiniteSubsetsOf
<1>3. PICK i \in I : \A j \in I : ~(<<j, i>> \in StrictSubsetOrdering(Nat))
  BY <1>1, <1>2, WFMin
<1>4. PICK x \in T : i = 0..x
  BY <1>3
<1>5. ASSUME NEW y \in T PROVE x <= y
  <2>1. ~(<<0..y, 0..x>> \in StrictSubsetOrdering(Nat))
    BY <1>3, <1>4
  <2>2. QED
    BY <1>4, <2>1 DEF StrictSubsetOrdering
<1>6. QED
  BY <1>5

LEMMA CardIsNat ==
  ASSUME NEW S, IsFiniteSet(S)
  PROVE  Cardinality(S) \in Nat
BY FS_CardinalityType

\* The entity taken next is pending, and the least of them.
LEMMA NextIsLeast ==
  ASSUME CommitOrderAssumption, NEW t \in Tx, Pending(t) # {}
  PROVE  /\ NextPending(t) \in Pending(t) /\ NextPending(t) \in Entity
         /\ \A d \in Pending(t) : NextPending(t) <= d
<1>1. Pending(t) \in SUBSET Nat
  BY DEF Pending, CommitOrderAssumption
<1>2. \E e \in Pending(t) : \A d \in Pending(t) : e <= d
  BY <1>1, SmallestNat
<1>3. QED
  BY <1>2 DEF NextPending, Pending

LEMMA OfIsFinite ==
  ASSUME OrderTypeOK, NEW t, NEW e
  PROVE  /\ IsFiniteSet(Of(t, e)) /\ Of(t, e) \subseteq log /\ Of(t, e) \subseteq Entry
         /\ Cardinality(Of(t, e)) \in Nat
<1>1. Of(t, e) \subseteq log
  BY DEF Of
<1>2. QED
  BY <1>1, FS_Subset, CardIsNat DEF OrderTypeOK

-----------------------------------------------------------------------------
(* Numbering *)

Upto(x) == {y \in Of(x.tx, x.entity) : y.seq <= x.seq}

\* row_number() over distinct sequence numbers runs from 1 to the number of
\* entries, and differs between entries.
LEMMA NumberedFacts ==
  ASSUME OrderTypeOK, SeqsAreDistinct, NEW t \in Tx, NEW e \in Entity
  PROVE  /\ \A x \in Of(t, e) :
              /\ Numbered(x) \in Entry
              /\ Numbered(x).tx = t /\ Numbered(x).entity = e /\ Numbered(x).seq = x.seq
              /\ Numbered(x).commit \in (counter[e] + 1)..(counter[e] + Cardinality(Of(t, e)))
         /\ \A x, y \in Of(t, e) : Numbered(x).commit = Numbered(y).commit => x = y
<1>1. /\ IsFiniteSet(Of(t, e)) /\ Of(t, e) \subseteq log /\ Of(t, e) \subseteq Entry
      /\ Cardinality(Of(t, e)) \in Nat
  BY OfIsFinite
<1>2. counter[e] \in Nat
  BY DEF OrderTypeOK
<1>3. \A x \in Of(t, e) :
        /\ Upto(x) = {y \in Of(t, e) : y.seq <= x.seq} /\ IsFiniteSet(Upto(x))
        /\ Cardinality(Upto(x)) \in Nat /\ Cardinality(Upto(x)) <= Cardinality(Of(t, e))
  <2>1. \A x \in Of(t, e) : Upto(x) = {y \in Of(t, e) : y.seq <= x.seq}
    BY DEF Upto, Of
  <2>2. \A x \in Of(t, e) : Upto(x) \in SUBSET Of(t, e)
    BY <2>1
  <2>3. QED
    BY <1>1, <2>1, <2>2, FS_Subset, CardIsNat
<1>4. ASSUME NEW x \in Of(t, e)
      PROVE  /\ Cardinality(Upto(x)) # 0
             /\ Numbered(x) = [x EXCEPT !.commit = counter[e] + Cardinality(Upto(x))]
             /\ Numbered(x).commit = counter[e] + Cardinality(Upto(x))
             /\ Numbered(x) \in Entry
             /\ Numbered(x).tx = t /\ Numbered(x).entity = e /\ Numbered(x).seq = x.seq
  <2>1. x \in Entry /\ x.entity = e /\ x.tx = t
    BY <1>1 DEF Of
  <2>2. x \in Upto(x)
    BY <1>3, <2>1 DEF Entry
  <2>3. Cardinality(Upto(x)) # 0
    BY <1>3, <2>2, FS_EmptySet
  <2>4. Numbered(x) = [x EXCEPT !.commit = counter[e] + Cardinality(Upto(x))]
    BY <2>1 DEF Numbered, Upto
  <2>5. counter[e] + Cardinality(Upto(x)) \in Nat
    BY <1>2, <1>3
  <2>6. QED
    BY <2>1, <2>3, <2>4, <2>5 DEF Entry
<1>5. ASSUME NEW x \in Of(t, e), NEW y \in Of(t, e), x.seq < y.seq
      PROVE  Cardinality(Upto(x)) # Cardinality(Upto(y))
  <2>1. x.seq \in Nat /\ y.seq \in Nat /\ \A z \in Of(t, e) : z.seq \in Nat
    BY <1>1 DEF Entry
  <2>2. Upto(x) \in SUBSET Upto(y) /\ y \in Upto(y) /\ y \notin Upto(x)
    BY <1>3, <1>5, <2>1
  <2>3. QED
    BY <1>3, <2>2, FS_Subset
<1>6. ASSUME NEW x \in Of(t, e), NEW y \in Of(t, e), Numbered(x).commit = Numbered(y).commit
      PROVE  x = y
  <2>1. Cardinality(Upto(x)) = Cardinality(Upto(y))
    BY <1>2, <1>3, <1>4, <1>6
  <2>2. ~(x.seq < y.seq) /\ ~(y.seq < x.seq)
    BY <1>5, <2>1
  <2>3. x.seq \in Nat /\ y.seq \in Nat
    BY <1>1 DEF Entry
  <2>4. x.seq = y.seq
    BY <2>2, <2>3
  <2>5. QED
    BY <2>4 DEF SeqsAreDistinct, Of
<1>7. ASSUME NEW x \in Of(t, e)
      PROVE  Numbered(x).commit \in (counter[e] + 1)..(counter[e] + Cardinality(Of(t, e)))
  <2>1. /\ Cardinality(Upto(x)) \in Nat /\ Cardinality(Upto(x)) # 0
        /\ Cardinality(Upto(x)) <= Cardinality(Of(t, e))
        /\ Numbered(x).commit = counter[e] + Cardinality(Upto(x))
    BY <1>3, <1>4
  <2>2. QED
    BY <1>1, <1>2, <2>1
<1>8. QED
  BY <1>4, <1>6, <1>7

\* Numbering neither adds nor loses an entry.
LEMMA NumberedCount ==
  ASSUME OrderTypeOK, SeqsAreDistinct, NEW t \in Tx, NEW e \in Entity
  PROVE  LET N == {Numbered(x) : x \in Of(t, e)} IN
         IsFiniteSet(N) /\ Cardinality(N) = Cardinality(Of(t, e))
<1> DEFINE N == {Numbered(x) : x \in Of(t, e)}
           f == [x \in Of(t, e) |-> Numbered(x)]
<1>1. \A x, y \in Of(t, e) : Numbered(x) = Numbered(y) => x = y
  BY NumberedFacts
<1>2. f \in Bijection(Of(t, e), N)
  BY <1>1 DEF Bijection, Injection, Surjection, IsInjective
<1>3. QED
  BY <1>2, OfIsFinite, FS_Bijection DEF ExistsBijection

-----------------------------------------------------------------------------
(* Steps *)

\* What a step that is no Commit does to readers.
NothingAppears == \A e \in Entity : Visible(e)' = Visible(e)

\* What appears is above what was visible.
AppearsInOrder ==
  \A e \in Entity : \A x \in Visible(e)' \ Visible(e) : \A y \in Visible(e) : y.commit < x.commit

LEMMA OrderInitInv == OrderInit => OrderInv
<1>1. SUFFICES ASSUME OrderInit PROVE OrderInv
  OBVIOUS
<1>2. OrderTypeOK
  BY <1>1, FS_EmptySet DEF OrderInit, OrderTypeOK, Visible
<1>3. LogOK /\ SeqsAreDistinct /\ NumbersAreDistinct
  BY <1>1 DEF OrderInit, LogOK, SeqsAreDistinct, NumbersAreDistinct
<1>4. HolderOK
  BY <1>1, CommitOrderAssumption DEF OrderInit, HolderOK, CommitOrderAssumption
<1>5. QED
  BY <1>2, <1>3, <1>4 DEF OrderInv

\* A transaction that has not begun owns no entry.
LEMMA BeginStep ==
  ASSUME OrderInv, NEW t \in Tx, Begin(t)
  PROVE  OrderInv' /\ NothingAppears
<1>1. OrderTypeOK /\ LogOK /\ SeqsAreDistinct /\ NumbersAreDistinct /\ HolderOK
  BY DEF OrderInv
<1>2. /\ tx' = [tx EXCEPT ![t] = "open"] /\ tx[t] = "idle"
      /\ log' = log /\ seq' = seq /\ counter' = counter /\ holder' = holder
  BY DEF Begin
<1>3. \A x \in log : x.tx # t /\ x.tx \in Tx /\ tx'[x.tx] = tx[x.tx]
  BY <1>1, <1>2 DEF LogOK, OrderTypeOK, Entry
<1>4. started' \in [Tx -> Nat]
  <2>1. {u \in Tx : started[u] > 0} \in SUBSET Tx
    OBVIOUS
  <2>2. Cardinality({u \in Tx : started[u] > 0}) \in Nat
    BY <2>1, FS_Subset, CardIsNat, CommitOrderAssumption DEF CommitOrderAssumption
  <2>3. QED
    BY <1>1, <2>2 DEF Begin, OrderTypeOK
<1>5. \A e \in Entity : Visible(e)' = Visible(e)
  BY <1>2, <1>3 DEF Visible
<1>6. OrderTypeOK'
  BY <1>1, <1>2, <1>4, <1>5 DEF OrderTypeOK, InProgress
<1>7. LogOK' /\ SeqsAreDistinct' /\ NumbersAreDistinct'
  BY <1>1, <1>2, <1>3 DEF LogOK, SeqsAreDistinct, NumbersAreDistinct
<1>8. HolderOK'
  <2>1. \A u, e : Of(u, e)' = Of(u, e) /\ Pending(u)' = Pending(u)
    BY <1>2 DEF Of, Pending
  <2>2. \A e \in Entity : holder[e] # t
    BY <1>1, <1>2 DEF HolderOK
  <2>3. \A u \in Tx : u # t => tx'[u] = tx[u]
    BY <1>1, <1>2 DEF OrderTypeOK
  <2>4. QED
    BY <1>1, <1>2, <2>1, <2>2, <2>3 DEF HolderOK
<1>9. QED
  BY <1>5, <1>6, <1>7, <1>8 DEF OrderInv, NothingAppears

\* A new entry has a new sequence number and no commit number.
LEMMA AppendStep ==
  ASSUME OrderInv, NEW t \in Tx, NEW e \in Entity, AppendEntry(t, e)
  PROVE  OrderInv' /\ NothingAppears
<1> DEFINE new == [entity |-> e, tx |-> t, seq |-> seq[e] + 1, commit |-> 0]
<1>1. OrderTypeOK /\ LogOK /\ SeqsAreDistinct /\ NumbersAreDistinct /\ HolderOK
  BY DEF OrderInv
<1>2. /\ tx' = tx /\ tx[t] = "open" /\ started' = started
      /\ log' = log \cup {new} /\ seq' = [seq EXCEPT ![e] = @ + 1]
      /\ counter' = counter /\ holder' = holder
  BY DEF AppendEntry
<1>3. new \in Entry /\ seq[e] \in Nat /\ seq' \in [Entity -> Nat]
      /\ \A d \in Entity : seq[d] <= seq'[d]
  BY <1>1, <1>2 DEF OrderTypeOK, Entry
<1>4. \A x \in log : x \in Entry /\ x.seq <= seq[x.entity] /\ x.seq <= seq'[x.entity]
  BY <1>1, <1>3 DEF LogOK, OrderTypeOK, Entry
<1>5. \A d \in Entity : Visible(d)' = Visible(d)
  BY <1>2 DEF Visible
<1>6. OrderTypeOK'
  <2>1. IsFiniteSet(log')
    BY <1>1, <1>2, FS_AddElement DEF OrderTypeOK
  <2>2. QED
    BY <1>1, <1>2, <1>3, <1>5, <2>1 DEF OrderTypeOK
<1>7. LogOK'
  <2>1. ASSUME NEW x \in log PROVE x.seq <= seq'[x.entity] /\ tx'[x.tx] = tx[x.tx] /\ holder' = holder
    BY <1>2, <1>4
  <2>2. new.seq <= seq'[new.entity] /\ tx'[new.tx] = "open" /\ new.commit = 0
    BY <1>1, <1>2, <1>3 DEF OrderTypeOK
  <2>3. QED
    BY <1>1, <1>2, <2>1, <2>2 DEF LogOK
<1>8. SeqsAreDistinct'
  <2>1. ASSUME NEW x \in log, x.entity = e PROVE x.seq # new.seq
    BY <1>3, <1>4, <2>1 DEF Entry
  <2>2. QED
    BY <1>1, <1>2, <2>1 DEF SeqsAreDistinct
<1>9. NumbersAreDistinct'
  <2>1. ASSUME NEW x \in log', NEW y \in log', x.entity = y.entity, x.commit > 0, x.commit = y.commit
        PROVE  x = y
    BY <1>1, <1>2, <2>1 DEF NumbersAreDistinct
  <2>2. QED
    BY <2>1 DEF NumbersAreDistinct
<1>10. HolderOK'
  <2>1. \A d \in Entity : holder[d] # t
    BY <1>1, <1>2 DEF HolderOK
  <2>2. \A u \in Tx, d \in Entity : u # t => Of(u, d)' = Of(u, d)
    BY <1>2 DEF Of
  <2>3. \A u \in Tx : u # t => Pending(u)' = Pending(u)
    BY <2>2 DEF Pending
  <2>4. QED
    BY <1>1, <1>2, <2>1, <2>2, <2>3 DEF HolderOK
<1>11. QED
  BY <1>5, <1>6, <1>7, <1>8, <1>9, <1>10 DEF OrderInv, NothingAppears

\* The numbers given under the lock are above all that is visible, and no other
\* transaction has given any.
LEMMA AssignStep ==
  ASSUME OrderInv, NEW t \in Tx, AssignCommit(t)
  PROVE  OrderInv' /\ NothingAppears
<1>1. OrderTypeOK /\ LogOK /\ SeqsAreDistinct /\ NumbersAreDistinct /\ HolderOK
  BY DEF OrderInv
<1>2. PICK e \in Entity : e = NextPending(t) /\ e \in Pending(t) /\ \A d \in Pending(t) : e <= d
  BY NextIsLeast, CommitOrderAssumption DEF AssignCommit
<1> DEFINE N == {Numbered(x) : x \in Of(t, e)}
<1>3. /\ tx[t] \in InProgress /\ tx' = [tx EXCEPT ![t] = "committing"]
      /\ holder[e] = NoTx /\ holder' = [holder EXCEPT ![e] = t]
      /\ log' = (log \ Of(t, e)) \cup N
      /\ started' = started /\ seq' = seq /\ counter' = counter
  BY <1>2 DEF AssignCommit, CanLock, N
<1>4. /\ \A x \in Of(t, e) :
           /\ Numbered(x) \in Entry
           /\ Numbered(x).tx = t /\ Numbered(x).entity = e /\ Numbered(x).seq = x.seq
           /\ Numbered(x).commit \in (counter[e] + 1)..(counter[e] + Cardinality(Of(t, e)))
      /\ \A x, y \in Of(t, e) : Numbered(x).commit = Numbered(y).commit => x = y
  BY <1>1, <1>2, NumberedFacts
<1>5. IsFiniteSet(N) /\ Cardinality(N) = Cardinality(Of(t, e))
  BY <1>1, <1>2, NumberedCount
<1> HIDE DEF N
<1>6. /\ \A z \in N : /\ z \in Entry /\ z.tx = t /\ z.entity = e
                       /\ z.commit \in (counter[e] + 1)..(counter[e] + Cardinality(Of(t, e)))
                       /\ \E x \in Of(t, e) : z = Numbered(x) /\ z.seq = x.seq
      /\ \A y, z \in N : y.commit = z.commit => y = z
  BY <1>4 DEF N
<1>7. Of(t, e)' = N /\ \A u, d : u # t \/ d # e => Of(u, d)' = Of(u, d)
  <2>1. \A u, d : Of(u, d)' = {x \in log' : x.tx = u /\ x.entity = d}
    BY DEF Of
  <2>2. \A x \in log : x \in Of(t, e) <=> x.tx = t /\ x.entity = e
    BY DEF Of
  <2>3. \A u, d : Of(u, d) = {x \in log : x.tx = u /\ x.entity = d}
    BY DEF Of
  <2>4. Of(t, e)' = N
    BY <1>3, <1>6, <2>1, <2>2
  <2>5. ASSUME NEW u, NEW d, u # t \/ d # e PROVE Of(u, d)' = Of(u, d)
    BY <1>3, <1>6, <2>1, <2>2, <2>3, <2>5
  <2>6. QED
    BY <2>4, <2>5
<1>8. counter[e] \in Nat /\ Cardinality(Of(t, e)) \in Nat
  BY <1>1, <1>2, OfIsFinite DEF OrderTypeOK
<1>9. \A x \in log \ Of(t, e) : x.entity = e => x.commit <= counter[e]
  <2>1. ASSUME NEW x \in log \ Of(t, e), x.entity = e PROVE x.commit <= counter[e]
    <3>1. x \in Entry /\ holder[e] # x.tx
      BY <1>1, <1>3, CommitOrderAssumption DEF OrderTypeOK, Entry, CommitOrderAssumption
    <3>2. CASE x.commit = 0
      BY <1>8, <3>2
    <3>3. CASE x.commit # 0
      <4>1. tx[x.tx] = "committed"
        BY <1>1, <2>1, <3>1, <3>3 DEF LogOK
      <4>2. QED
        BY <1>1, <1>2, <2>1, <4>1 DEF Visible, OrderTypeOK
    <3>4. QED
      BY <3>2, <3>3
  <2>2. QED
    BY <2>1
<1>10. \A d \in Entity : Visible(d)' = Visible(d)
  <2>1. \A x \in Of(t, e) : tx[x.tx] # "committed"
    BY <1>3 DEF Of, InProgress
  <2>2. \A z \in N : tx'[z.tx] = "committing"
    BY <1>1, <1>3, <1>6 DEF OrderTypeOK
  <2>3. \A x \in log : tx'[x.tx] = "committed" <=> tx[x.tx] = "committed"
    BY <1>1, <1>3 DEF OrderTypeOK, Entry, InProgress
  <2>4. QED
    BY <1>3, <2>1, <2>2, <2>3 DEF Visible
<1>11. OrderTypeOK'
  <2>1. IsFiniteSet(log \ Of(t, e)) /\ IsFiniteSet(log')
    BY <1>1, <1>3, <1>5, FS_Difference, FS_Union DEF OrderTypeOK
  <2>2. log' \subseteq Entry
    BY <1>1, <1>3, <1>6 DEF OrderTypeOK
  <2>3. QED
    BY <1>1, <1>2, <1>3, <1>10, <2>1, <2>2 DEF OrderTypeOK, InProgress
<1>12. LogOK'
  <2>1. ASSUME NEW z \in N
        PROVE  /\ tx'[z.tx] = "committing" /\ z.seq <= seq'[z.entity] /\ z.commit # 0
               /\ holder'[z.entity] = z.tx
    <3>1. z.commit # 0
      BY <1>6, <1>8
    <3>2. z.seq <= seq'[z.entity]
      BY <1>1, <1>3, <1>6 DEF LogOK, Of
    <3>3. QED
      BY <1>1, <1>2, <1>3, <1>6, <3>1, <3>2 DEF OrderTypeOK
  <2>2. ASSUME NEW x \in log \ Of(t, e)
        PROVE  /\ tx'[x.tx] \in {"open", "committing", "committed"} /\ x.seq <= seq'[x.entity]
               /\ x.commit = 0 => tx'[x.tx] # "committed"
               /\ x.commit # 0 /\ tx'[x.tx] # "committed" => holder'[x.entity] = x.tx
    <3>1. x \in log /\ x \in Entry
      BY <1>1 DEF OrderTypeOK
    <3>2. tx'[x.tx] = tx[x.tx] \/ (tx'[x.tx] = "committing" /\ tx[x.tx] \in InProgress)
      BY <1>1, <1>3, <3>1 DEF OrderTypeOK, Entry
    <3>3. x.commit # 0 /\ tx'[x.tx] # "committed" => holder'[x.entity] = x.tx
      <4>1. x.commit # 0 /\ tx'[x.tx] # "committed" => holder[x.entity] = x.tx
        BY <1>1, <3>1, <3>2 DEF LogOK, InProgress
      <4>2. holder[x.entity] = x.tx => x.entity # e
        BY <1>3, <3>1, CommitOrderAssumption DEF Entry, CommitOrderAssumption
      <4>3. QED
        BY <1>1, <1>3, <3>1, <4>1, <4>2 DEF OrderTypeOK, Entry
    <3>4. QED
      BY <1>1, <1>3, <3>1, <3>2, <3>3 DEF LogOK
  <2>3. QED
    BY <1>3, <2>1, <2>2 DEF LogOK
<1>13. SeqsAreDistinct'
  <2>1. ASSUME NEW y \in log', NEW z \in log', y.entity = z.entity, y.seq = z.seq
        PROVE  y = z
    <3>1. CASE y \in N /\ z \in N
      <4>1. PICK x \in Of(t, e), w \in Of(t, e) :
              y = Numbered(x) /\ y.seq = x.seq /\ z = Numbered(w) /\ z.seq = w.seq
        BY <1>6, <3>1
      <4>2. x = w
        BY <1>1, <2>1, <4>1 DEF SeqsAreDistinct, Of
      <4>3. QED
        BY <4>1, <4>2
    <3>2. ASSUME NEW v \in N, NEW w \in log \ Of(t, e), v.entity = w.entity, v.seq = w.seq
          PROVE  FALSE
      <4>1. PICK x \in Of(t, e) : v.seq = x.seq
        BY <1>6
      <4>2. x = w
        BY <1>1, <1>6, <3>2, <4>1 DEF SeqsAreDistinct, Of
      <4>3. QED
        BY <4>2
    <3>3. CASE y \notin N /\ z \notin N
      BY <1>1, <1>3, <2>1, <3>3 DEF SeqsAreDistinct
    <3>4. QED
      BY <1>3, <2>1, <3>1, <3>2, <3>3
  <2>2. QED
    BY <2>1 DEF SeqsAreDistinct
<1>14. NumbersAreDistinct'
  <2>1. ASSUME NEW y \in log', NEW z \in log', y.entity = z.entity, y.commit > 0, y.commit = z.commit
        PROVE  y = z
    <3>1. ASSUME NEW v \in N, NEW w \in log \ Of(t, e), v.entity = w.entity, v.commit = w.commit
          PROVE  FALSE
      <4>1. w.commit \in Nat /\ w.commit <= counter[e]
        BY <1>1, <1>6, <1>9, <3>1 DEF OrderTypeOK, Entry
      <4>2. QED
        BY <1>6, <1>8, <3>1, <4>1
    <3>2. CASE y \in N /\ z \in N
      BY <1>6, <2>1, <3>2
    <3>3. CASE y \notin N /\ z \notin N
      BY <1>1, <1>3, <2>1, <3>3 DEF NumbersAreDistinct
    <3>4. QED
      BY <1>3, <2>1, <3>1, <3>2, <3>3
  <2>2. QED
    BY <2>1 DEF NumbersAreDistinct
<1>15. HolderOK'
  <2>1. Pending(t)' \subseteq Pending(t) \ {e}
    <3>1. \A z \in N : z.commit # 0
      BY <1>6, <1>8
    <3>2. \A d : d # e => Of(t, d)' = Of(t, d)
      BY <1>7
    <3>3. Pending(t)' = {d \in Entity : \E x \in Of(t, d)' : x.commit = 0}
      BY DEF Pending
    <3>4. Pending(t) = {d \in Entity : \E x \in Of(t, d) : x.commit = 0}
      BY DEF Pending
    <3>5. QED
      BY <1>7, <3>1, <3>2, <3>3, <3>4
  <2>2. \A u \in Tx : u # t => Pending(u)' = Pending(u)
    BY <1>7 DEF Pending
  <2>3. ASSUME NEW d \in Entity, NEW u \in Tx, holder'[d] = u
        PROVE  /\ tx'[u] = "committing"
               /\ \A x \in Of(u, d)' : x.commit \in (counter'[d] + 1)..(counter'[d] + Cardinality(Of(u, d)'))
               /\ \A c \in Pending(u)' : d < c
    <3>1. CASE d = e
      <4>1. u = t
        BY <1>1, <1>2, <1>3, <2>3, <3>1 DEF OrderTypeOK
      <4>2. tx'[t] = "committing"
        BY <1>1, <1>3 DEF OrderTypeOK
      <4>3. \A c \in Pending(t)' : e < c
        <5>1. e \in Nat /\ \A c \in Pending(t) : c \in Nat
          BY <1>2, CommitOrderAssumption DEF CommitOrderAssumption, Pending
        <5>2. ASSUME NEW c \in Pending(t)' PROVE e < c
          <6>1. c \in Pending(t) /\ c # e /\ c \in Nat /\ e <= c
            BY <1>2, <2>1, <5>1
          <6>2. QED
            BY <5>1, <6>1
        <5>3. QED
          BY <5>2
      <4>4. Of(u, d)' = N /\ counter'[d] = counter[e]
        BY <1>3, <1>7, <3>1, <4>1
      <4>5. \A x \in N : x.commit \in (counter[e] + 1)..(counter[e] + Cardinality(N))
        BY <1>5, <1>6
      <4>6. QED
        BY <3>1, <4>1, <4>2, <4>3, <4>4, <4>5
    <3>2. CASE d # e
      <4>1. holder[d] = u
        BY <1>1, <1>2, <1>3, <2>3, <3>2 DEF OrderTypeOK
      <4>2. Of(u, d)' = Of(u, d) /\ counter' = counter
        BY <1>3, <1>7, <3>2
      <4>3. tx'[u] = "committing"
        BY <1>1, <1>3, <4>1 DEF HolderOK, OrderTypeOK
      <4>4. Pending(u)' \subseteq Pending(u)
        BY <2>1, <2>2
      <4>5. QED
        BY <1>1, <4>1, <4>2, <4>3, <4>4 DEF HolderOK
    <3>3. QED
      BY <3>1, <3>2
  <2>4. QED
    BY <2>3 DEF HolderOK
<1>16. QED
  BY <1>10, <1>11, <1>12, <1>13, <1>14, <1>15 DEF OrderInv, NothingAppears

\* COMMIT shows the entries of one transaction, which are numbered from just
\* above the counter, and moves the counter to the last of them.
LEMMA CommitStep ==
  ASSUME OrderInv, NEW t \in Tx, Commit(t)
  PROVE  OrderInv' /\ AppearsInOrder
<1>1. OrderTypeOK /\ LogOK /\ SeqsAreDistinct /\ NumbersAreDistinct /\ HolderOK
  BY DEF OrderInv
<1>2. /\ tx[t] \in InProgress /\ Pending(t) = {} /\ tx' = [tx EXCEPT ![t] = "committed"]
      /\ counter' = [e \in Entity |-> IF holder[e] = t
                                      THEN counter[e] + Cardinality(Of(t, e)) ELSE counter[e]]
      /\ holder' = [e \in Entity |-> IF holder[e] = t THEN NoTx ELSE holder[e]]
      /\ started' = started /\ log' = log /\ seq' = seq
  BY DEF Commit, Unlocked
<1>3. \A u, d : Of(u, d)' = Of(u, d) /\ Pending(u)' = Pending(u)
  BY <1>2 DEF Of, Pending
<1>4. \A x \in log : x.tx = t => x.commit # 0 /\ holder[x.entity] = t
  <2>1. ASSUME NEW x \in log, x.tx = t PROVE x.commit # 0 /\ holder[x.entity] = t
    <3>1. x \in Of(t, x.entity) /\ x.entity \in Entity
      BY <1>1, <2>1 DEF Of, OrderTypeOK, Entry
    <3>2. x.commit # 0
      BY <1>2, <3>1 DEF Pending
    <3>3. QED
      BY <1>1, <1>2, <2>1, <3>2 DEF LogOK, InProgress
  <2>2. QED
    BY <2>1
<1>5. \A e \in Entity : /\ counter[e] \in Nat /\ counter'[e] \in Nat /\ counter[e] <= counter'[e]
                          /\ Cardinality(Of(t, e)) \in Nat
  BY <1>1, <1>2, OfIsFinite DEF OrderTypeOK
<1>6. \A e \in Entity : Visible(e)' = Visible(e) \cup Of(t, e)
  <2>1. \A x \in log : tx'[x.tx] = "committed" <=> tx[x.tx] = "committed" \/ x.tx = t
    BY <1>1, <1>2 DEF OrderTypeOK, Entry
  <2>2. QED
    BY <1>2, <2>1 DEF Visible, Of
<1>7. ASSUME NEW e \in Entity, NEW x \in Of(t, e)
      PROVE  x.commit \in (counter[e] + 1)..counter'[e]
  <2>1. holder[e] = t
    BY <1>4 DEF Of
  <2>2. QED
    BY <1>1, <1>2, <2>1 DEF HolderOK
<1>8. \A e \in Entity : \A x \in Visible(e) : x.commit \in 1..counter[e]
  BY <1>1 DEF OrderTypeOK
<1>9. AppearsInOrder
  <2>1. ASSUME NEW e \in Entity, NEW x \in Of(t, e), NEW y \in Visible(e) PROVE y.commit < x.commit
    BY <1>5, <1>7, <1>8
  <2>2. QED
    BY <1>6, <2>1 DEF AppearsInOrder
<1>10. OrderTypeOK'
  <2>1. ASSUME NEW e \in Entity, NEW x \in Visible(e)' PROVE x.commit \in 1..counter'[e]
    <3>1. CASE x \in Visible(e)
      BY <1>5, <1>8, <3>1
    <3>2. CASE x \in Of(t, e)
      BY <1>5, <1>7, <3>2
    <3>3. QED
      BY <1>6, <3>1, <3>2
  <2>2. counter' \in [Entity -> Nat] /\ holder' \in [Entity -> Tx \cup {NoTx}]
    BY <1>1, <1>2, <1>5 DEF OrderTypeOK
  <2>3. tx' \in [Tx -> {"idle"} \cup InProgress \cup Finished]
    BY <1>1, <1>2 DEF OrderTypeOK, Finished
  <2>4. QED
    BY <1>1, <1>2, <2>1, <2>2, <2>3 DEF OrderTypeOK
<1>11. LogOK'
  <2>1. ASSUME NEW x \in log
        PROVE  /\ tx'[x.tx] \in {"open", "committing", "committed"} /\ x.seq <= seq'[x.entity]
               /\ x.commit = 0 => tx'[x.tx] # "committed"
               /\ x.commit # 0 /\ tx'[x.tx] # "committed" => holder'[x.entity] = x.tx
    <3>1. x.tx \in Tx /\ x.entity \in Entity /\ x.seq <= seq'[x.entity]
      BY <1>1, <1>2 DEF OrderTypeOK, LogOK, Entry
    <3>2. CASE x.tx = t
      BY <1>1, <1>2, <1>4, <3>1, <3>2 DEF OrderTypeOK
    <3>3. CASE x.tx # t
      BY <1>1, <1>2, <3>1, <3>3 DEF OrderTypeOK, LogOK
    <3>4. QED
      BY <3>2, <3>3
  <2>2. QED
    BY <1>2, <2>1 DEF LogOK
<1>12. SeqsAreDistinct' /\ NumbersAreDistinct'
  BY <1>1, <1>2 DEF SeqsAreDistinct, NumbersAreDistinct
<1>13. HolderOK'
  <2>1. ASSUME NEW d \in Entity, NEW u \in Tx, holder'[d] = u
        PROVE  holder[d] = u /\ u # t /\ counter'[d] = counter[d] /\ tx'[u] = tx[u]
    BY <1>1, <1>2, <2>1, CommitOrderAssumption DEF OrderTypeOK, CommitOrderAssumption
  <2>2. QED
    BY <1>1, <1>3, <2>1 DEF HolderOK
<1>14. QED
  BY <1>9, <1>10, <1>11, <1>12, <1>13 DEF OrderInv

\* A rollback takes its entries and its locks with it.
LEMMA AbortStep ==
  ASSUME OrderInv, NEW t \in Tx, Abort(t)
  PROVE  OrderInv' /\ NothingAppears
<1>1. OrderTypeOK /\ LogOK /\ SeqsAreDistinct /\ NumbersAreDistinct /\ HolderOK
  BY DEF OrderInv
<1>2. /\ tx[t] \in InProgress /\ tx' = [tx EXCEPT ![t] = "aborted"]
      /\ log' = {x \in log : x.tx # t}
      /\ holder' = [e \in Entity |-> IF holder[e] = t THEN NoTx ELSE holder[e]]
      /\ started' = started /\ seq' = seq /\ counter' = counter
  BY DEF Abort, Unlocked
<1>3. log' \in SUBSET log /\ \A x \in log' : tx'[x.tx] = tx[x.tx] /\ x.tx # t
  BY <1>1, <1>2 DEF OrderTypeOK, Entry
<1>4. \A u, d : u # t => Of(u, d)' = Of(u, d)
  BY <1>2 DEF Of
<1>5. \A u : u # t => Pending(u)' = Pending(u)
  BY <1>4 DEF Pending
<1>6. NothingAppears
  <2>1. \A x \in log : tx[x.tx] = "committed" => x \in log'
    BY <1>2 DEF InProgress
  <2>2. QED
    BY <1>3, <2>1 DEF Visible, NothingAppears
<1>7. OrderTypeOK'
  <2>1. IsFiniteSet(log') /\ log' \subseteq Entry
    BY <1>1, <1>3, FS_Subset DEF OrderTypeOK
  <2>2. tx' \in [Tx -> {"idle"} \cup InProgress \cup Finished]
    BY <1>1, <1>2 DEF OrderTypeOK, Finished
  <2>3. holder' \in [Entity -> Tx \cup {NoTx}]
    BY <1>1, <1>2 DEF OrderTypeOK
  <2>4. QED
    BY <1>1, <1>2, <1>6, <2>1, <2>2, <2>3 DEF OrderTypeOK, NothingAppears
<1>8. LogOK'
  <2>1. ASSUME NEW x \in log'
        PROVE  x.commit # 0 /\ tx'[x.tx] # "committed" => holder'[x.entity] = x.tx
    BY <1>1, <1>2, <1>3 DEF LogOK, OrderTypeOK, Entry
  <2>2. QED
    BY <1>1, <1>2, <1>3, <2>1 DEF LogOK
<1>9. SeqsAreDistinct' /\ NumbersAreDistinct'
  BY <1>1, <1>3 DEF SeqsAreDistinct, NumbersAreDistinct
<1>10. HolderOK'
  <2>1. ASSUME NEW d \in Entity, NEW u \in Tx, holder'[d] = u
        PROVE  holder[d] = u /\ u # t /\ tx'[u] = tx[u]
    BY <1>1, <1>2, <2>1, CommitOrderAssumption DEF OrderTypeOK, CommitOrderAssumption
  <2>2. QED
    BY <1>1, <1>2, <1>4, <1>5, <2>1 DEF HolderOK
<1>11. QED
  BY <1>6, <1>7, <1>8, <1>9, <1>10 DEF OrderInv

LEMMA OrderStep ==
  ASSUME CommitOrderAssumption, OrderInv, [OrderNext]_txVars
  PROVE  OrderInv' /\ AppearsInOrder
<1>1. NothingAppears => AppearsInOrder
  BY DEF NothingAppears, AppearsInOrder
<1>2. CASE UNCHANGED txVars
  <2>1. /\ tx' = tx /\ started' = started /\ log' = log /\ seq' = seq /\ counter' = counter
        /\ holder' = holder
    BY <1>2 DEF txVars
  <2>2. /\ \A u, d : Of(u, d)' = Of(u, d) /\ Pending(u)' = Pending(u)
        /\ \A d : Visible(d)' = Visible(d)
    BY <2>1 DEF Of, Pending, Visible
  <2>3. OrderTypeOK' /\ LogOK'
    BY <2>1, <2>2 DEF OrderInv, OrderTypeOK, LogOK
  <2>4. SeqsAreDistinct' /\ NumbersAreDistinct'
    BY <2>1 DEF OrderInv, SeqsAreDistinct, NumbersAreDistinct
  <2>5. HolderOK'
    BY <2>1, <2>2 DEF OrderInv, HolderOK
  <2>6. QED
    BY <1>1, <2>2, <2>3, <2>4, <2>5 DEF OrderInv, NothingAppears
<1>3. ASSUME NEW t \in Tx, Begin(t) PROVE OrderInv' /\ AppearsInOrder
  BY <1>1, <1>3, BeginStep
<1>4. ASSUME NEW t \in Tx, NEW e \in Entity, AppendEntry(t, e) PROVE OrderInv' /\ AppearsInOrder
  BY <1>1, <1>4, AppendStep
<1>5. ASSUME NEW t \in Tx, AssignCommit(t) PROVE OrderInv' /\ AppearsInOrder
  BY <1>1, <1>5, AssignStep
<1>6. ASSUME NEW t \in Tx, Commit(t) PROVE OrderInv' /\ AppearsInOrder
  BY <1>6, CommitStep
<1>7. ASSUME NEW t \in Tx, Abort(t) PROVE OrderInv' /\ AppearsInOrder
  BY <1>1, <1>7, AbortStep
<1>8. QED
  BY <1>2, <1>3, <1>4, <1>5, <1>6, <1>7 DEF OrderNext

-----------------------------------------------------------------------------
(* Theorems *)

LEMMA OrderInvHolds == OrderSpec => []OrderInv
<1>1. OrderInit => OrderInv
  BY OrderInitInv
<1>2. OrderInv /\ [OrderNext]_txVars => OrderInv'
  BY OrderStep, CommitOrderAssumption
<1>3. QED
  BY <1>1, <1>2, PTL DEF OrderSpec

\* In every reachable state the tables are well formed, no commit number that a
\* reader can see is above the counter, and no two entries of an entity have the
\* same commit number (the numbering of the deferred trigger).
THEOREM CommitNumbers == OrderSpec => [](OrderTypeOK /\ NumbersAreDistinct)
<1>1. OrderInv => OrderTypeOK /\ NumbersAreDistinct
  BY DEF OrderInv
<1>2. QED
  BY <1>1, OrderInvHolds, PTL

\* Whatever a COMMIT makes visible has greater numbers than all that readers of
\* the entity could see before: a reader's position is never overtaken.
THEOREM CommitsAppearInOrder == OrderSpec => VisibleInOrder
<1>1. OrderInv /\ [OrderNext]_txVars => [AppearsInOrder]_txVars
  BY OrderStep, CommitOrderAssumption
<1>2. OrderSpec => [][AppearsInOrder]_txVars
  BY <1>1, OrderInvHolds, PTL DEF OrderSpec
<1>3. QED
  BY <1>2 DEF VisibleInOrder, AppearsInOrder

\* Every set of transactions has one whose COMMIT waits for none of the set: the
\* trigger takes counters in the order of entities, so a transaction waits only
\* for one that has greater entities before it, and the set is finite.
THEOREM CommitsNeverDeadlock == OrderSpec => []NoWaitCycle
<1>1. ASSUME OrderInv, NEW T \in SUBSET Tx, T # {}, \A t \in T : Blocker(t) \in T
      PROVE  FALSE
  <2> DEFINE ahead(t) == {u \in T : NextPending(t) < NextPending(u)}
  <2>1. \A t \in T : /\ Pending(t) # {} /\ Blocker(t) = holder[NextPending(t)]
                      /\ Blocker(t) \in Tx
    BY <1>1, CommitOrderAssumption DEF Blocker, CommitOrderAssumption
  <2>2. \A t \in T : NextPending(t) \in Pending(t) /\ NextPending(t) \in Entity /\ NextPending(t) \in Nat
    BY <2>1, NextIsLeast, CommitOrderAssumption DEF CommitOrderAssumption
  <2>3. \A t \in T : NextPending(t) < NextPending(Blocker(t))
    BY <1>1, <2>1, <2>2 DEF OrderInv, HolderOK
  <2>4. \A t \in T : IsFiniteSet(ahead(t)) /\ Cardinality(ahead(t)) \in Nat
    <3>1. \A t \in T : ahead(t) \in SUBSET Tx
      OBVIOUS
    <3>2. QED
      BY <3>1, FS_Subset, CardIsNat, CommitOrderAssumption DEF CommitOrderAssumption
  <2>5. PICK t \in T : \A u \in T : Cardinality(ahead(t)) <= Cardinality(ahead(u))
    <3> DEFINE counts == {Cardinality(ahead(v)) : v \in T}
    <3>1. counts \in SUBSET Nat /\ counts # {}
      BY <1>1, <2>4
    <3>2. PICK n \in counts : \A m \in counts : n <= m
      BY <3>1, SmallestNat
    <3>3. QED
      BY <3>2
  <2> DEFINE u == Blocker(t)
  <2>6. u \in T /\ u \in ahead(t) /\ u \notin ahead(u) /\ ahead(u) \in SUBSET ahead(t)
    <3>1. u \in T /\ NextPending(t) < NextPending(u) /\ NextPending(u) \in Nat
      BY <1>1, <2>2, <2>3
    <3>2. \A v \in T : NextPending(v) \in Nat
      BY <2>2
    <3>3. QED
      BY <3>1, <3>2
  <2>7. Cardinality(ahead(u)) < Cardinality(ahead(t))
    <3> HIDE DEF ahead, u
    <3>1. Cardinality(ahead(u)) <= Cardinality(ahead(t)) /\ Cardinality(ahead(u)) # Cardinality(ahead(t))
      BY <2>4, <2>6, FS_Subset
    <3>2. QED
      BY <2>4, <2>6, <3>1
  <2> HIDE DEF ahead, u
  <2>8. QED
    BY <2>4, <2>5, <2>6, <2>7
<1>2. OrderInv => NoWaitCycle
  BY <1>1 DEF NoWaitCycle
<1>3. QED
  BY <1>2, OrderInvHolds, PTL
-----------------------------------------------------------------------------
(* The change feed *)

Top == counter[Stream]
Phases == {"idle", "check", "position", "bound", "read", "before", "paging", "after", "between",
           "stamped"}
RunRow == [phase : Phases, ignores : BOOLEAN, durable : Nat, start : Nat, after : Nat,
           bound : Int, before : Nat, proposal : Nat,
           page : SUBSET Nat, gone : SUBSET Nat, got : SUBSET Nat, unseen : SUBSET Nat]

\* Every number up to the counter is visible or was purged, and then not above the mark.
FeedOK ==
  /\ Numbers(Visible(Stream)) \cup purged = 1..Top
  /\ mark \in Nat /\ \A n \in purged : n <= mark
  /\ cursor \in 0..Top /\ recording \in BOOLEAN /\ kind \in {"read", "dataset"}

\* A run x need not read n again: it is below the cursor, or the run answers for it.
Settled(x, n) == n <= cursor \/ n \in x.got \cup x.unseen

\* What a run has settled: up to its proposal, then up to where its node reads from, with
\* all that the mark check had seen purged; then, of what is not purged, what it loads.
RunOK(x) ==
  /\ x.proposal <= Top /\ \A n \in 1..x.proposal : Settled(x, n)
  /\ x.phase = "check" => ~x.ignores /\ x.durable <= cursor
  /\ x.phase = "position" => IF x.ignores THEN x.gone = {} ELSE \A n \in x.gone : n <= cursor
  /\ x.phase \in {"check", "position", "bound", "read", "before"} => x.page = {}
  /\ x.phase \in {"bound", "read", "before", "paging", "after"} =>
       /\ \A n \in 1..x.start : Settled(x, n)
       /\ \A n \in x.gone : n <= x.start
  /\ x.phase \in {"bound", "read", "before"} => x.after = x.start
  /\ x.phase \in {"paging", "after"} =>
       /\ x.page \subseteq 1..Top /\ \A n \in x.page : n <= x.after
       /\ \A n \in (x.start + 1)..x.after : n \in x.page \cup purged
  /\ x.phase \in {"between", "idle"} => x.gone = {} /\ x.page = {}

FeedInv == OrderInv /\ FeedOK /\ run \in [Run -> RunRow] /\ \A r \in Run : RunOK(run[r])
-----------------------------------------------------------------------------
(* The log under the feed *)

\* A transaction that holds a counter has numbered its entries without a gap.
LEMMA HolderNumbers ==
  ASSUME OrderInv, NEW t \in Tx, NEW e \in Entity, holder[e] = t
  PROVE  Numbers(Of(t, e)) = (counter[e] + 1)..(counter[e] + Cardinality(Of(t, e)))
<1> DEFINE I == (counter[e] + 1)..(counter[e] + Cardinality(Of(t, e)))
           f == [x \in Of(t, e) |-> x.commit]
<1>1. OrderTypeOK /\ NumbersAreDistinct /\ HolderOK
  BY DEF OrderInv
<1>2. /\ IsFiniteSet(Of(t, e)) /\ Cardinality(Of(t, e)) \in Nat /\ counter[e] \in Nat
      /\ Of(t, e) \subseteq log
  BY <1>1, OfIsFinite DEF OrderTypeOK
<1>3. \A x \in Of(t, e) : x.commit \in I /\ x.entity = e
  BY <1>1 DEF HolderOK, Of
<1>4. \A x, y \in Of(t, e) : x.commit = y.commit => x = y
  BY <1>1, <1>2, <1>3 DEF NumbersAreDistinct
<1>5. f \in Bijection(Of(t, e), Numbers(Of(t, e)))
  BY <1>4 DEF Numbers, Bijection, Injection, Surjection, IsInjective
<1>6. Cardinality(Numbers(Of(t, e))) = Cardinality(Of(t, e))
  BY <1>2, <1>5, FS_Bijection DEF ExistsBijection
<1>7. IsFiniteSet(I) /\ Cardinality(I) = Cardinality(Of(t, e))
  <2>1. PICK a \in Int, b \in Int : a = counter[e] + 1 /\ b = counter[e] + Cardinality(Of(t, e))
    BY <1>2
  <2>2. IsFiniteSet(a..b) /\ Cardinality(a..b) = IF a > b THEN 0 ELSE b - a + 1
    BY FS_Interval
  <2>3. QED
    BY <1>2, <2>1, <2>2
<1>8. Numbers(Of(t, e)) \in SUBSET I
  BY <1>3 DEF Numbers
<1>9. QED
  BY <1>6, <1>7, <1>8, FS_Subset

LEMMA GreatestFacts ==
  ASSUME NEW k \in Nat, NEW ns \in SUBSET (1..k)
  PROVE  /\ Greatest(ns) \in 0..k
         /\ ns = {} => Greatest(ns) = 0
         /\ ns # {} => Greatest(ns) \in ns
         /\ \A n \in ns : n <= Greatest(ns)
<1>1. CASE ns = {}
  BY <1>1 DEF Greatest
<1>2. CASE ns # {}
  <2> DEFINE T == {k - n : n \in ns}
  <2>1. T \in SUBSET Nat /\ T # {}
    <3>1. \A n \in ns : k - n \in Nat
      OBVIOUS
    <3>2. QED
      BY <1>2, <3>1
  <2>2. PICK d \in T : \A c \in T : d <= c
    BY <2>1, SmallestNat
  <2>3. PICK g \in ns : d = k - g
    BY <2>2
  <2>4. ASSUME NEW n \in ns PROVE n <= g
    <3>1. k - g <= k - n /\ n \in Nat /\ g \in Nat
      BY <2>2, <2>3
    <3>2. QED
      BY <3>1
  <2>5. Greatest(ns) \in ns /\ \A n \in ns : n <= Greatest(ns)
    BY <1>2, <2>3, <2>4 DEF Greatest
  <2>6. Greatest(ns) \in 0..k
    <3>1. PICK m \in 1..k : m = Greatest(ns)
      BY <2>5
    <3>2. QED
      BY <3>1
  <2>7. QED
    BY <1>2, <2>5, <2>6
<1>3. QED
  BY <1>1, <1>2

\* A page goes up to its greatest number without leaving out what is in range.
LEMMA PageFacts ==
  ASSUME FeedInv, NEW r \in Run
  PROVE  /\ Page(r) \in SUBSET (1..Top) /\ Top \in Nat
         /\ \A n \in Page(r) : run[r].after < n /\ n <= run[r].bound
         /\ \A n \in 1..Top : run[r].after < n /\ n <= Greatest(Page(r)) =>
              n \in Page(r) \cup purged
<1>1. Top \in Nat /\ Numbers(Visible(Stream)) \cup purged = 1..Top /\ Limit \in Nat
  BY ChangeFeedAssumption DEF FeedInv, FeedOK, OrderInv, OrderTypeOK, Top, ChangeFeedAssumption
<1>2. InRange(r) \in SUBSET (1..Top) /\ Page(r) \in SUBSET (1..Top)
  BY <1>1 DEF InRange, Page
<1>3. IsFiniteSet(InRange(r))
  <2>1. IsFiniteSet(1..Top)
    BY <1>1, FS_Interval
  <2>2. QED
    BY <1>2, <2>1, FS_Subset
<1>4. \A n \in Page(r) : run[r].after < n /\ n <= run[r].bound
  BY DEF Page, InRange
<1>5. ASSUME NEW n \in 1..Top, run[r].after < n, n <= Greatest(Page(r)), n \notin purged
      PROVE  n \in Page(r)
  <2>1. PICK g \in Page(r) : g = Greatest(Page(r)) /\ n <= g
    BY <1>1, <1>2, <1>5, GreatestFacts
  <2>2. g \in InRange(r) /\ g \in Nat /\ n <= run[r].bound
        /\ Cardinality({m \in InRange(r) : m < g}) < Limit
    <3>1. run[r].bound \in Int
      BY DEF FeedInv, RunRow
    <3>2. QED
      BY <1>2, <1>4, <2>1, <3>1 DEF Page
  <2>3. n \in InRange(r)
    BY <1>1, <1>5, <2>2 DEF InRange
  <2>4. {m \in InRange(r) : m < n} \in SUBSET {m \in InRange(r) : m < g}
    BY <1>2, <2>1, <2>2
  <2>5. {m \in InRange(r) : m < g} \in SUBSET InRange(r)
    OBVIOUS
  <2>6. IsFiniteSet({m \in InRange(r) : m < g})
    BY <1>3, <2>5, FS_Subset
  <2>7. Cardinality({m \in InRange(r) : m < n}) <= Cardinality({m \in InRange(r) : m < g})
    BY <2>4, <2>6, FS_Subset
  <2>8. /\ Cardinality({m \in InRange(r) : m < n}) \in Nat
        /\ Cardinality({m \in InRange(r) : m < g}) \in Nat
    BY <2>4, <2>6, FS_Subset, CardIsNat
  <2>9. QED
    BY <1>1, <2>2, <2>3, <2>7, <2>8 DEF Page
<1>6. QED
  BY <1>1, <1>2, <1>4, <1>5

\* What a run has settled stays settled while the feed and the cursor move on.
LEMMA RunStaysOK ==
  ASSUME NEW x \in RunRow, RunOK(x), cursor \in Nat, cursor' \in Nat, cursor <= cursor',
         Top \in Nat, Top' \in Nat, Top <= Top', purged \subseteq purged'
  PROVE  RunOK(x)'
<1>1. \A n \in Nat : Settled(x, n) => Settled(x, n)'
  BY DEF Settled
<1>2. /\ x.proposal \in Nat /\ x.start \in Nat /\ x.durable \in Nat /\ x.after \in Nat
      /\ x.gone \in SUBSET Nat /\ x.page \in SUBSET Nat
  BY DEF RunRow
<1>3. x.proposal <= Top' /\ \A n \in 1..x.proposal : Settled(x, n)'
  BY <1>1, <1>2 DEF RunOK
<1>4. x.phase = "check" => ~x.ignores /\ x.durable <= cursor'
  BY <1>2 DEF RunOK
<1>5. x.phase = "position" => IF x.ignores THEN x.gone = {} ELSE \A n \in x.gone : n <= cursor'
  BY <1>2 DEF RunOK
<1>6. x.phase \in {"bound", "read", "before", "paging", "after"} =>
        (\A n \in 1..x.start : Settled(x, n)') /\ \A n \in x.gone : n <= x.start
  BY <1>1, <1>2 DEF RunOK
<1>7. x.phase \in {"paging", "after"} =>
        /\ x.page \subseteq 1..Top' /\ \A n \in x.page : n <= x.after
        /\ \A n \in (x.start + 1)..x.after : n \in x.page \cup purged'
  BY <1>2 DEF RunOK
<1>8. QED
  BY <1>3, <1>4, <1>5, <1>6, <1>7 DEF RunOK

\* A step of writers or purges.
LEMMA FeedMoves ==
  ASSUME FeedInv, UNCHANGED runVars, OrderInv', FeedOK', Top <= Top', purged \subseteq purged'
  PROVE  FeedInv'
<1>1. run' = run /\ cursor' = cursor /\ run \in [Run -> RunRow]
  BY DEF runVars, FeedInv
<1>2. Top \in Nat /\ Top' \in Nat /\ cursor \in Nat
  BY ChangeFeedAssumption DEF FeedInv, FeedOK, OrderInv, OrderTypeOK, Top, ChangeFeedAssumption
<1>3. ASSUME NEW q \in Run PROVE RunOK(run[q])'
  <2>1. PICK x \in RunRow : x = run[q] /\ RunOK(x)
    BY <1>1 DEF FeedInv
  <2>2. RunOK(x)'
    BY <1>1, <1>2, <2>1, RunStaysOK
  <2>3. QED
    BY <1>1, <2>1, <2>2
<1>4. QED
  BY <1>1, <1>3 DEF FeedInv

\* A step of one run.
LEMMA RunMoves ==
  ASSUME FeedInv, NEW r \in Run, NEW y \in RunRow, run' = [run EXCEPT ![r] = y],
         UNCHANGED <<txVars, feedVars, kind>>, cursor' \in cursor..Top, RunOK(y)'
  PROVE  FeedInv'
<1>1. /\ Top' = Top /\ Top \in Nat /\ cursor \in Nat /\ purged' = purged
      /\ run \in [Run -> RunRow]
  BY ChangeFeedAssumption
     DEF FeedInv, FeedOK, OrderInv, OrderTypeOK, Top, ChangeFeedAssumption, txVars, feedVars
<1>2. OrderInv'
  BY OrderStep, CommitOrderAssumption DEF FeedInv
<1>3. Visible(Stream)' = Visible(Stream)
  BY DEF txVars, Visible
<1>4. FeedOK'
  BY <1>1, <1>3 DEF FeedInv, FeedOK, feedVars, Numbers
<1>5. ASSUME NEW q \in Run PROVE RunOK(run[q])'
  <2>1. CASE q = r
    BY <1>1, <2>1
  <2>2. CASE q # r
    <3>1. PICK x \in RunRow : x = run[q] /\ RunOK(x)
      BY <1>1 DEF FeedInv
    <3>2. RunOK(x)'
      BY <1>1, <3>1, RunStaysOK
    <3>3. run'[q] = x
      BY <1>1, <2>2, <3>1
    <3>4. QED
      BY <3>2, <3>3
  <2>3. QED
    BY <2>1, <2>2
<1>6. QED
  BY <1>1, <1>2, <1>4, <1>5 DEF FeedInv
LEMMA Sizes ==
  ASSUME FeedInv
  PROVE  /\ Top \in Nat /\ cursor \in Nat /\ cursor <= Top /\ mark \in Nat /\ Stream \in Entity
         /\ purged \in SUBSET (1..Top) /\ run \in [Run -> RunRow]
         /\ \A r \in Run : RunOK(run[r])
BY ChangeFeedAssumption DEF FeedInv, FeedOK, OrderInv, OrderTypeOK, Top, ChangeFeedAssumption

\* What a COMMIT makes visible are the next numbers, and the counter goes with them.
LEMMA WritesFeed ==
  ASSUME FeedInv, Writes
  PROVE  FeedInv'
<1>1. OrderInv /\ OrderTypeOK /\ LogOK /\ Stream \in Entity
  BY Sizes DEF FeedInv, OrderInv
<1>2. purged' = purged /\ mark' = mark /\ recording' = recording /\ kind' = kind /\ cursor' = cursor
  BY DEF Writes, feedVars, runVars
<1>3. PICK t \in Tx : Begin(t) \/ AssignCommit(t) \/ Commit(t) \/ Abort(t)
                      \/ \E e \in Entity : AppendEntry(t, e)
  BY DEF Writes
<1>4. OrderInv'
  BY <1>1, <1>3, OrderStep, CommitOrderAssumption DEF OrderNext
<1>5. ASSUME NothingAppears, Top' = Top
      PROVE  FeedInv'
  <2>1. Visible(Stream)' = Visible(Stream)
    BY <1>1, <1>5 DEF NothingAppears
  <2>2. FeedOK'
    BY <1>2, <1>5, <2>1 DEF FeedInv, FeedOK, Numbers
  <2>3. QED
    BY <1>2, <1>4, <1>5, <2>2, FeedMoves, Sizes DEF Writes
<1>6. CASE Begin(t)
  BY <1>1, <1>5, <1>6, BeginStep DEF Begin, Top
<1>7. CASE AssignCommit(t)
  BY <1>1, <1>5, <1>7, AssignStep DEF AssignCommit, Top
<1>8. CASE Abort(t)
  BY <1>1, <1>5, <1>8, AbortStep DEF Abort, Top
<1>9. CASE \E e \in Entity : AppendEntry(t, e)
  BY <1>1, <1>5, <1>9, AppendStep DEF AppendEntry, Top
<1>10. CASE Commit(t)
  <2>1. /\ Pending(t) = {} /\ tx[t] \in InProgress /\ tx' = [tx EXCEPT ![t] = "committed"] /\ log' = log
        /\ counter' = [e \in Entity |-> IF holder[e] = t THEN counter[e] + Cardinality(Of(t, e))
                                        ELSE counter[e]]
    BY <1>10 DEF Commit
  <2>2. Visible(Stream)' = Visible(Stream) \cup Of(t, Stream)
    <3>1. \A x \in log : x.tx \in Tx
      BY <1>1 DEF OrderTypeOK, Entry
    <3>2. \A x \in log : tx'[x.tx] = "committed" <=> tx[x.tx] = "committed" \/ x.tx = t
      BY <1>1, <2>1, <3>1 DEF OrderTypeOK
    <3>3. QED
      BY <2>1, <3>2 DEF Visible, Of
  <2>3. Numbers(Visible(Stream))' = Numbers(Visible(Stream)) \cup Numbers(Of(t, Stream))
    BY <2>2 DEF Numbers
  <2>4. CASE holder[Stream] = t
    <3>1. PICK k \in Nat : k = Cardinality(Of(t, Stream))
      BY <1>1, OfIsFinite
    <3>2. Numbers(Of(t, Stream)) = (Top + 1)..(Top + k) /\ Top' = Top + k
      BY <1>1, <2>1, <2>4, <3>1, HolderNumbers DEF Top
    <3>3. Top \in Nat /\ Numbers(Visible(Stream)) \cup purged = 1..Top /\ cursor \in 0..Top
      BY Sizes DEF FeedInv, FeedOK
    <3>4. Numbers(Visible(Stream))' \cup purged' = (1..Top) \cup ((Top + 1)..(Top + k))
      BY <1>2, <2>3, <3>2, <3>3
    <3>5. (1..Top) \cup ((Top + 1)..(Top + k)) = 1..(Top + k)
      BY <3>1, <3>3
    <3>6. FeedOK' /\ Top <= Top'
      BY <1>2, <3>1, <3>2, <3>3, <3>4, <3>5 DEF FeedInv, FeedOK
    <3>7. QED
      BY <1>2, <1>4, <3>6, FeedMoves DEF Writes
  <2>5. CASE holder[Stream] # t
    <3>1. Of(t, Stream) = {}
      <4>1. \A x \in Of(t, Stream) : x.commit # 0
        BY <1>1, <2>1 DEF Pending
      <4>2. tx[t] # "committed"
        BY <2>1 DEF InProgress
      <4>3. QED
        BY <1>1, <2>5, <4>1, <4>2 DEF LogOK, Of
    <3>2. Numbers(Visible(Stream))' = Numbers(Visible(Stream)) /\ Top' = Top
      BY <1>1, <2>1, <2>3, <2>5, <3>1 DEF Numbers, Top
    <3>3. FeedOK'
      BY <1>2, <3>2 DEF FeedInv, FeedOK
    <3>4. QED
      BY <1>2, <1>4, <3>2, <3>3, FeedMoves, Sizes DEF Writes
  <2>6. QED
    BY <2>4, <2>5
<1>11. QED
  BY <1>3, <1>6, <1>7, <1>8, <1>9, <1>10

\* Purges take visible entries, which no transaction holds a counter for, and raise the
\* mark to the greatest of them.
LEMMA DeleteFeed ==
  ASSUME FeedInv, NEW doomed \in SUBSET Visible(Stream), Delete(doomed), recording' \in BOOLEAN
  PROVE  FeedInv'
<1>1. /\ OrderInv /\ OrderTypeOK /\ LogOK /\ SeqsAreDistinct /\ NumbersAreDistinct /\ HolderOK
      /\ FeedOK
  BY DEF FeedInv, OrderInv
<1>2. /\ log' = log \ doomed /\ tx' = tx /\ started' = started /\ seq' = seq /\ counter' = counter
      /\ holder' = holder /\ UNCHANGED runVars
      /\ mark' = RaisedMark(doomed) /\ purged' = purged \cup Numbers(doomed)
  BY DEF Delete
<1>3. log' \in SUBSET log /\ \A e \in Entity : Visible(e)' \in SUBSET Visible(e)
  BY <1>2 DEF Visible
<1>4. OrderTypeOK'
  BY <1>1, <1>2, <1>3, FS_Subset DEF OrderTypeOK
<1>5. LogOK' /\ SeqsAreDistinct' /\ NumbersAreDistinct'
  BY <1>1, <1>2, <1>3 DEF LogOK, SeqsAreDistinct, NumbersAreDistinct
<1>6. ASSUME NEW t \in Tx, tx[t] # "committed", NEW e
      PROVE  Of(t, e)' = Of(t, e)
  BY <1>2, <1>6 DEF Of, Visible
<1>7. HolderOK'
  <2>1. SUFFICES ASSUME NEW e \in Entity, NEW t \in Tx, holder[e] = t
                 PROVE  /\ tx'[t] = "committing"
                        /\ \A x \in Of(t, e)' : x.commit \in (counter'[e] + 1)..(counter'[e] + Cardinality(Of(t, e)'))
                        /\ \A d \in Pending(t)' : e < d
    BY <1>2 DEF HolderOK
  <2>2. tx[t] = "committing"
    BY <1>1, <2>1 DEF HolderOK
  <2>3. \A d : Of(t, d)' = Of(t, d)
    BY <1>6, <2>2
  <2>4. Pending(t)' = Pending(t)
    BY <2>3 DEF Pending
  <2>5. QED
    BY <1>1, <1>2, <2>1, <2>2, <2>3, <2>4 DEF HolderOK
<1>8. OrderInv'
  BY <1>4, <1>5, <1>7 DEF OrderInv
<1>9. Numbers(Visible(Stream)) \cup purged = 1..Top /\ Top' = Top /\ Top \in Nat
  BY <1>1, <1>2, Sizes DEF FeedOK, Top
<1>10. Visible(Stream)' = Visible(Stream) \ doomed
  BY <1>2 DEF Visible
<1>11. Numbers(Visible(Stream)) = Numbers(Visible(Stream))' \cup Numbers(doomed)
  BY <1>10 DEF Numbers
<1>12. Numbers(doomed) \in SUBSET (1..Top)
  BY <1>9, <1>11
<1>13. /\ Greatest(Numbers(doomed)) \in 0..Top
       /\ \A n \in Numbers(doomed) : n <= Greatest(Numbers(doomed))
  BY <1>9, <1>12, GreatestFacts
<1>14. mark' \in Nat /\ mark <= mark' /\ Greatest(Numbers(doomed)) <= mark'
  BY <1>1, <1>2, <1>9, <1>13 DEF FeedOK, RaisedMark, Later
<1>15. FeedOK'
  <2>1. Numbers(Visible(Stream))' \cup purged' = 1..Top'
    BY <1>2, <1>9, <1>11
  <2>2. ASSUME NEW n \in purged' PROVE n <= mark'
    <3>1. n \in 1..Top /\ mark \in Nat
      BY <1>2, <1>9, <1>12 , Sizes
    <3>2. QED
      BY <1>1, <1>2, <1>13, <1>14, <1>9, <3>1 DEF FeedOK
  <2>3. QED
    BY <1>1, <1>2, <1>9, <1>14, <2>1, <2>2 DEF FeedOK, runVars
<1>16. QED
  BY <1>2, <1>8, <1>9, <1>15, FeedMoves

LEMMA PurgesFeed ==
  ASSUME FeedInv, Purges
  PROVE  FeedInv'
<1>1. CASE SwitchOff
  <2>1. Visible(Stream) \in SUBSET Visible(Stream) /\ recording' \in BOOLEAN
    BY <1>1 DEF SwitchOff
  <2>2. QED
    BY <1>1, <2>1, DeleteFeed DEF SwitchOff
<1>2. CASE SwitchOn
  <2>1. UNCHANGED txVars /\ UNCHANGED runVars /\ mark' = mark /\ purged' = purged /\ recording' = TRUE
    BY <1>2 DEF SwitchOn
  <2>2. Visible(Stream)' = Visible(Stream) /\ Top' = Top /\ cursor' = cursor /\ kind' = kind
    BY <2>1 DEF txVars, Visible, Top, runVars
  <2>3. FeedOK'
    BY <2>1, <2>2 DEF FeedInv, FeedOK, Numbers
  <2>4. OrderInv'
    BY <2>1, OrderStep, CommitOrderAssumption DEF FeedInv
  <2>5. QED
    BY <2>1, <2>2, <2>3, <2>4, FeedMoves, Sizes
<1>3. ASSUME NEW c \in 2..(Cardinality(Tx) + 1), PurgeBefore(c)
      PROVE  FeedInv'
  <2> DEFINE doomed == {x \in Visible(Stream) : started[x.tx] < c}
  <2>1. doomed \in SUBSET Visible(Stream) /\ Delete(doomed) /\ recording' \in BOOLEAN
    BY <1>3 DEF PurgeBefore, FeedInv, FeedOK
  <2> HIDE DEF doomed
  <2>2. QED
    BY <2>1, DeleteFeed
<1>4. QED
  BY <1>1, <1>2, <1>3 DEF Purges
-----------------------------------------------------------------------------
(* The runs *)

LEMMA RunSteps ==
  ASSUME FeedInv, NEW r \in Run, NEW y \in RunRow, run' = [run EXCEPT ![r] = y], RunOK(y),
         UNCHANGED <<txVars, feedVars, kind, cursor>>
  PROVE  FeedInv'
<1>1. /\ Top' = Top /\ cursor' = cursor /\ purged' = purged
      /\ UNCHANGED <<txVars, feedVars, kind>>
  BY DEF Top, txVars, feedVars
<1>2. /\ cursor \in Nat /\ Top \in Nat /\ cursor' \in cursor..Top
      /\ cursor' \in Nat /\ cursor <= cursor' /\ Top <= Top' /\ Top' \in Nat
  BY <1>1, Sizes
<1>3. RunOK(y)'
  BY <1>1, <1>2, RunStaysOK
<1>4. QED
  BY <1>1, <1>2, <1>3, RunMoves

LEMMA NewRunOK ==
  ASSUME FeedInv
  PROVE  NewRun \in RunRow /\ RunOK(NewRun)
<1>1. NewRun \in RunRow
  BY DEF NewRun, RunRow, Phases
<1>2. NewRun.phase = "idle" /\ NewRun.proposal = 0 /\ NewRun.gone = {} /\ NewRun.page = {}
  BY DEF NewRun
<1>3. QED
  BY <1>1, <1>2, Sizes DEF RunOK

\* What an execution has settled and proposes, its run has settled.
LEMMA BetweenOK ==
  ASSUME FeedInv, NEW x \in RunRow, RunOK(x), NEW p \in 0..Top, NEW g \in SUBSET Nat,
         NEW u \in SUBSET Nat, x.unseen \subseteq u,
         \A n \in 1..p : n <= cursor \/ n \in x.got \cup g \cup u
  PROVE  LET y == Between([x EXCEPT !.unseen = u], p, g) IN y \in RunRow /\ RunOK(y)
<1> DEFINE y == Between([x EXCEPT !.unseen = u], p, g)
<1>1. /\ y.phase = "between" /\ y.ignores = x.ignores /\ y.bound = x.bound
      /\ y.proposal = Later(x.proposal, p) /\ y.got = x.got \cup g /\ y.unseen = u
      /\ y.durable = 0 /\ y.start = 0 /\ y.after = 0 /\ y.before = 0 /\ y.page = {} /\ y.gone = {}
  BY DEF Between, NewRun, RunRow
<1>2. y \in RunRow
  <2>1. /\ x.ignores \in BOOLEAN /\ x.bound \in Int /\ x.proposal \in Nat /\ x.got \in SUBSET Nat
        /\ p \in Nat
    BY Sizes DEF RunRow
  <2>2. Later(x.proposal, p) \in Nat
    BY <2>1 DEF Later
  <2>3. QED
    BY <2>1, <2>2 DEF Between, NewRun, RunRow, Phases
<1>3. x.proposal \in Nat /\ x.proposal <= Top /\ \A n \in 1..x.proposal : Settled(x, n)
  BY DEF RunRow, RunOK
<1>4. y.proposal <= Top
  BY <1>1, <1>3, Sizes DEF Later
<1>5. ASSUME NEW n \in 1..y.proposal PROVE Settled(y, n)
  <2>1. n \in 1..x.proposal \/ n \in 1..p
    BY <1>1, <1>3, <1>5, Sizes DEF Later
  <2>2. QED
    BY <1>1, <1>3, <2>1 DEF Settled
<1> HIDE DEF y
<1>6. RunOK(y)
  BY <1>1, <1>4, <1>5 DEF RunOK
<1>7. QED
  BY <1>2, <1>6 DEF y

\* An execution that fails leaves what its run had settled before.
LEMMA FailsFeed ==
  ASSUME FeedInv, NEW r \in Run, NEW x \in RunRow, RunOK(x), NodeFails(r, x),
         UNCHANGED <<txVars, feedVars, kind, cursor>>
  PROVE  FeedInv'
<1>1. CASE Become(r, NewRun)
  BY <1>1, NewRunOK, RunSteps DEF Become
<1>2. CASE Become(r, Between(x, 0, {}))
  <2>1. [x EXCEPT !.unseen = x.unseen] = x
    BY DEF RunRow
  <2>2. x.unseen \in SUBSET Nat /\ 0 \in 0..Top /\ {} \in SUBSET Nat /\ x.unseen \subseteq x.unseen
        /\ \A n \in 1..0 : n <= cursor \/ n \in x.got \cup {} \cup x.unseen
    BY Sizes DEF RunRow
  <2>3. Between(x, 0, {}) \in RunRow /\ RunOK(Between(x, 0, {}))
    BY <2>1, <2>2, BetweenOK
  <2>4. PICK y \in RunRow : y = Between(x, 0, {}) /\ RunOK(y)
    BY <2>3
  <2>5. QED
    BY <1>2, <2>4, RunSteps DEF Become
<1>3. QED
  BY <1>1, <1>2 DEF NodeFails

\* A range begins where the cursor, or the run's own proposal, stands.
LEMMA OpenFeed ==
  ASSUME FeedInv, NEW r \in Run, NEW x \in RunRow, RunOK(x), x.gone = {}, x.page = {},
         OpenRange(r, x)
  PROVE  FeedInv'
<1>1. UNCHANGED <<txVars, feedVars, kind, cursor>>
  BY DEF OpenRange
<1>2. CASE ~recording
  BY <1>1, <1>2, FailsFeed DEF OpenRange
<1>3. CASE recording
  <2> DEFINE z == [x EXCEPT !.durable = cursor, !.phase = IF x.ignores THEN "position" ELSE "check"]
  <2>1. run' = [run EXCEPT ![r] = z]
    BY <1>3 DEF OpenRange, Become
  <2>2. z \in RunRow
    BY Sizes DEF RunRow, Phases
  <2>3. /\ z.phase = IF x.ignores THEN "position" ELSE "check"
        /\ z.ignores = x.ignores /\ z.durable = cursor /\ z.proposal = x.proposal
        /\ z.gone = {} /\ z.page = {} /\ z.got = x.got /\ z.unseen = x.unseen
    BY DEF RunRow
  <2> HIDE DEF z
  <2>4. PICK y \in RunRow : y = z
    BY <2>2
  <2>5. RunOK(y)
    BY <2>3, <2>4, Sizes DEF RunOK, Settled
  <2>6. QED
    BY <1>1, <2>1, <2>4, <2>5, RunSteps
<1>4. QED
  BY <1>2, <1>3

LEMMA StartFeed ==
  ASSUME FeedInv, NEW r \in Run, NEW ignores \in BOOLEAN, StartRun(r, ignores)
  PROVE  FeedInv'
<1>1. PICK x : x = [NewRun EXCEPT !.ignores = ignores]
  OBVIOUS
<1>2. x \in RunRow /\ RunOK(x) /\ x.gone = {} /\ x.page = {}
  <2>1. x \in RunRow
    BY <1>1 DEF NewRun, RunRow, Phases
  <2>2. x.phase = "idle" /\ x.proposal = 0 /\ x.gone = {} /\ x.page = {}
    BY <1>1 DEF NewRun
  <2>3. QED
    BY <2>1, <2>2, Sizes DEF RunOK
<1>3. QED
  BY <1>1, <1>2, OpenFeed DEF StartRun

LEMMA LoopFeed ==
  ASSUME FeedInv, NEW r \in Run, Loop(r)
  PROVE  FeedInv'
<1>1. PICK x \in RunRow : x = run[r] /\ RunOK(x) /\ x.phase = "between"
  BY Sizes DEF Loop
<1>2. x.gone = {} /\ x.page = {}
  BY <1>1 DEF RunOK
<1>3. QED
  BY <1>1, <1>2, OpenFeed DEF Loop

\* A mark that is not past the cursor is not past the start, nor is what it stands for.
LEMMA CheckFeed ==
  ASSUME FeedInv, NEW r \in Run, CheckMark(r)
  PROVE  FeedInv'
<1>1. PICK x \in RunRow : x = run[r] /\ RunOK(x)
  BY Sizes
<1>2. x.phase = "check" /\ UNCHANGED <<txVars, feedVars, kind, cursor>>
  BY <1>1 DEF CheckMark
<1>3. CASE BehindMark(x.durable)
  BY <1>1, <1>2, <1>3, FailsFeed DEF CheckMark
<1>4. CASE ~BehindMark(x.durable)
  <2> DEFINE seen == IF x.durable = 0 THEN {} ELSE purged
             z == [x EXCEPT !.gone = seen, !.durable = 0, !.phase = "position"]
  <2>1. run' = [run EXCEPT ![r] = z]
    BY <1>1, <1>4, Sizes DEF CheckMark, RunRow
  <2>2. ASSUME NEW n \in seen PROVE n <= cursor
    <3>1. n \in purged /\ x.durable # 0 /\ n \in Nat
      BY <2>2, Sizes
    <3>2. n <= mark /\ mark <= x.durable /\ x.durable <= cursor
      BY <1>1, <1>2, <1>4, <3>1, Sizes DEF BehindMark, RunOK, RunRow, FeedInv, FeedOK
    <3>3. QED
      BY <3>1, <3>2, Sizes DEF RunRow
  <2>3. seen \in SUBSET Nat
    BY Sizes
  <2> HIDE DEF seen
  <2>4. z \in RunRow
    BY <2>3 DEF RunRow, Phases
  <2>5. /\ z.phase = "position" /\ z.ignores = x.ignores /\ z.proposal = x.proposal
        /\ z.gone = seen /\ z.page = x.page /\ z.got = x.got /\ z.unseen = x.unseen
    BY DEF RunRow
  <2> HIDE DEF z
  <2>6. PICK y \in RunRow : y = z
    BY <2>4
  <2>7. RunOK(y)
    BY <1>1, <1>2, <2>2, <2>5, <2>6 DEF RunOK, Settled
  <2>8. QED
    BY <1>2, <2>1, <2>6, <2>7, RunSteps
<1>5. QED
  BY <1>3, <1>4

LEMMA PositionFeed ==
  ASSUME FeedInv, NEW r \in Run, Position(r)
  PROVE  FeedInv'
<1>1. PICK x \in RunRow : x = run[r] /\ RunOK(x)
  BY Sizes
<1>2. x.phase = "position" /\ UNCHANGED <<txVars, feedVars, kind, cursor>>
  BY <1>1 DEF Position
<1>3. PICK s : s = IF x.ignores THEN x.proposal ELSE Later(cursor, x.proposal)
  OBVIOUS
<1>4. /\ s \in Nat /\ \A n \in 1..s : Settled(x, n)
      /\ \A n \in x.gone : n <= s
  <2>1. x.proposal \in Nat /\ cursor \in Nat /\ x.gone \in SUBSET Nat
    BY Sizes DEF RunRow
  <2>2. \A n \in 1..x.proposal : Settled(x, n)
    BY <1>1 DEF RunOK
  <2>3. \A n \in Nat : n <= cursor => Settled(x, n)
    BY DEF Settled
  <2>4. IF x.ignores THEN x.gone = {} ELSE \A n \in x.gone : n <= cursor
    BY <1>1, <1>2 DEF RunOK
  <2>5. QED
    BY <1>3, <2>1, <2>2, <2>3, <2>4 DEF Later
<1> DEFINE z == [x EXCEPT !.start = s, !.after = s, !.phase = "bound"]
<1>5. run' = [run EXCEPT ![r] = z]
  BY <1>1, <1>3, Sizes DEF Position, RunRow
<1>6. z \in RunRow
  BY <1>4 DEF RunRow, Phases
<1>7. /\ z.phase = "bound" /\ z.ignores = x.ignores /\ z.proposal = x.proposal
      /\ z.start = s /\ z.after = s
      /\ z.gone = x.gone /\ z.page = x.page /\ z.got = x.got /\ z.unseen = x.unseen
  BY DEF RunRow
<1> HIDE DEF z
<1>8. PICK y \in RunRow : y = z
  BY <1>6
<1>9. RunOK(y)
  BY <1>1, <1>2, <1>4, <1>7, <1>8 DEF RunOK, Settled
<1>10. QED
  BY <1>2, <1>5, <1>8, <1>9, RunSteps

LEMMA BoundFeed ==
  ASSUME FeedInv, NEW r \in Run, CaptureBound(r)
  PROVE  FeedInv'
<1>1. PICK x \in RunRow : x = run[r] /\ RunOK(x)
  BY Sizes
<1>2. x.phase = "bound" /\ UNCHANGED <<txVars, feedVars, kind, cursor>>
  BY <1>1 DEF CaptureBound
<1>3. PICK b : b = IF x.bound = -1 THEN Greatest(Numbers(Visible(Stream))) ELSE x.bound
  OBVIOUS
<1>4. b \in Int
  <2>1. Numbers(Visible(Stream)) \in SUBSET (1..Top)
    BY DEF FeedInv, FeedOK
  <2>2. Greatest(Numbers(Visible(Stream))) \in 0..Top
    BY <2>1, GreatestFacts, Sizes
  <2>3. QED
    BY <1>3, <2>2, Sizes DEF RunRow
<1>5. PICK p \in {"read", "before"} : p = IF kind = "read" THEN "read" ELSE "before"
  OBVIOUS
<1> DEFINE z == [x EXCEPT !.bound = b, !.phase = p]
<1>6. run' = [run EXCEPT ![r] = z]
  BY <1>1, <1>3, <1>5, Sizes DEF CaptureBound, RunRow
<1>7. z \in RunRow
  BY <1>4, <1>5 DEF RunRow, Phases
<1>8. /\ z.phase = p /\ z.ignores = x.ignores /\ z.proposal = x.proposal
      /\ z.start = x.start /\ z.after = x.after
      /\ z.gone = x.gone /\ z.page = x.page /\ z.got = x.got /\ z.unseen = x.unseen
  BY DEF RunRow
<1> HIDE DEF z
<1>9. PICK y \in RunRow : y = z
  BY <1>7
<1>10. RunOK(y)
  BY <1>1, <1>2, <1>5, <1>8, <1>9 DEF RunOK, Settled
<1>11. QED
  BY <1>2, <1>6, <1>9, <1>10, RunSteps
\* One page: what it goes past is on it, or was purged after the mark check.
LEMMA ReadFeed ==
  ASSUME FeedInv, NEW r \in Run, ReadPage(r)
  PROVE  FeedInv'
<1>1. PICK x \in RunRow : x = run[r] /\ RunOK(x)
  BY Sizes
<1>2. x.phase = "read" /\ UNCHANGED <<txVars, feedVars, kind, cursor>>
  BY <1>1 DEF ReadPage
<1>3. CASE ~recording
  BY <1>1, <1>2, <1>3, FailsFeed DEF ReadPage
<1>4. CASE recording
  <2>1. PICK g : g = Page(r)
    OBVIOUS
  <2>2. PICK p : p = Greatest(g)
    OBVIOUS
  <2>3. PICK u : u = Unseen(r)
    OBVIOUS
  <2>4. /\ g \in SUBSET (1..Top) /\ Top \in Nat
        /\ \A n \in 1..Top : x.after < n /\ n <= p => n \in g \cup purged
    BY <1>1, <2>1, <2>2, PageFacts
  <2>5. p \in 0..Top /\ g \in SUBSET Nat
    BY <2>2, <2>4, GreatestFacts
  <2>6. u \in SUBSET Nat /\ x.unseen \subseteq u /\ u = x.unseen \cup (purged \ x.gone)
    BY <1>1, <2>3, Sizes DEF Unseen, RunRow
  <2>7. ASSUME NEW n \in 1..p PROVE n <= cursor \/ n \in x.got \cup g \cup u
    <3>1. x.after = x.start /\ x.start \in Nat /\ n \in Nat /\ n \in 1..Top
      BY <1>1, <1>2, <2>4, <2>5 DEF RunOK, RunRow
    <3>2. CASE n <= x.start
      <4>1. Settled(x, n)
        BY <1>1, <1>2, <3>1, <3>2 DEF RunOK
      <4>2. QED
        BY <2>6, <4>1 DEF Settled
    <3>3. CASE x.start < n
      <4>1. n \in g \/ n \in purged
        BY <2>4, <2>5, <3>1, <3>3
      <4>2. n \notin x.gone
        BY <1>1, <1>2, <3>1, <3>3 DEF RunOK
      <4>3. QED
        BY <2>6, <4>1, <4>2
    <3>4. QED
      BY <3>1, <3>2, <3>3
  <2>8. PICK y \in RunRow : y = Between([x EXCEPT !.unseen = u], p, g) /\ RunOK(y)
    BY <1>1, <2>5, <2>6, <2>7, BetweenOK
  <2>9. run' = [run EXCEPT ![r] = y]
    BY <1>1, <1>4, <2>1, <2>2, <2>3, <2>8 DEF ReadPage, Become
  <2>10. QED
    BY <1>2, <2>8, <2>9, RunSteps
<1>5. QED
  BY <1>3, <1>4

LEMMA BeforeFeed ==
  ASSUME FeedInv, NEW r \in Run, MarkBefore(r)
  PROVE  FeedInv'
<1>1. PICK x \in RunRow : x = run[r] /\ RunOK(x)
  BY Sizes
<1>2. x.phase = "before" /\ UNCHANGED <<txVars, feedVars, kind, cursor>>
  BY <1>1 DEF MarkBefore
<1>3. PICK m : m = mark
  OBVIOUS
<1>4. PICK u : u = Unseen(r)
  OBVIOUS
<1>5. m \in Nat /\ u \in SUBSET Nat /\ x.unseen \subseteq u
  BY <1>1, <1>3, <1>4, Sizes DEF Unseen, RunRow
<1> DEFINE z == [x EXCEPT !.before = m, !.unseen = u, !.gone = {}, !.phase = "paging"]
<1>6. run' = [run EXCEPT ![r] = z]
  BY <1>1, <1>3, <1>4, Sizes DEF MarkBefore, RunRow
<1>7. z \in RunRow
  BY <1>5 DEF RunRow, Phases
<1>8. /\ z.phase = "paging" /\ z.ignores = x.ignores /\ z.proposal = x.proposal
      /\ z.start = x.start /\ z.after = x.after
      /\ z.gone = {} /\ z.page = x.page /\ z.got = x.got /\ z.unseen = u
  BY DEF RunRow
<1> HIDE DEF z
<1>9. PICK y \in RunRow : y = z
  BY <1>7
<1>10. x.page = {} /\ x.after = x.start /\ x.start \in Nat
  BY <1>1, <1>2 DEF RunOK, RunRow
<1>11. RunOK(y)
  BY <1>1, <1>2, <1>5, <1>8, <1>9, <1>10 DEF RunOK, Settled
<1>12. QED
  BY <1>2, <1>6, <1>9, <1>11, RunSteps

LEMMA LoadFeed ==
  ASSUME FeedInv, NEW r \in Run, LoadPage(r)
  PROVE  FeedInv'
<1>1. PICK x \in RunRow : x = run[r] /\ RunOK(x)
  BY Sizes
<1>2. x.phase = "paging" /\ UNCHANGED <<txVars, feedVars, kind, cursor>>
  BY <1>1 DEF LoadPage
<1>3. CASE ~recording
  BY <1>1, <1>2, <1>3, FailsFeed DEF LoadPage
<1>4. CASE recording
  <2>1. PICK g : g = Page(r)
    OBVIOUS
  <2>2. PICK a : a = Later(x.after, Greatest(g))
    OBVIOUS
  <2>3. /\ g \in SUBSET (1..Top) /\ Top \in Nat
        /\ \A n \in 1..Top : x.after < n /\ n <= Greatest(g) => n \in g \cup purged
    BY <1>1, <2>1, PageFacts
  <2>4. Greatest(g) \in 0..Top /\ \A n \in g : n <= Greatest(g)
    BY <2>3, GreatestFacts
  <2>5. /\ x.after \in Nat /\ x.start \in Nat /\ x.page \in SUBSET (1..Top)
        /\ \A n \in x.page : n <= x.after
        /\ \A n \in (x.start + 1)..x.after : n \in x.page \cup purged
    BY <1>1, <1>2 DEF RunOK, RunRow
  <2>6. /\ a \in Nat /\ x.page \cup g \in SUBSET (1..Top) /\ x.page \cup g \in SUBSET Nat
        /\ \A n \in x.page \cup g : n <= a
    <3>1. PICK h \in Nat : h = Greatest(g)
      BY <2>3, <2>4
    <3>2. a \in Nat /\ x.after <= a /\ h <= a
      BY <2>2, <2>5, <3>1 DEF Later
    <3>3. \A n \in 1..Top : n \in Nat
      OBVIOUS
    <3>4. x.page \cup g \in SUBSET (1..Top) /\ x.page \cup g \in SUBSET Nat
      BY <2>3, <2>5, <3>3
    <3>5. ASSUME NEW n \in x.page \cup g PROVE n <= a
      <4>1. n \in Nat /\ (n <= x.after \/ n <= h)
        BY <2>4, <2>5, <3>1, <3>4, <3>5
      <4>2. QED
        BY <2>5, <3>1, <3>2, <4>1
    <3>6. QED
      BY <3>2, <3>4, <3>5
  <2>7. ASSUME NEW n \in (x.start + 1)..a PROVE n \in x.page \cup g \cup purged
    <3>1. n \in Nat /\ x.start < n /\ n <= a
      BY <2>5, <2>6
    <3>2. CASE n <= x.after
      BY <2>5, <3>1, <3>2
    <3>3. CASE x.after < n
      <4>1. n <= Greatest(g) /\ n \in 1..Top
        <5>1. PICK h \in 0..Top : h = Greatest(g)
          BY <2>4
        <5>2. h \in Nat /\ h <= Top
          BY <2>3, <5>1
        <5>3. n <= h
          BY <2>2, <2>5, <3>1, <3>3, <5>1, <5>2 DEF Later
        <5>4. QED
          BY <2>3, <2>5, <3>1, <3>3, <5>1, <5>2, <5>3
      <4>2. QED
        BY <2>3, <3>3, <4>1
    <3>4. QED
      BY <2>5, <3>1, <3>2, <3>3
  <2>8. PICK p \in {"paging", "after"} :
          run' = [run EXCEPT ![r].page = @ \cup g, ![r].after = Later(@, Greatest(g)), ![r].phase = p]
    <3>1. PICK full \in BOOLEAN :
            run' = [run EXCEPT ![r].page = @ \cup Page(r),
                               ![r].after = Later(@, Greatest(Page(r))),
                               ![r].phase = IF full \/ Page(r) = InRange(r) THEN "after" ELSE @]
      BY <1>4 DEF LoadPage
    <3>2. CASE full \/ Page(r) = InRange(r)
      BY <2>1, <3>1, <3>2
    <3>3. CASE ~(full \/ Page(r) = InRange(r))
      <4>1. run[r].phase = "paging" /\ run \in [Run -> RunRow]
        BY <1>1, <1>2, Sizes
      <4>2. QED
        BY <2>1, <3>1, <3>3, <4>1 DEF RunRow
    <3>4. QED
      BY <3>2, <3>3
  <2> DEFINE z == [x EXCEPT !.page = @ \cup g, !.after = a, !.phase = p]
  <2>9. run' = [run EXCEPT ![r] = z]
    BY <1>1, <2>2, <2>8, Sizes DEF RunRow
  <2>10. z \in RunRow
    BY <2>6, <2>8 DEF RunRow, Phases
  <2>11. /\ z.phase = p /\ z.ignores = x.ignores /\ z.proposal = x.proposal
         /\ z.start = x.start /\ z.after = a
         /\ z.gone = x.gone /\ z.page = x.page \cup g /\ z.got = x.got /\ z.unseen = x.unseen
    BY DEF RunRow
  <2> HIDE DEF z
  <2>12. PICK y \in RunRow : y = z
    BY <2>10
  <2>13. RunOK(y)
    BY <1>1, <1>2, <2>6, <2>7, <2>8, <2>11, <2>12 DEF RunOK, Settled
  <2>14. QED
    BY <1>2, <2>9, <2>12, <2>13, RunSteps
<1>5. QED
  BY <1>3, <1>4

\* What was purged from the loaded range is not above the first mark, or the second is.
LEMMA AfterFeed ==
  ASSUME FeedInv, NEW r \in Run, MarkAfter(r)
  PROVE  FeedInv'
<1>1. PICK x \in RunRow : x = run[r] /\ RunOK(x)
  BY Sizes
<1>2. x.phase = "after" /\ UNCHANGED <<txVars, feedVars, kind, cursor>>
  BY <1>1 DEF MarkAfter
<1>3. CASE PurgeMovedPastStart(r)
  BY <1>1, <1>2, <1>3, FailsFeed DEF MarkAfter
<1>4. CASE ~PurgeMovedPastStart(r)
  <2>1. PICK p : p = Greatest(x.page)
    OBVIOUS
  <2>2. PICK u : u = x.unseen \cup {n \in purged : n <= x.before}
    OBVIOUS
  <2>3. /\ x.page \in SUBSET (1..Top) /\ Top \in Nat /\ x.after \in Nat /\ x.start \in Nat
        /\ x.before \in Nat
        /\ \A n \in x.page : n <= x.after
        /\ \A n \in (x.start + 1)..x.after : n \in x.page \cup purged
    BY <1>1, <1>2, Sizes DEF RunOK, RunRow
  <2>4. p \in 0..Top /\ p <= x.after /\ x.page \in SUBSET Nat
    BY <2>1, <2>3, GreatestFacts
  <2>5. u \in SUBSET Nat /\ x.unseen \subseteq u
    BY <2>2, Sizes DEF RunRow
  <2>6. mark <= x.before \/ mark <= x.start
    BY <1>1, <1>4, <2>3, Sizes DEF PurgeMovedPastStart
  <2>7. ASSUME NEW n \in 1..p PROVE n <= cursor \/ n \in x.got \cup x.page \cup u
    <3>1. n \in Nat /\ n \in 1..x.after
      BY <2>3, <2>4
    <3>2. CASE n <= x.start
      <4>1. Settled(x, n)
        BY <1>1, <1>2, <2>3, <3>1, <3>2 DEF RunOK
      <4>2. QED
        BY <2>5, <4>1 DEF Settled
    <3>3. CASE x.start < n /\ n \in purged
      <4>1. n <= mark
        BY <3>3 DEF FeedInv, FeedOK
      <4>2. n <= x.before
        BY <2>3, <2>6, <3>1, <3>3, <4>1, Sizes
      <4>3. QED
        BY <2>2, <3>3, <4>2
    <3>4. QED
      BY <2>3, <3>1, <3>2, <3>3
  <2>8. PICK y \in RunRow : y = Between([x EXCEPT !.unseen = u], p, x.page) /\ RunOK(y)
    BY <1>1, <2>4, <2>5, <2>7, BetweenOK
  <2>9. run' = [run EXCEPT ![r] = y]
    <3>1. [run[r] EXCEPT !.unseen = @ \cup Hidden(r)] = [x EXCEPT !.unseen = u]
      BY <1>1, <2>2 DEF Hidden, RunRow
    <3>2. QED
      BY <1>1, <1>4, <2>1, <2>8, <3>1 DEF MarkAfter, Become
  <2>10. QED
    BY <1>2, <2>8, <2>9, RunSteps
<1>5. QED
  BY <1>3, <1>4

LEMMA StampFeed ==
  ASSUME FeedInv, NEW r \in Run, Stamp(r)
  PROVE  FeedInv'
<1>1. PICK x \in RunRow : x = run[r] /\ RunOK(x)
  BY Sizes
<1>2. UNCHANGED <<txVars, feedVars, kind, cursor>>
  BY DEF Stamp
<1>3. PICK y \in RunRow : y = [x EXCEPT !.phase = "stamped"]
  BY DEF RunRow, Phases
<1>4. y.phase = "stamped" /\ y.proposal = x.proposal /\ y.got = x.got /\ y.unseen = x.unseen
  BY <1>3 DEF RunRow
<1>5. RunOK(y)
  BY <1>1, <1>4 DEF RunOK, Settled
<1>6. QED
  BY <1>1, <1>2, <1>3, <1>5, RunSteps DEF Stamp, Go, Become

\* OnlyReadIsPassed, of one step.
OnlyReadPassed ==
  \A n \in (cursor + 1)..cursor' :
    \E r \in Run : run[r].phase = "stamped" /\ n \in run[r].got \cup run[r].unseen

LEMMA AdvanceFeed ==
  ASSUME FeedInv, NEW r \in Run, Advance(r)
  PROVE  FeedInv' /\ OnlyReadPassed
<1>1. PICK x \in RunRow : x = run[r] /\ RunOK(x)
  BY Sizes
<1>2. /\ x.phase = "stamped" /\ UNCHANGED <<txVars, feedVars, kind>>
      /\ cursor' = Later(cursor, x.proposal) /\ run' = [run EXCEPT ![r] = NewRun]
  BY <1>1 DEF Advance, Moved, Become
<1>3. x.proposal \in Nat /\ x.proposal <= Top /\ \A n \in 1..x.proposal : Settled(x, n)
  BY <1>1 DEF RunOK, RunRow
<1>4. cursor' \in cursor..Top
  BY <1>2, <1>3, Sizes DEF Later
<1>5. OnlyReadPassed
  <2>1. SUFFICES ASSUME NEW n \in (cursor + 1)..cursor'
                 PROVE  n \in x.got \cup x.unseen
    BY <1>1, <1>2 DEF OnlyReadPassed
  <2>2. n \in 1..x.proposal /\ ~(n <= cursor)
    BY <1>2, <1>3, <2>1, Sizes DEF Later
  <2>3. QED
    BY <1>3, <2>2 DEF Settled
<1>6. PICK y \in RunRow : y = NewRun
  BY NewRunOK
<1>7. RunOK(y)'
  <2>1. y.phase = "idle" /\ y.proposal = 0 /\ y.gone = {} /\ y.page = {}
    BY <1>6 DEF NewRun
  <2>2. Top' = Top /\ Top \in Nat
    BY <1>2, Sizes DEF Top, txVars
  <2>3. QED
    BY <2>1, <2>2 DEF RunOK
<1>8. QED
  BY <1>2, <1>4, <1>5, <1>6, <1>7, RunMoves

LEMMA FaultFeed ==
  ASSUME FeedInv, NEW r \in Run, Fault(r)
  PROVE  FeedInv'
<1>1. PICK y \in RunRow : y = NewRun /\ RunOK(y)
  BY NewRunOK
<1>2. QED
  BY <1>1, RunSteps DEF Fault, Become

LEMMA FeedStep ==
  ASSUME FeedInv, [Next]_vars
  PROVE  FeedInv' /\ OnlyReadPassed
<1>1. cursor' = cursor => OnlyReadPassed
  BY Sizes DEF OnlyReadPassed
<1>2. CASE UNCHANGED vars
  <2>1. UNCHANGED txVars /\ UNCHANGED feedVars /\ UNCHANGED runVars /\ cursor' = cursor
    BY <1>2 DEF vars, runVars
  <2>2. Visible(Stream)' = Visible(Stream) /\ Top' = Top
    BY <2>1 DEF txVars, Visible, Top
  <2>3. FeedOK'
    BY <2>1, <2>2 DEF FeedInv, FeedOK, Numbers, feedVars, runVars
  <2>4. OrderInv'
    BY <2>1, OrderStep, CommitOrderAssumption DEF FeedInv
  <2>5. QED
    BY <1>1, <2>1, <2>2, <2>3, <2>4, FeedMoves, Sizes DEF feedVars
<1>3. CASE Writes
  BY <1>1, <1>3, WritesFeed DEF Writes, runVars
<1>4. CASE Purges
  <2>1. cursor' = cursor
    BY <1>4 DEF Purges, SwitchOff, SwitchOn, PurgeBefore, Delete, runVars
  <2>2. QED
    BY <1>1, <1>4, <2>1, PurgesFeed
<1>5. ASSUME NEW r \in Run, NEW ignores \in BOOLEAN, StartRun(r, ignores)
      PROVE  FeedInv' /\ OnlyReadPassed
  BY <1>1, <1>5, StartFeed DEF StartRun, OpenRange
<1>6. ASSUME NEW r \in Run, Loop(r)
      PROVE  FeedInv' /\ OnlyReadPassed
  BY <1>1, <1>6, LoopFeed DEF Loop, OpenRange
<1>7. ASSUME NEW r \in Run, Fault(r)
      PROVE  FeedInv' /\ OnlyReadPassed
  BY <1>1, <1>7, FaultFeed DEF Fault
<1>8. ASSUME NEW r \in Run, RunStep(r)
      PROVE  FeedInv' /\ OnlyReadPassed
  <2>1. CASE CheckMark(r)
    BY <1>1, <2>1, CheckFeed DEF CheckMark
  <2>2. CASE Position(r)
    BY <1>1, <2>2, PositionFeed DEF Position
  <2>3. CASE CaptureBound(r)
    BY <1>1, <2>3, BoundFeed DEF CaptureBound
  <2>4. CASE ReadPage(r)
    BY <1>1, <2>4, ReadFeed DEF ReadPage
  <2>5. CASE MarkBefore(r)
    BY <1>1, <2>5, BeforeFeed DEF MarkBefore
  <2>6. CASE LoadPage(r)
    BY <1>1, <2>6, LoadFeed DEF LoadPage
  <2>7. CASE MarkAfter(r)
    BY <1>1, <2>7, AfterFeed DEF MarkAfter
  <2>8. CASE Stamp(r)
    BY <1>1, <2>8, StampFeed DEF Stamp
  <2>9. CASE Advance(r)
    BY <2>9, AdvanceFeed
  <2>10. QED
    BY <1>8, <2>1, <2>2, <2>3, <2>4, <2>5, <2>6, <2>7, <2>8, <2>9 DEF RunStep
<1>9. QED
  BY <1>2, <1>3, <1>4, <1>5, <1>6, <1>7, <1>8 DEF Next, Runs

\* However many runs of a channel overlap, fail and crash, and whatever purges cross them,
\* the cursor passes no number but those its run has read, or could not read because a
\* purge had taken them unnoticed by its mark checks.
THEOREM CursorPassesTheRead == Spec => OnlyReadIsPassed
<1>1. Init => FeedInv
  <2>1. SUFFICES ASSUME Init PROVE FeedInv
    OBVIOUS
  <2>2. OrderInv
    BY <2>1, OrderInitInv DEF Init
  <2>3. Visible(Stream) = {} /\ Top = 0
    BY <2>1, ChangeFeedAssumption DEF Init, OrderInit, Visible, Top, ChangeFeedAssumption
  <2>4. FeedOK
    BY <2>1, <2>3 DEF Init, FeedOK, Numbers
  <2>5. NewRun \in RunRow
    BY DEF NewRun, RunRow, Phases
  <2>6. RunOK(NewRun)
    BY <2>3 DEF NewRun, RunOK
  <2>7. QED
    BY <2>1, <2>2, <2>4, <2>5, <2>6 DEF FeedInv, Init
<1>2. FeedInv /\ [Next]_vars => FeedInv' /\ [OnlyReadPassed]_vars
  BY FeedStep
<1>3. Spec => [][OnlyReadPassed]_vars
  BY <1>1, <1>2, PTL DEF Spec
<1>4. QED
  BY <1>3 DEF OnlyReadIsPassed, OnlyReadPassed
=============================================================================
