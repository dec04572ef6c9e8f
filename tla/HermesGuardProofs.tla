------------------------- MODULE HermesGuardProofs -------------------------
(***************************************************************************)
(* What holds of the Hermes guard for every number of calls, with and      *)
(* without ids, reused or not, every cap on the pending entries and every  *)
(* interleaving of the hooks' threads.                                     *)
(*                                                                         *)
(* An entry is that of a decided call, under its key (Owned), and has a    *)
(* record (HasRecords), so that pruning always leaves room and the entries *)
(* stay within the cap.  What a call was matched with is the key of a      *)
(* decided call for the same action (Matches).  In remote mode an entry    *)
(* disappears with its trace in an outcome, or is missed (OwnKept,         *)
(* FoundKept).  That a tool runs with what was judged rests on Judged.     *)
(*                                                                         *)
(* The last part says where outcomes are told apart (Distinct): the key a  *)
(* call looked up is that of an allowed call, was reported for no other,   *)
(* and once reported has no entry that another could find.                 *)
(***************************************************************************)
EXTENDS HermesGuard, SubsequenceTheorems

Decided(c) == stage[c] \notin {"idle", "evaluating"}

(* Entries are of decided calls, under their own keys, and have records.   *)
Owned == \A k \in Keys : pending[k] # None =>
    Key(pending[k]) = k /\ Decided(pending[k])
HasRecord(k) == \E i \in 1..Len(order) : order[i].key = k
HasRecords == \A k \in Keys : pending[k] # None => HasRecord(k)

Room == IsFiniteSet(KeysIn(pending)) /\ Cardinality(KeysIn(pending)) <= MaxPending

(* Only outcomes without an id are matched, with the key of a decided call *)
(* for the same action.                                                    *)
Matches == \A c \in Calls : found[c] # None =>
    /\ Anonymous(c)
    /\ found[c] = "unknown" \/ \E d \in Calls : /\ Decided(d) /\ Key(d) = found[c]
                                                /\ Action[d] = Action[c]

(* Outcomes exist in remote mode, at the end of a call.                    *)
Reported == \A c \in Calls : outcome[c] # None =>
    /\ mode = "remote"
    /\ stage[c] \in {"refused", "done"}

(* An entry a call may rely on is there, or is known to be missed or used. *)
Taken(c) == \E d \in Calls \ {c} : outcome[d] # None /\ outcome[d].trace = c
Gone(c) == c \in missed \/ Taken(c)
KeyGone(c, k) == \/ \E d \in missed : Key(d) = k
                 \/ \E d \in Calls \ {c} : outcome[d] # None /\ outcome[d].key = k
OwnKept == mode = "remote" => \A c \in Calls :
    stage[c] \in {"allowed", "running"} => pending[Key(c)] = c \/ Gone(c)
FoundKept == mode = "remote" => \A c \in Calls :
    stage[c] = "matched" => Gone(c) \/ Held(found[c]) # None \/ KeyGone(c, found[c])

(* A tool can only be run with the arguments that were judged, and nothing *)
(* runs in local mode.                                                     *)
Judged == \A c \in Calls :
    /\ stage[c] # "idle" => judged[c] \in Arguments
    /\ trusted /\ c \in Native => live[c] = "given" /\ judged[c] \in {None, "given"}
    /\ mode = "local" => stage[c] \in {"idle", "refused"}

Inv == /\ TypeOK /\ Owned /\ HasRecords /\ Room /\ Matches /\ Reported
       /\ OwnKept /\ FoundKept /\ TraceTrue /\ TraceKept /\ Judged

-----------------------------------------------------------------------------
(* What the three operations on the pending entries do.                    *)

PendType == /\ pending \in [Keys -> Calls \cup {None}]
            /\ order \in Seq(Record)
            /\ missed \subseteq Calls

(* Why an entry may be dropped to make room.                               *)
Cause(k) == \/ Cardinality(KeysIn(pending)) >= MaxPending
            \/ \E i \in 1..Len(order) : order[i] = [key |-> k, old |-> TRUE]

(* Entries leave, and those that leave unused are missed.                  *)
Drops(K) == /\ missed \subseteq missed'
            /\ \A k \in K : \/ pending'[k] = pending[k]
                            \/ pending'[k] = None /\ pending[k] \in missed'

LEMMA KeyType == \A c \in Calls : Key(c) \in Keys
BY DEF Keys

LEMMA WithoutType ==
    ASSUME PendType, NEW n \in Nat
    PROVE  /\ Without(n) \in [Keys -> Calls \cup {None}]
           /\ \A k \in Keys : Without(n)[k] \in {pending[k], None}
           /\ KeysIn(Without(n)) \subseteq KeysIn(pending)
BY DEF PendType, Without, KeysIn

LEMMA PrunedIs ==
    ASSUME order \in Seq(Record)
    PROVE  /\ Pruned \in 0..Len(order) /\ PruneStops(Pruned)
           /\ \A n \in 0..Len(order) : n < Pruned => ~PruneStops(n)
<1> DEFINE T == {n \in 0..Len(order) : PruneStops(n)}
<1>1. Len(order) \in Nat
  OBVIOUS
<1>2. Len(order) \in T
  BY <1>1 DEF PruneStops
<1>3. \A n \in T : n \in Nat
  BY <1>1
<1>4. \E x \in T : \A y \in T : x <= y
  <2> HIDE DEF T
  <2> QED
    BY <1>2, <1>3, LeastNat
<1>5. Pruned = CHOOSE x \in T : \A y \in T : x <= y
  BY DEF Pruned, Min
<1>6. Pruned \in T /\ \A y \in T : Pruned <= y
  <2> HIDE DEF T
  <2> QED
    BY <1>4, <1>5
<1> QED
  BY <1>1, <1>6

(* Pruning always leaves room for one entry.                               *)
LEMMA KeptRoom ==
    ASSUME PendType, HasRecords, Room
    PROVE  IsFiniteSet(KeysIn(Kept)) /\ Cardinality(KeysIn(Kept)) < MaxPending
<1>1. Pruned \in Nat /\ order \in Seq(Record) /\ PruneStops(Pruned)
  BY PrunedIs DEF PendType
<1>2. IsFiniteSet(KeysIn(Kept))
  BY <1>1, WithoutType, FS_Subset DEF Kept, Room
<1>3. CASE Pruned = Len(order)
  <2>1. \A k \in Keys : Kept[k] = None
    BY <1>3 DEF Kept, Without, HasRecords, HasRecord
  <2>2. KeysIn(Kept) = {}
    BY <2>1 DEF KeysIn
  <2> QED
    BY <1>2, <2>2, FS_EmptySet, GuardAssumption
<1>4. CASE Pruned # Len(order)
  BY <1>1, <1>2, <1>4 DEF PruneStops, Kept
<1> QED
  BY <1>3, <1>4

(* What is kept has its record among the records that are kept.            *)
LEMMA KeptRecords ==
    ASSUME PendType, HasRecords
    PROVE  /\ Kept \in [Keys -> Calls \cup {None}]
           /\ KeptOrder \in Seq(Record)
           /\ \A k \in Keys : Kept[k] \in {pending[k], None}
           /\ \A k \in Keys : Kept[k] # None =>
                 \E i \in 1..Len(KeptOrder) : KeptOrder[i].key = k
<1>1. order \in Seq(Record) /\ Len(order) \in Nat
  BY DEF PendType
<1>2. Pruned \in Nat /\ Pruned <= Len(order)
  BY <1>1, PrunedIs
<1>3. /\ KeptOrder \in Seq(Record)
      /\ Len(KeptOrder) = Len(order) - Pruned
      /\ \A i \in 1..(Len(order) - Pruned) : KeptOrder[i] = order[Pruned + i]
  BY <1>1, <1>2 DEF KeptOrder
<1>4. ASSUME NEW k \in Keys, Kept[k] # None
      PROVE  \E i \in 1..Len(KeptOrder) : KeptOrder[i].key = k
  <2>1. Kept[k] = pending[k] /\ \A i \in 1..Pruned : order[i].key # k
    BY <1>4 DEF Kept, Without
  <2>2. PICK i \in 1..Len(order) : order[i].key = k
    BY <1>4, <2>1 DEF HasRecords, HasRecord
  <2>3. i - Pruned \in 1..Len(KeptOrder) /\ i = Pruned + (i - Pruned)
    BY <1>1, <1>2, <1>3, <2>1, <2>2
  <2>4. KeptOrder[i - Pruned] = order[i]
    BY <1>3, <2>3
  <2> QED
    BY <2>2, <2>3, <2>4
<1> QED
  BY <1>2, <1>3, <1>4, WithoutType DEF Kept

(* An entry is pruned when it has expired or the entries are many.         *)
LEMMA PrunedForCause ==
    ASSUME PendType, HasRecords, Room, NEW k \in Keys, pending[k] # None, Kept[k] = None
    PROVE  Cause(k)
<1>1. order \in Seq(Record) /\ Len(order) \in Nat
  BY DEF PendType
<1>2. Pruned \in Nat /\ Pruned <= Len(order)
  BY <1>1, PrunedIs
<1> DEFINE T == {i \in 1..Pruned : order[i].key = k}
<1>3. T # {} /\ \A i \in T : i \in Nat
  BY <1>2 DEF Kept, Without
<1>4. PICK i \in T : \A j \in T : i <= j
  <2> HIDE DEF T
  <2> QED
    BY <1>3, LeastNat
<1>5. /\ i \in Nat /\ i >= 1 /\ i <= Pruned /\ order[i].key = k
      /\ i - 1 \in Nat /\ i - 1 < Pruned /\ i - 1 \in 0..Len(order) /\ i - 1 + 1 = i
  BY <1>1, <1>2, <1>4
<1>6. Without(i - 1)[k] # None
  <2>1. \A j \in 1..(i - 1) : order[j].key # k
    <3>1. ASSUME NEW j \in 1..(i - 1), order[j].key = k PROVE FALSE
      <4>1. j \in T /\ ~(i <= j)
        BY <1>2, <1>5, <3>1
      <4> QED
        BY <1>4, <4>1
    <3> QED
      BY <3>1
  <2> QED
    BY <2>1 DEF Without
<1>7. ~PruneStops(i - 1)
  BY <1>1, <1>5, PrunedIs
<1>8. order[i].old \/ ~(Cardinality(KeysIn(Without(i - 1))) < MaxPending)
  BY <1>5, <1>6, <1>7 DEF PruneStops
<1>9. CASE order[i].old
  <2>1. i \in 1..Len(order) /\ order[i] \in Record
    BY <1>1, <1>2, <1>5
  <2>2. order[i] = [key |-> k, old |-> TRUE]
    BY <1>5, <1>9, <2>1 DEF Record
  <2> QED
    BY <2>1, <2>2 DEF Cause
<1>10. CASE ~(Cardinality(KeysIn(Without(i - 1))) < MaxPending)
  <2>1. KeysIn(Without(i - 1)) \subseteq KeysIn(pending)
    BY <1>5, WithoutType
  <2>2. Cardinality(KeysIn(Without(i - 1))) <= Cardinality(KeysIn(pending))
    BY <2>1, FS_Subset DEF Room
  <2>3. /\ Cardinality(KeysIn(Without(i - 1))) \in Nat
        /\ Cardinality(KeysIn(pending)) \in Nat /\ MaxPending \in Nat
    BY <2>1, FS_Subset, FS_CardinalityType, GuardAssumption DEF Room
  <2> QED
    BY <1>10, <2>2, <2>3 DEF Cause
<1> QED
  BY <1>8, <1>9, <1>10

(* _prune_pending.                                                         *)
Prune == pending' = Kept /\ order' = KeptOrder /\ missed' = missed \cup Evicted(Kept)

(* What entries are and how they may change.                               *)
Whole == PendType /\ HasRecords /\ Room

LEMMA Pruning ==
    ASSUME Whole, Prune
    PROVE  /\ Whole'
           /\ Drops(Keys)
           /\ \A d \in missed' \ missed : \E k \in Keys : d = pending[k] /\ Cause(k)
<1> USE DEF Whole, Prune
<1>1. /\ pending' \in [Keys -> Calls \cup {None}] /\ order' \in Seq(Record)
      /\ \A k \in Keys : pending'[k] \in {pending[k], None}
      /\ HasRecords'
  BY KeptRecords DEF HasRecords, HasRecord
<1>2. Room'
  BY KeptRoom, FS_CardinalityType, GuardAssumption DEF Room, KeysIn
<1>3. missed' \subseteq Calls
  BY DEF Evicted, PendType, KeysIn
<1>4. Drops(Keys)
  BY <1>1 DEF Drops, Evicted, KeysIn
<1>5. \A d \in missed' \ missed : \E k \in Keys : d = pending[k] /\ Cause(k)
  BY PrunedForCause DEF Evicted, KeysIn
<1> QED
  BY <1>1, <1>2, <1>3, <1>4, <1>5 DEF PendType

LEMMA Remembering ==
    ASSUME Whole, NEW c \in Calls, Remember(c)
    PROVE  /\ Whole'
           /\ pending'[Key(c)] = c
           /\ missed \subseteq missed'
           /\ \A k \in Keys \ {Key(c)} : \/ pending'[k] = pending[k]
                                         \/ pending'[k] = None /\ pending[k] \in missed'
           /\ pending[Key(c)] # None => pending[Key(c)] \in missed'
           /\ \A d \in missed' \ missed :
                 \E k \in Keys : d = pending[k] /\ (k = Key(c) \/ Cause(k))
<1> USE DEF Whole
<1>1. Insert(c, Pruned)
  <2>1. ~(Cardinality(KeysIn(Kept)) >= MaxPending)
    BY KeptRoom, FS_CardinalityType, GuardAssumption
  <2> QED
    BY <2>1 DEF Remember
<1> DEFINE new == [key |-> Key(c), old |-> FALSE]
<1>2. /\ pending' = [Kept EXCEPT ![Key(c)] = c]
      /\ order' = Append(KeptOrder, new)
      /\ missed' = missed \cup Evicted(Kept) \cup ({Kept[Key(c)]} \ {None})
  BY <1>1 DEF Insert, Kept, KeptOrder
<1>3. /\ Kept \in [Keys -> Calls \cup {None}] /\ KeptOrder \in Seq(Record)
      /\ \A k \in Keys : Kept[k] \in {pending[k], None}
      /\ Key(c) \in Keys /\ new \in Record
  BY KeptRecords, KeyType DEF Record
<1>4. pending' \in [Keys -> Calls \cup {None}] /\ pending'[Key(c)] = c
  BY <1>2, <1>3
<1> HIDE DEF new
<1>5. /\ order' \in Seq(Record) /\ Len(order') = Len(KeptOrder) + 1
      /\ \A i \in 1..Len(KeptOrder) : order'[i] = KeptOrder[i]
      /\ order'[Len(KeptOrder) + 1] = new /\ Len(KeptOrder) \in Nat
  BY <1>2, <1>3
<1>6. HasRecords'
  <2> SUFFICES ASSUME NEW k \in Keys, pending'[k] # None
               PROVE  \E i \in 1..Len(order') : order'[i].key = k
    BY DEF HasRecords, HasRecord
  <2>1. CASE k = Key(c)
    <3>1. order'[Len(KeptOrder) + 1].key = k /\ Len(KeptOrder) + 1 \in 1..Len(order')
      BY <1>5, <2>1 DEF new
    <3> QED
      BY <3>1
  <2>2. CASE k # Key(c)
    <3>1. Kept[k] # None
      BY <1>2, <1>3, <2>2
    <3>2. PICK i \in 1..Len(KeptOrder) : KeptOrder[i].key = k
      BY <3>1, KeptRecords
    <3>3. i \in 1..Len(order') /\ order'[i].key = k
      BY <1>5, <3>2
    <3> QED
      BY <3>3
  <2> QED
    BY <2>1, <2>2
<1>7. Room'
  <2>1. KeysIn(pending)' = KeysIn(Kept) \cup {Key(c)}
    BY <1>2, <1>3, GuardAssumption DEF KeysIn
  <2>2. IsFiniteSet(KeysIn(Kept)) /\ Cardinality(KeysIn(Kept)) < MaxPending
    BY KeptRoom
  <2>3. IsFiniteSet(KeysIn(Kept) \cup {Key(c)})
    BY <2>2, FS_AddElement
  <2>4. Cardinality(KeysIn(Kept) \cup {Key(c)}) \in {Cardinality(KeysIn(Kept)), Cardinality(KeysIn(Kept)) + 1}
    BY <2>2, FS_AddElement
  <2> QED
    BY <2>1, <2>2, <2>3, <2>4, FS_CardinalityType, GuardAssumption DEF Room
<1>8. missed' \subseteq Calls
  BY <1>2, <1>3 DEF Evicted, PendType, KeysIn
<1>9. \A k \in Keys : pending[k] # None => Kept[k] = pending[k] \/ pending[k] \in missed'
  BY <1>2, <1>3 DEF Evicted, KeysIn
<1>10. \A k \in Keys \ {Key(c)} : \/ pending'[k] = pending[k]
                                  \/ pending'[k] = None /\ pending[k] \in missed'
  BY <1>2, <1>3, <1>9
<1>11. pending[Key(c)] # None => pending[Key(c)] \in missed'
  BY <1>2, <1>3, <1>9
<1>12. \A d \in missed' \ missed : \E k \in Keys : d = pending[k] /\ (k = Key(c) \/ Cause(k))
  <2> TAKE d \in missed' \ missed
  <2>1. CASE d \in Evicted(Kept)
    BY <2>1, PrunedForCause DEF Evicted, KeysIn
  <2>2. CASE d \in {Kept[Key(c)]} \ {None}
    BY <1>3, <2>2
  <2> QED
    BY <1>2, <2>1, <2>2
<1> QED
  BY <1>2, <1>4, <1>5, <1>6, <1>7, <1>8, <1>10, <1>11, <1>12 DEF PendType

LEMMA Popping ==
    ASSUME Whole, NEW key, Pop(key)
    PROVE  /\ Whole'
           /\ missed' = missed
           /\ \A k \in Keys : pending'[k] = IF k = key THEN None ELSE pending[k]
<1> USE DEF Whole
<1>1. /\ pending' = [k \in Keys |-> IF k = key THEN None ELSE pending[k]]
      /\ missed' = missed
  BY DEF Pop
<1>2. pending' \in [Keys -> Calls \cup {None}]
  BY <1>1 DEF PendType
<1>3. order' \in Seq(Record) /\ HasRecords'
  <2>1. CASE Held(key) = None
    BY <1>1, <2>1 DEF Pop, PendType, HasRecords, HasRecord
  <2>2. CASE Held(key) # None
    <3> DEFINE S == {i \in 1..Len(order) : order[i].key # key}
    <3>1. order' = Subsequence(order, S) /\ S \in SUBSET (1..Len(order)) /\ order \in Seq(Record)
      BY <2>2 DEF Pop, PendType
    <3>2. order' \in Seq(Record) /\ \A i \in S : \E n \in 1..Len(order') : order'[n] = order[i]
      <4> HIDE DEF S
      <4> QED
        BY <3>1, SubsequenceKept
    <3>3. ASSUME NEW k \in Keys, pending'[k] # None
          PROVE  \E n \in 1..Len(order') : order'[n].key = k
      <4>1. k # key /\ pending[k] # None
        BY <1>1, <3>3
      <4>2. PICK i \in 1..Len(order) : order[i].key = k
        BY <4>1 DEF HasRecords, HasRecord
      <4> QED
        BY <3>2, <4>1, <4>2
    <3> QED
      BY <3>2, <3>3 DEF HasRecords, HasRecord
  <2> QED
    BY <2>1, <2>2
<1>4. Room'
  <2>1. KeysIn(pending)' \subseteq KeysIn(pending)
    BY <1>1 DEF KeysIn
  <2>2. IsFiniteSet(KeysIn(pending)) /\ Cardinality(KeysIn(pending)) <= MaxPending
    BY DEF Room
  <2>3. /\ IsFiniteSet(KeysIn(pending)') /\ Cardinality(KeysIn(pending)') <= Cardinality(KeysIn(pending))
        /\ Cardinality(KeysIn(pending)') \in Nat /\ Cardinality(KeysIn(pending)) \in Nat
    BY <2>1, <2>2, FS_Subset, FS_CardinalityType
  <2> QED
    BY <2>2, <2>3, GuardAssumption DEF Room
<1> QED
  BY <1>1, <1>2, <1>3, <1>4 DEF PendType

-----------------------------------------------------------------------------
(* What the handlers do to the other variables.                            *)

LEMMA Reporting ==
    ASSUME TypeOK, NEW c \in Calls, NEW key \in Keys \cup {"unknown"},
           NEW status \in {"blocked", "ran"}, NEW trace \in Calls \cup {None},
           Report(c, key, status, trace)
    PROVE  /\ outcome' \in [Calls -> Outcome \cup {None}]
           /\ \A d \in Calls \ {c} : outcome'[d] = outcome[d]
           /\ mode # "remote" => outcome' = outcome
           /\ mode = "remote" => /\ outcome'[c] # None /\ outcome'[c].key = key
                                 /\ outcome'[c].status = status /\ outcome'[c].trace = trace
<1> DEFINE o == [key |-> key, status |-> status, trace |-> trace]
<1>1. o \in Outcome /\ o # None /\ o.key = key /\ o.status = status /\ o.trace = trace
  BY GuardAssumption DEF Outcome
<1>2. outcome' = IF mode = "remote" THEN [outcome EXCEPT ![c] = o] ELSE outcome
  BY DEF Report
<1> HIDE DEF o
<1> QED
  BY <1>1, <1>2 DEF TypeOK

(* The outcome reported at the end of a call, and under which key.         *)
EndKey(c) == IF Anonymous(c) THEN found[c] ELSE Key(c)

LEMMA Finishing ==
    ASSUME Inv, NEW c \in Calls, Finish(c)
    PROVE  /\ Pop(EndKey(c)) /\ EndKey(c) \in Keys \cup {"unknown"}
           /\ Held(EndKey(c)) \in Calls \cup {None}
           /\ Report(c, EndKey(c), "ran", Held(EndKey(c)))
           /\ stage' = [stage EXCEPT ![c] = "done"] /\ found' = [found EXCEPT ![c] = None]
           /\ UNCHANGED <<mode, trusted, live, judged, used>>
           /\ \/ stage[c] = "matched" /\ Anonymous(c)
              \/ stage[c] = "running" /\ ~Anonymous(c)
<1>1. EndKey(c) \in Keys \cup {"unknown"}
  BY KeyType DEF Finish, EndKey, At, Inv, TypeOK
<1>2. Held(EndKey(c)) \in Calls \cup {None}
  BY DEF Held, Inv, TypeOK
<1>3. CASE Anonymous(c)
  BY <1>1, <1>2, <1>3 DEF Finish, EndKey, Goto, At
<1>4. CASE ~Anonymous(c)
  BY <1>1, <1>2, <1>4 DEF Finish, EndKey, Goto, At
<1> QED
  BY <1>3, <1>4

LEMMA Withholding ==
    ASSUME TypeOK, NEW c \in Calls, Withhold(c)
    PROVE  /\ Key(c) \in Keys /\ Held(Key(c)) = pending[Key(c)]
           /\ pending[Key(c)] \in Calls \cup {None}
BY KeyType DEF Held, TypeOK

(* A match is an entry that is kept, for the same action.                  *)
LEMMA Matching ==
    ASSUME Inv, NEW c \in Calls, Match(c)
    PROVE  /\ Prune
           /\ stage' = [stage EXCEPT ![c] = "matched"] /\ stage[c] = "running" /\ Anonymous(c)
           /\ UNCHANGED <<mode, trusted, live, judged, used, outcome>>
           /\ found' \in [Calls -> Keys \cup {None, "unknown"}]
           /\ \A d \in Calls \ {c} : found'[d] = found[d]
           /\ \/ /\ found'[c] = "unknown"
                 /\ \A k \in Keys : Kept[k] # None => Action[Kept[k]] # Action[c]
              \/ /\ found'[c] \in Keys /\ Kept[found'[c]] # None
                 /\ Action[Kept[found'[c]]] = Action[c]
<1> DEFINE hits == {i \in 1..Len(KeptOrder) :
                      LET entry == Kept[KeptOrder[i].key]
                      IN entry # None /\ Action[entry] = Action[c]}
           first == Min(hits)
<1>1. PendType /\ HasRecords
  BY DEF Inv, TypeOK, PendType
<1>2. KeptOrder \in Seq(Record) /\ \A k \in Keys : Kept[k] # None =>
         \E i \in 1..Len(KeptOrder) : KeptOrder[i].key = k
  BY <1>1, KeptRecords
<1>3. found' = [found EXCEPT ![c] = IF hits = {} THEN "unknown" ELSE KeptOrder[first].key]
  BY DEF Match
<1>4. hits \subseteq Nat /\ Len(KeptOrder) \in Nat
  BY <1>2
<1>5. hits # {} => first \in hits
  <2> SUFFICES ASSUME hits # {} PROVE first \in hits
    OBVIOUS
  <2>1. \E x \in hits : \A y \in hits : x <= y
    <3> HIDE DEF hits
    <3> QED
      BY <1>4, LeastNat
  <2>2. first = CHOOSE x \in hits : \A y \in hits : x <= y
    BY DEF Min
  <2> HIDE DEF hits, first
  <2> QED
    BY <2>1, <2>2
<1>6. hits # {} => /\ first \in 1..Len(KeptOrder)
                   /\ Kept[KeptOrder[first].key] # None
                   /\ Action[Kept[KeptOrder[first].key]] = Action[c]
  <2> HIDE DEF first
  <2> QED
    BY <1>5
<1>7. hits # {} => KeptOrder[first].key \in Keys
  <2>1. hits # {} => KeptOrder[first] \in Record
    <3> HIDE DEF hits, first
    <3> QED
      BY <1>2, <1>6
  <2> HIDE DEF hits, first
  <2> QED
    BY <2>1 DEF Record
<1>8. hits = {} => \A k \in Keys : Kept[k] # None => Action[Kept[k]] # Action[c]
  BY <1>2
<1> HIDE DEF hits, first
<1>9. /\ found \in [Calls -> Keys \cup {None, "unknown"}]
      /\ found' \in [Calls -> Keys \cup {None, "unknown"}]
      /\ \A d \in Calls \ {c} : found'[d] = found[d]
      /\ found'[c] = IF hits = {} THEN "unknown" ELSE KeptOrder[first].key
  BY <1>3, <1>7 DEF Inv, TypeOK
<1> QED
  BY <1>6, <1>7, <1>8, <1>9 DEF Match, Prune, Goto, At

LEMMA TypeGivesPend == ASSUME Inv PROVE Whole
BY DEF Inv, TypeOK, Whole, PendType

(* The entries, for every step.                                            *)
LEMMA WholeKept ==
    ASSUME Inv, [Next]_vars PROVE Whole'
<1>1. Whole
  BY TypeGivesPend
<1>2. ASSUME NEW c \in Calls, Before(c) PROVE Whole'
  <2>1. CASE Remember(c)
    BY <1>1, <2>1, Remembering
  <2>2. CASE UNCHANGED pendingVars
    BY <1>1, <2>2 DEF pendingVars, Whole, PendType, HasRecords, HasRecord, Room, KeysIn
  <2> QED
    BY <1>2, <2>1, <2>2 DEF Before
<1>3. ASSUME NEW c \in Calls, Allow(c) PROVE Whole'
  BY <1>1, <1>3, Remembering DEF Allow
<1>4. ASSUME NEW c \in Calls, Withhold(c) PROVE Whole'
  BY <1>1, <1>4, Popping DEF Withhold
<1>5. ASSUME NEW c \in Calls, Match(c) PROVE Whole'
  BY <1>1, <1>5, Matching, Pruning
<1>6. ASSUME NEW c \in Calls, Finish(c) PROVE Whole'
  BY <1>1, <1>6, Finishing, Popping
<1>7. CASE Expire
  <2>1. PICK i \in 1..Len(order) : order' = [order EXCEPT ![i].old = TRUE]
    BY <1>7 DEF Expire
  <2>2. order \in Seq(Record) /\ order[i] \in Record
    BY <1>1 DEF Whole, PendType
  <2>3. [order[i] EXCEPT !.old = TRUE] \in Record /\ [order[i] EXCEPT !.old = TRUE].key = order[i].key
    BY <2>2 DEF Record
  <2>4. order' = [order EXCEPT ![i] = [order[i] EXCEPT !.old = TRUE]]
    BY <2>1
  <2>5. order' \in Seq(Record) /\ Len(order') = Len(order)
        /\ \A j \in 1..Len(order) : order'[j].key = order[j].key
    BY <2>2, <2>3, <2>4
  <2>6. pending' = pending /\ missed' = missed
    BY <1>7 DEF Expire
  <2> QED
    BY <1>1, <2>5, <2>6 DEF Whole, PendType, HasRecords, HasRecord, Room, KeysIn
<1>8. CASE UNCHANGED pendingVars
  BY <1>1, <1>8 DEF pendingVars, Whole, PendType, HasRecords, HasRecord, Room, KeysIn
<1> QED
  BY <1>2, <1>3, <1>4, <1>5, <1>6, <1>7, <1>8
     DEF Next, Step, Deny, Run, Change, vars

-----------------------------------------------------------------------------
(* Every step keeps the invariant.                                         *)

LEMMA InitInv == Init => Inv
<1> SUFFICES ASSUME Init PROVE Inv
  OBVIOUS
<1>1. KeysIn(pending) = {}
  BY DEF Init, KeysIn
<1>2. Room
  BY <1>1, FS_EmptySet, GuardAssumption DEF Room
<1>3. TypeOK
  BY GuardAssumption DEF Init, TypeOK, Stages, Arguments, Record
<1>4. Owned /\ HasRecords
  BY DEF Init, Owned, HasRecords
<1>5. Matches /\ Reported /\ OwnKept /\ FoundKept /\ TraceTrue /\ TraceKept
  BY DEF Init, Matches, Reported, OwnKept, FoundKept, TraceTrue, TraceKept
<1>6. Judged
  BY DEF Init, Judged
<1> QED
  BY <1>2, <1>3, <1>4, <1>5, <1>6 DEF Inv

LEMMA TypeKept ==
    ASSUME Inv, [Next]_vars PROVE TypeOK'
<1> USE DEF TypeOK, Stages
<1>1. /\ pending' \in [Keys -> Calls \cup {None}] /\ order' \in Seq(Record)
      /\ missed' \subseteq Calls
  BY WholeKept DEF Whole, PendType
<1>2. TypeOK
  BY DEF Inv
<1>3. ASSUME NEW c \in Calls, Before(c) PROVE TypeOK'
  <2>1. CASE RefuseReported(c)
    <3>1. Report(c, Key(c), "blocked", None)
      BY <1>3, <2>1 DEF RefuseReported, Before, At
    <3>2. outcome' \in [Calls -> Outcome \cup {None}]
      BY <1>2, <3>1, KeyType, Reporting
    <3> QED
      BY <1>1, <1>2, <1>3, <2>1, <3>2 DEF Before, RefuseReported, Refuse, Goto, At
  <2>2. CASE ~RefuseReported(c)
    <3>1. /\ found' = found /\ outcome' = outcome
          /\ \E s \in {"allowed", "refused", "evaluating"} : stage' = [stage EXCEPT ![c] = s]
      BY <1>3, <2>2 DEF Before, RefuseSilently, Refuse, Goto, reportVars
    <3>2. judged' \in [Calls -> Arguments \cup {None}] /\ UNCHANGED <<mode, trusted, live, used>>
      BY <1>2, <1>3 DEF Before
    <3>3. stage' \in [Calls -> Stages]
      BY <1>2, <3>1
    <3>4. \A d \in Calls : found'[d] # None <=> stage'[d] = "matched"
      BY <1>2, <1>3, <3>1 DEF Before, At
    <3> QED
      BY <1>1, <1>2, <3>1, <3>2, <3>3, <3>4
  <2> QED
    BY <2>1, <2>2
<1>4. ASSUME NEW c \in Calls, Allow(c) PROVE TypeOK'
  BY <1>1, <1>2, <1>4 DEF Allow, Goto, At, reportVars
<1>5. ASSUME NEW c \in Calls, Deny(c) PROVE TypeOK'
  <2>1. outcome' \in [Calls -> Outcome \cup {None}]
    <3>1. CASE RefuseReported(c)
      <4>1. Report(c, Key(c), "blocked", c)
        BY <1>5, <3>1 DEF Deny, RefuseReported, At
      <4> QED
        BY <1>2, <4>1, KeyType, Reporting
    <3>2. CASE RefuseSilently(c)
      BY <1>2, <3>2 DEF RefuseSilently
    <3> QED
      BY <1>5, <3>1, <3>2 DEF Deny
  <2> QED
    BY <1>1, <1>2, <1>5, <2>1 DEF Deny, RefuseReported, RefuseSilently, Refuse, Goto, At
<1>6. ASSUME NEW c \in Calls, Withhold(c) PROVE TypeOK'
  <2>1. outcome' \in [Calls -> Outcome \cup {None}]
    BY <1>2, <1>6, Withholding, Reporting DEF Withhold
  <2> QED
    BY <1>1, <1>2, <1>6, <2>1 DEF Withhold, Goto, At
<1>7. ASSUME NEW c \in Calls, Run(c) PROVE TypeOK'
  <2>1. judged[c] \in Arguments
    BY <1>7 DEF Inv, Judged, Run, At
  <2> QED
    BY <1>1, <1>2, <1>7, <2>1 DEF Run, Goto, At, reportVars
<1>8. ASSUME NEW c \in Calls, Match(c) PROVE TypeOK'
  <2>1. found'[c] # None
    BY <1>8, Matching, GuardAssumption, KeyType DEF Keys, Key
  <2> QED
    BY <1>1, <1>2, <1>8, <2>1, Matching
<1>9. ASSUME NEW c \in Calls, Finish(c) PROVE TypeOK'
  <2>1. outcome' \in [Calls -> Outcome \cup {None}]
    BY <1>2, <1>9, Finishing, Reporting
  <2>2. /\ stage' = [stage EXCEPT ![c] = "done"] /\ found' = [found EXCEPT ![c] = None]
        /\ UNCHANGED <<mode, trusted, live, judged, used>>
    BY <1>9, Finishing
  <2> QED
    BY <1>1, <1>2, <2>1, <2>2
<1>10. ASSUME NEW c \in Calls, Change(c) PROVE TypeOK'
  BY <1>1, <1>2, <1>10 DEF Change, Arguments, reportVars
<1>11. CASE Expire
  BY <1>1, <1>2, <1>11 DEF Expire, callVars, reportVars
<1>12. CASE UNCHANGED vars
  BY <1>1, <1>2, <1>12 DEF vars, callVars, reportVars
<1> QED
  BY <1>3, <1>4, <1>5, <1>6, <1>7, <1>8, <1>9, <1>10, <1>11, <1>12 DEF Next, Step

(* Where the calls are, what was reported and what was missed stays true.  *)
LEMMA Stays ==
    ASSUME Inv, [Next]_vars
    PROVE  /\ mode' = mode /\ trusted' = trusted
           /\ \A c \in Calls : Decided(c) => Decided(c)'
           /\ \A c \in Calls : stage[c] \in {"refused", "done"} =>
                 stage'[c] = stage[c] /\ outcome'[c] = outcome[c]
           /\ \A c \in Calls : outcome[c] # None => outcome'[c] = outcome[c]
           /\ missed \subseteq missed'
<1> USE DEF Decided
<1>1. TypeOK /\ Whole /\ Reported
  BY TypeGivesPend DEF Inv
<1> DEFINE P == /\ \A c \in Calls : Decided(c) => Decided(c)'
                /\ \A c \in Calls : stage[c] \in {"refused", "done"} =>
                      stage'[c] = stage[c] /\ outcome'[c] = outcome[c]
                /\ missed \subseteq missed'
<1>2. P
  <2>1. ASSUME NEW c \in Calls, Before(c) PROVE P
    <3>1. missed \subseteq missed'
      BY <1>1, <2>1, Remembering DEF Before, pendingVars
    <3>2. \A d \in Calls \ {c} : outcome'[d] = outcome[d]
      BY <1>1, <2>1 DEF Before, RefuseReported, RefuseSilently, Report, reportVars, TypeOK
    <3> QED
      BY <1>1, <2>1, <3>1, <3>2
         DEF Before, RefuseReported, RefuseSilently, Refuse, Goto, At, TypeOK
  <2>2. ASSUME NEW c \in Calls, Allow(c) PROVE P
    BY <1>1, <2>2, Remembering DEF Allow, Goto, At, reportVars, TypeOK
  <2>3. ASSUME NEW c \in Calls, Deny(c) PROVE P
    BY <1>1, <2>3
       DEF Deny, RefuseReported, RefuseSilently, Refuse, Report, Goto, At, pendingVars, TypeOK
  <2>4. ASSUME NEW c \in Calls, Withhold(c) PROVE P
    <3>1. missed' = missed
      BY <1>1, <2>4, Popping DEF Withhold
    <3>2. \A d \in Calls \ {c} : outcome'[d] = outcome[d]
      BY <1>1, <2>4, Withholding, Reporting DEF Withhold
    <3> QED
      BY <1>1, <2>4, <3>1, <3>2 DEF Withhold, Goto, At, TypeOK
  <2>5. ASSUME NEW c \in Calls, Run(c) PROVE P
    BY <1>1, <2>5 DEF Run, Goto, At, pendingVars, reportVars, TypeOK
  <2>6. ASSUME NEW c \in Calls, Match(c) PROVE P
    <3>1. missed \subseteq missed'
      BY <2>6, Matching DEF Prune
    <3> QED
      BY <1>1, <2>6, <3>1, Matching DEF TypeOK
  <2>7. ASSUME NEW c \in Calls, Finish(c) PROVE P
    <3>1. missed' = missed
      BY <1>1, <2>7, Finishing, Popping
    <3>2. \A d \in Calls \ {c} : outcome'[d] = outcome[d]
      BY <1>1, <2>7, Finishing, Reporting
    <3> QED
      BY <1>1, <2>7, <3>1, <3>2, Finishing DEF TypeOK
  <2>8. CASE (\E c \in Calls : Change(c)) \/ Expire \/ UNCHANGED vars
    BY <2>8 DEF Change, Expire, vars, callVars, pendingVars, reportVars
  <2> QED
    BY <2>1, <2>2, <2>3, <2>4, <2>5, <2>6, <2>7, <2>8 DEF Next, Step
<1>3. mode' = mode /\ trusted' = trusted
  <2>1. ASSUME NEW c \in Calls, Finish(c) PROVE mode' = mode /\ trusted' = trusted
    BY <2>1 DEF Finish
  <2> QED
    BY <2>1 DEF Next, Step, Before, Allow, Deny, Withhold, Run, Match, Change, Expire, vars
<1> QED
  BY <1>1, <1>2, <1>3 DEF Reported

(* What is missed or taken stays so.                                       *)
LEMMA GoneStays ==
    ASSUME Inv, [Next]_vars, NEW c \in Calls
    PROVE  /\ Gone(c) => Gone(c)'
           /\ \A k : KeyGone(c, k) => KeyGone(c, k)'
BY Stays DEF Gone, Taken, KeyGone

(* An entry that a step removes is missed or its trace is reported.        *)
Ended(d) == stage'[d] \in {"refused", "done"}

LEMMA Leaves ==
    ASSUME Inv, [Next]_vars, mode = "remote", NEW k \in Keys, pending[k] # None
    PROVE  \/ pending'[k] = pending[k]
           \/ pending[k] \in missed'
           \/ \E d \in Calls : /\ Ended(d) /\ outcome'[d] # None
                               /\ outcome'[d].trace = pending[k] /\ outcome'[d].key = k
<1>1. Whole /\ TypeOK /\ pending[k] \in Calls
  BY TypeGivesPend DEF Inv, TypeOK
<1> DEFINE P == \/ pending'[k] = pending[k]
                \/ pending[k] \in missed'
                \/ \E d \in Calls : /\ Ended(d) /\ outcome'[d] # None
                                    /\ outcome'[d].trace = pending[k] /\ outcome'[d].key = k
<1>2. ASSUME NEW c \in Calls, Remember(c) PROVE P
  BY <1>1, <1>2, Remembering
<1>3. ASSUME NEW c \in Calls, Withhold(c) PROVE P
  <2>1. CASE k = Key(c)
    <3>1. outcome'[c] # None /\ outcome'[c].trace = pending[k] /\ outcome'[c].key = k
      BY <1>1, <1>3, <2>1, Withholding, Reporting DEF Withhold
    <3>2. Ended(c)
      BY <1>1, <1>3 DEF Ended, Withhold, Goto, TypeOK
    <3> QED
      BY <3>1, <3>2
  <2>2. CASE k # Key(c)
    BY <1>1, <1>3, <2>2, Popping DEF Withhold
  <2> QED
    BY <2>1, <2>2
<1>4. ASSUME NEW c \in Calls, Match(c) PROVE P
  BY <1>1, <1>4, Matching, Pruning DEF Drops
<1>5. ASSUME NEW c \in Calls, Finish(c) PROVE P
  <2>1. CASE k = EndKey(c)
    <3>1. Held(EndKey(c)) = pending[k]
      BY <2>1 DEF Held
    <3>2. outcome'[c] # None /\ outcome'[c].trace = pending[k] /\ outcome'[c].key = k
      BY <1>1, <1>5, <2>1, <3>1, Finishing, Reporting
    <3>3. Ended(c)
      BY <1>1, <1>5, Finishing DEF Ended, TypeOK
    <3> QED
      BY <3>2, <3>3
  <2>2. CASE k # EndKey(c)
    BY <1>1, <1>5, <2>2, Finishing, Popping
  <2> QED
    BY <2>1, <2>2
<1>6. CASE pending' = pending
  BY <1>6
<1>7. \/ \E c \in Calls : Remember(c) \/ Withhold(c) \/ Match(c) \/ Finish(c)
      \/ pending' = pending
  BY DEF Next, Step, Before, Allow, Deny, Run, Change, Expire, vars, pendingVars
<1>8. CASE \E c \in Calls : Remember(c) \/ Withhold(c) \/ Match(c) \/ Finish(c)
  <2>1. PICK c \in Calls : Remember(c) \/ Withhold(c) \/ Match(c) \/ Finish(c)
    BY <1>8
  <2> QED
    BY <1>2, <1>3, <1>4, <1>5, <2>1
<1> QED
  BY <1>6, <1>7, <1>8

LEMMA OwnedKept ==
    ASSUME Inv, [Next]_vars PROVE Owned'
<1>1. Whole /\ Owned /\ \A c \in Calls : Decided(c) => Decided(c)'
  BY TypeGivesPend, Stays DEF Inv
<1> SUFFICES ASSUME NEW k \in Keys, pending'[k] # None
             PROVE  Key(pending'[k]) = k /\ stage'[pending'[k]] \notin {"idle", "evaluating"}
  BY DEF Owned, Decided
<1>2. CASE pending'[k] = pending[k]
  BY <1>1, <1>2 DEF Owned, Decided, Whole, PendType
<1>3. CASE pending'[k] # pending[k]
  <2>1. ASSUME NEW c \in Calls, Remember(c) PROVE k = Key(c) /\ pending'[k] = c
    BY <1>1, <1>3, <2>1, Remembering
  <2>2. ASSUME NEW c \in Calls, Withhold(c) PROVE FALSE
    BY <1>1, <1>3, <2>2, Popping DEF Withhold
  <2>3. ASSUME NEW c \in Calls, Match(c) PROVE FALSE
    BY <1>1, <1>3, <2>3, Matching, Pruning DEF Drops
  <2>4. ASSUME NEW c \in Calls, Finish(c) PROVE FALSE
    BY <1>1, <1>3, <2>4, Finishing, Popping
  <2>5. PICK c \in Calls : Remember(c) /\ stage' = [stage EXCEPT ![c] = "allowed"]
    BY <1>3, <2>2, <2>3, <2>4
       DEF Next, Step, Before, Allow, Deny, Run, Change, Expire, vars, pendingVars, Goto
  <2>6. stage'[c] = "allowed"
    BY <2>5 DEF Inv, TypeOK
  <2> QED
    BY <2>1, <2>5, <2>6
<1> QED
  BY <1>2, <1>3

LEMMA MatchesKept ==
    ASSUME Inv, [Next]_vars PROVE Matches'
<1>1. TypeOK /\ Whole /\ Owned /\ Matches
  BY TypeGivesPend DEF Inv
<1>2. \A c \in Calls : Decided(c) => Decided(c)'
  BY Stays
<1> SUFFICES ASSUME NEW c \in Calls, found'[c] # None
             PROVE  /\ Anonymous(c)
                    /\ \/ found'[c] = "unknown"
                       \/ \E d \in Calls : Decided(d)' /\ Key(d) = found'[c] /\ Action[d] = Action[c]
  BY DEF Matches
<1>3. CASE found'[c] = found[c]
  BY <1>1, <1>2, <1>3 DEF Matches
<1>4. CASE found'[c] # found[c]
  <2>1. ASSUME NEW e \in Calls, Finish(e) PROVE FALSE
    BY <1>1, <1>4, <2>1, Finishing DEF TypeOK
  <2>2. Match(c)
    <3>1. ASSUME NEW e \in Calls, Match(e) PROVE e = c
      BY <1>4, <3>1, Matching
    <3> QED
      BY <1>4, <2>1, <3>1
         DEF Next, Step, Before, Allow, Deny, Withhold, Run, Change, Expire, vars, reportVars,
             RefuseReported, RefuseSilently, Refuse
  <2>3. CASE found'[c] = "unknown"
    BY <2>2, <2>3, Matching
  <2>4. CASE found'[c] # "unknown"
    <3>1. /\ Anonymous(c) /\ found'[c] \in Keys /\ Kept[found'[c]] # None
          /\ Action[Kept[found'[c]]] = Action[c]
      BY <2>2, <2>4, Matching
    <3>2. Kept[found'[c]] = pending[found'[c]]
      BY <1>1, <3>1, KeptRecords DEF Whole
    <3>3. /\ pending[found'[c]] \in Calls /\ Key(pending[found'[c]]) = found'[c]
          /\ Decided(pending[found'[c]])
      BY <1>1, <3>1, <3>2 DEF Owned, TypeOK
    <3> QED
      BY <1>2, <3>1, <3>2, <3>3
  <2> QED
    BY <2>3, <2>4
<1> QED
  BY <1>3, <1>4

LEMMA ReportedKept ==
    ASSUME Inv, [Next]_vars PROVE Reported'
<1>1. TypeOK /\ Whole /\ Reported
  BY TypeGivesPend DEF Inv
<1> SUFFICES ASSUME NEW c \in Calls, outcome'[c] # None
             PROVE  mode' = "remote" /\ stage'[c] \in {"refused", "done"}
  BY DEF Reported
<1>2. CASE outcome[c] # None
  BY <1>1, <1>2, Stays DEF Reported
<1>3. CASE outcome[c] = None
  <2>1. ASSUME NEW e \in Calls, Before(e) \/ Deny(e)
        PROVE  mode = "remote" /\ stage'[c] \in {"refused", "done"}
    BY <1>1, <1>3, <2>1 DEF Before, Deny, RefuseReported, RefuseSilently, Refuse, Report, Goto, TypeOK,
                            reportVars
  <2>2. ASSUME NEW e \in Calls, Withhold(e)
        PROVE  mode = "remote" /\ stage'[c] \in {"refused", "done"}
    <3>1. Report(e, Key(e), "blocked", Held(Key(e)))
      BY <2>2 DEF Withhold
    <3>2. mode = "remote" /\ c = e
      <4>1. Key(e) \in Keys /\ Held(Key(e)) \in Calls \cup {None}
        BY <1>1, <2>2, Withholding
      <4> QED
        BY <1>1, <1>3, <3>1, <4>1, Reporting
    <3>3. stage' = [stage EXCEPT ![e] = "refused"]
      BY <2>2 DEF Withhold, Goto
    <3> QED
      BY <1>1, <3>2, <3>3 DEF TypeOK
  <2>3. ASSUME NEW e \in Calls, Finish(e)
        PROVE  mode = "remote" /\ stage'[c] \in {"refused", "done"}
    <3>1. mode = "remote" /\ c = e
      BY <1>1, <1>3, <2>3, Finishing, Reporting
    <3> QED
      BY <1>1, <2>3, <3>1, Finishing DEF TypeOK
  <2>4. mode = "remote" /\ stage'[c] \in {"refused", "done"}
    <3>1. outcome' # outcome
      BY <1>3
    <3> QED
      BY <2>1, <2>2, <2>3, <3>1
         DEF Next, Step, Allow, Run, Match, Change, Expire, vars, reportVars
  <2> QED
    BY <2>4, Stays
<1> QED
  BY <1>2, <1>3

LEMMA OwnKeptKept ==
    ASSUME Inv, [Next]_vars PROVE OwnKept'
<1>1. TypeOK /\ Whole /\ OwnKept /\ mode' = mode
  BY TypeGivesPend, Stays DEF Inv
<1> SUFFICES ASSUME mode = "remote", NEW c \in Calls, stage'[c] \in {"allowed", "running"}
             PROVE  pending'[Key(c)] = c \/ Gone(c)'
  BY <1>1 DEF OwnKept
<1>2. CASE stage[c] \in {"allowed", "running"}
  <2>1. CASE pending[Key(c)] = c
    <3>1. Key(c) \in Keys /\ c # None
      BY KeyType, GuardAssumption
    <3>2. \/ pending'[Key(c)] = c
          \/ c \in missed'
          \/ \E d \in Calls : Ended(d) /\ outcome'[d] # None /\ outcome'[d].trace = c
      BY <2>1, <3>1, Leaves
    <3>3. ~Ended(c)
      BY DEF Ended
    <3> QED
      BY <3>2, <3>3 DEF Gone, Taken
  <2>2. CASE Gone(c)
    BY <2>2, GoneStays
  <2> QED
    BY <1>1, <1>2, <2>1, <2>2 DEF OwnKept
<1>3. CASE stage[c] \notin {"allowed", "running"}
  <2>1. ASSUME NEW e \in Calls, Match(e) PROVE FALSE
    BY <1>1, <1>3, <2>1, Matching DEF TypeOK
  <2>2. ASSUME NEW e \in Calls, Finish(e) PROVE FALSE
    BY <1>1, <1>3, <2>2, Finishing DEF TypeOK
  <2>3. ASSUME NEW e \in Calls, Before(e) PROVE FALSE
    BY <1>1, <1>3, <2>3
       DEF Before, RefuseReported, RefuseSilently, Refuse, Goto, At, TypeOK
  <2>4. ASSUME NEW e \in Calls, Deny(e) \/ Withhold(e) \/ Run(e) PROVE FALSE
    BY <1>1, <1>3, <2>4
       DEF Deny, Withhold, Run, RefuseReported, RefuseSilently, Refuse, Goto, At, TypeOK
  <2>5. Remember(c)
    <3>1. PICK e \in Calls : Allow(e)
      BY <1>3, <2>1, <2>2, <2>3, <2>4
         DEF Next, Step, Change, Expire, vars, callVars
    <3>2. e = c
      BY <1>1, <1>3, <3>1 DEF Allow, Goto, TypeOK
    <3> QED
      BY <3>1, <3>2 DEF Allow
  <2> QED
    BY <1>1, <2>5, Remembering
<1> QED
  BY <1>2, <1>3

LEMMA FoundKeptKept ==
    ASSUME Inv, [Next]_vars PROVE FoundKept'
<1>1. TypeOK /\ Whole /\ OwnKept /\ FoundKept /\ Owned /\ mode' = mode
  BY TypeGivesPend, Stays DEF Inv
<1> SUFFICES ASSUME mode = "remote", NEW c \in Calls, stage'[c] = "matched"
             PROVE  Gone(c)' \/ Held(found[c])' # None \/ KeyGone(c, found[c])'
  BY <1>1 DEF FoundKept
<1>2. CASE stage[c] = "matched"
  <2>1. found'[c] = found[c]
    <3>1. ASSUME NEW e \in Calls, Match(e) PROVE found'[c] = found[c]
      BY <1>2, <3>1, Matching
    <3>2. ASSUME NEW e \in Calls, Finish(e) PROVE found'[c] = found[c]
      BY <1>1, <1>2, <3>2, Finishing DEF TypeOK
    <3> QED
      BY <3>1, <3>2 DEF Next, Step, Before, Allow, Deny, Withhold, Run, Change, Expire, vars,
                        reportVars, RefuseReported, RefuseSilently, Refuse
  <2>2. CASE Gone(c)
    BY <2>2, GoneStays
  <2>3. CASE KeyGone(c, found[c])
    <3>1. KeyGone(c, found[c])'
      BY <2>1, <2>3, Stays DEF KeyGone
    <3> QED
      BY <3>1
  <2>4. CASE Held(found[c]) # None
    <3> DEFINE k == found[c]
    <3>1. k \in Keys /\ pending[k] # None /\ Key(pending[k]) = k
      BY <1>1, <2>4 DEF Held, Owned
    <3>2. CASE pending'[k] = pending[k]
      BY <2>1, <3>1, <3>2 DEF Held
    <3>3. CASE pending[k] \in missed'
      BY <2>1, <3>1, <3>3 DEF KeyGone
    <3>4. ASSUME NEW d \in Calls, Ended(d), outcome'[d] # None, outcome'[d].key = k
          PROVE  KeyGone(c, found[c])'
      BY <2>1, <3>4 DEF KeyGone, Ended
    <3> QED
      BY <3>1, <3>2, <3>3, <3>4, Leaves
  <2> QED
    BY <1>1, <1>2, <2>2, <2>3, <2>4 DEF FoundKept
<1>3. CASE stage[c] # "matched"
  <2>1. ASSUME NEW e \in Calls, Before(e) \/ Allow(e) \/ Deny(e) \/ Withhold(e) \/ Run(e) PROVE FALSE
    BY <1>1, <1>3, <2>1
       DEF Before, Allow, Deny, Withhold, Run, RefuseReported, RefuseSilently, Refuse, Goto, TypeOK
  <2>2. ASSUME NEW e \in Calls, Finish(e) PROVE FALSE
    BY <1>1, <1>3, <2>2, Finishing DEF TypeOK
  <2>3. Match(c)
    <3>1. ASSUME NEW e \in Calls, Match(e) PROVE e = c
      BY <1>1, <1>3, <3>1, Matching DEF TypeOK
    <3> QED
      BY <1>3, <2>1, <2>2, <3>1 DEF Next, Step, Change, Expire, vars, callVars
  <2>4. pending' = Kept /\ stage[c] = "running"
    BY <2>3, Matching DEF Prune
  <2>5. CASE found'[c] \in Keys /\ Kept[found'[c]] # None
    BY <2>4, <2>5 DEF Held
  <2>6. CASE \A k \in Keys : Kept[k] # None => Action[Kept[k]] # Action[c]
    <3>1. CASE Gone(c)
      BY <3>1, GoneStays
    <3>2. CASE pending[Key(c)] = c
      <4>1. Key(c) \in Keys /\ c # None
        BY KeyType, GuardAssumption
      <4>2. Kept[Key(c)] # c
        BY <2>6, <4>1
      <4>3. c \in missed'
        BY <1>1, <2>3, <2>4, <3>2, <4>1, <4>2, Matching, Pruning DEF Drops
      <4> QED
        BY <4>3 DEF Gone
    <3> QED
      BY <1>1, <2>4, <3>1, <3>2 DEF OwnKept
  <2> QED
    BY <2>3, <2>5, <2>6, Matching
<1> QED
  BY <1>2, <1>3

(* Which outcomes a step reports.                                          *)
LEMMA Reports ==
    ASSUME Inv, [Next]_vars, NEW c \in Calls, outcome'[c] # outcome[c]
    PROVE  \/ outcome'[c].status = "blocked" /\ outcome'[c].trace \in {None, c}
           \/ Withhold(c) /\ outcome'[c].status = "blocked" /\ outcome'[c].trace = pending[Key(c)]
           \/ /\ Finish(c) /\ mode = "remote" /\ outcome'[c].key = EndKey(c)
              /\ outcome'[c].trace = Held(EndKey(c))
<1>1. TypeOK
  BY DEF Inv
<1> DEFINE P == \/ outcome'[c].status = "blocked" /\ outcome'[c].trace \in {None, c}
                \/ /\ Withhold(c) /\ outcome'[c].status = "blocked"
                   /\ outcome'[c].trace = pending[Key(c)]
                \/ /\ Finish(c) /\ mode = "remote" /\ outcome'[c].key = EndKey(c)
                   /\ outcome'[c].trace = Held(EndKey(c))
<1>2. ASSUME NEW e \in Calls, RefuseReported(e) PROVE P
  <2>1. \E t \in {None, e} : Report(e, Key(e), "blocked", t)
    BY <1>2 DEF RefuseReported
  <2> QED
    BY <1>1, <2>1, KeyType, Reporting
<1>3. ASSUME NEW e \in Calls, Withhold(e) PROVE P
  BY <1>1, <1>3, Withholding, Reporting DEF Withhold
<1>4. ASSUME NEW e \in Calls, Finish(e) PROVE P
  BY <1>1, <1>4, Finishing, Reporting, SMTT(20)
<1>5. \E e \in Calls : RefuseReported(e) \/ Withhold(e) \/ Finish(e)
  BY DEF Next, Step, Before, Allow, Deny, Run, Match, Change, Expire, vars, reportVars,
         RefuseSilently
<1> QED
  BY <1>2, <1>3, <1>4, <1>5

LEMMA TraceTrueKept ==
    ASSUME Inv, [Next]_vars PROVE TraceTrue'
<1>1. TypeOK /\ Owned /\ Matches /\ TraceTrue
  BY DEF Inv
<1>2. \A d \in Calls : Decided(d) => Decided(d)'
  BY Stays
<1> DEFINE True(c, t) ==
      \/ t \in {None, c}
      \/ Key(t) = Key(c)
      \/ Anonymous(c) /\ \E d \in Calls : /\ stage'[d] \notin {"idle", "evaluating"}
                                          /\ Key(d) = Key(t)
                                          /\ Action[d] = Action[c]
      \/ Anonymous(c) /\ Key(t) = "unknown"
<1> SUFFICES ASSUME NEW c \in Calls, outcome'[c] # None
             PROVE  True(c, outcome'[c].trace)
  BY DEF TraceTrue
<1>3. CASE outcome'[c] = outcome[c]
  BY <1>1, <1>2, <1>3 DEF TraceTrue, Decided
<1>4. CASE outcome'[c] # outcome[c]
  <2>1. CASE outcome'[c].trace = pending[Key(c)]
    BY <1>1, <2>1, KeyType DEF Owned
  <2>2. CASE Finish(c) /\ outcome'[c].trace = Held(EndKey(c))
    <3>1. CASE ~Anonymous(c)
      <4>1. outcome'[c].trace = pending[Key(c)]
        BY <2>2, <3>1, KeyType DEF EndKey, Held
      <4> QED
        BY <2>1, <4>1
    <3>2. CASE Anonymous(c) /\ found[c] \in Keys /\ pending[found[c]] # None
      <4>1. outcome'[c].trace = pending[found[c]] /\ Key(pending[found[c]]) = found[c]
        BY <1>1, <2>2, <3>2 DEF EndKey, Held, Owned
      <4>2. found[c] # None
        BY <2>2, <3>2, Finishing DEF Inv, TypeOK
      <4> QED
        BY <1>1, <1>2, <3>2, <4>1, <4>2 DEF Matches, Decided
    <3>3. CASE Anonymous(c) /\ ~(found[c] \in Keys /\ pending[found[c]] # None)
      BY <2>2, <3>3 DEF EndKey, Held
    <3> QED
      BY <3>1, <3>2, <3>3
  <2> QED
    BY <1>4, <2>1, <2>2, Reports
<1> QED
  BY <1>3, <1>4

LEMMA TraceKeptKept ==
    ASSUME Inv, [Next]_vars PROVE TraceKept'
<1>1. TypeOK /\ Owned /\ OwnKept /\ FoundKept /\ TraceKept
  BY DEF Inv
<1> SUFFICES ASSUME NEW c \in Calls, outcome'[c] # None, outcome'[c].status # "blocked",
                    outcome'[c].trace = None
             PROVE  \/ \E d \in missed' : d = c \/ Key(d) = outcome'[c].key
                    \/ \E d \in Calls \ {c} :
                          /\ outcome'[d] # None
                          /\ outcome'[d].trace = c \/ outcome'[d].key = outcome'[c].key
  BY DEF TraceKept
<1>2. CASE outcome'[c] = outcome[c]
  BY <1>1, <1>2, Stays DEF TraceKept
<1>3. CASE outcome'[c] # outcome[c]
  <2>1. /\ Finish(c) /\ mode = "remote" /\ outcome'[c].key = EndKey(c)
        /\ Held(EndKey(c)) = None
    BY <1>3, Reports
  <2>2. Gone(c) \/ KeyGone(c, EndKey(c))
    <3>1. CASE Anonymous(c)
      BY <1>1, <2>1, <3>1, Finishing DEF FoundKept, EndKey
    <3>2. CASE ~Anonymous(c)
      <4>1. pending[Key(c)] = None /\ stage[c] = "running" /\ c # None
        BY <2>1, <3>2, KeyType, Finishing, GuardAssumption DEF EndKey, Held
      <4> QED
        BY <1>1, <2>1, <4>1 DEF OwnKept
    <3> QED
      BY <3>1, <3>2
  <2>3. \/ Gone(c)'
        \/ \E d \in missed' : Key(d) = EndKey(c)
        \/ \E d \in Calls \ {c} : outcome'[d] # None /\ outcome'[d].key = EndKey(c)
    BY <2>2, GoneStays, Stays DEF KeyGone
  <2> QED
    BY <2>1, <2>3 DEF Gone, Taken
<1> QED
  BY <1>2, <1>3

LEMMA JudgedKept ==
    ASSUME Inv, [Next]_vars PROVE Judged'
<1>1. TypeOK /\ Judged /\ Whole
  BY TypeGivesPend DEF Inv
<1> USE DEF Judged, TypeOK, Arguments
<1>2. ASSUME NEW c \in Calls, Before(c) PROVE Judged'
  BY <1>1, <1>2 DEF Before, RefuseReported, RefuseSilently, Refuse, Goto, At
<1>3. ASSUME NEW c \in Calls, Allow(c) PROVE Judged'
  BY <1>1, <1>3 DEF Allow, Goto, At
<1>4. ASSUME NEW c \in Calls, Deny(c) PROVE Judged'
  BY <1>1, <1>4 DEF Deny, RefuseReported, RefuseSilently, Refuse, Goto, At
<1>5. ASSUME NEW c \in Calls, Withhold(c) PROVE Judged'
  BY <1>1, <1>5 DEF Withhold, Goto, At
<1>6. ASSUME NEW c \in Calls, Run(c) PROVE Judged'
  BY <1>1, <1>6 DEF Run, Goto, At
<1>7. ASSUME NEW c \in Calls, Match(c) PROVE Judged'
  <2>1. /\ stage' = [stage EXCEPT ![c] = "matched"] /\ stage[c] = "running"
        /\ UNCHANGED <<mode, trusted, live, judged>>
    BY <1>7, Matching
  <2> QED
    BY <1>1, <2>1
<1>8. ASSUME NEW c \in Calls, Finish(c) PROVE Judged'
  <2>1. /\ stage' = [stage EXCEPT ![c] = "done"] /\ stage[c] \in {"running", "matched"}
        /\ UNCHANGED <<mode, trusted, live, judged>>
    BY <1>8, Finishing
  <2> QED
    BY <1>1, <2>1
<1>9. ASSUME NEW c \in Calls, Change(c) PROVE Judged'
  BY <1>1, <1>9 DEF Change
<1>10. CASE Expire \/ UNCHANGED vars
  BY <1>1, <1>10 DEF Expire, vars, callVars
<1> QED
  BY <1>2, <1>3, <1>4, <1>5, <1>6, <1>7, <1>8, <1>9, <1>10 DEF Next, Step

LEMMA InvKept ==
    ASSUME Inv, [Next]_vars PROVE Inv'
BY TypeKept, WholeKept, OwnedKept, MatchesKept, ReportedKept, OwnKeptKept, FoundKeptKept,
   TraceTrueKept, TraceKeptKept, JudgedKept DEF Inv, Whole

LEMMA AlwaysInv == Spec => []Inv
<1>1. Inv /\ [Next]_vars => Inv'
  BY InvKept
<1> QED
  BY <1>1, InitInv, PTL DEF Spec

-----------------------------------------------------------------------------
(* The properties the runs check.                                          *)

(* However many callbacks are missing and ids reused, the pending entries  *)
(* stay within their cap and each has a record by which it expires or is   *)
(* evicted (283-334).                                                      *)
THEOREM EntriesAreBounded == Spec => []PendingBounded
<1>1. Inv => PendingBounded
  BY DEF Inv, PendingBounded, Room, HasRecords, HasRecord, KeysIn
<1> QED
  BY <1>1, AlwaysInv, PTL

(* The trace of an outcome is that of the call, of its id, or of a decided *)
(* call for the same action; or it is that of the id "unknown" (216-228).  *)
THEOREM TracesAreTrue == Spec => []TraceTrue
<1>1. Inv => TraceTrue
  BY DEF Inv
<1> QED
  BY <1>1, AlwaysInv, PTL

(* A trace is missing from an outcome only for a cause (220-223).          *)
THEOREM TracesAreKept == Spec => []TraceKept
<1>1. Inv => TraceKept
  BY DEF Inv
<1> QED
  BY <1>1, AlwaysInv, PTL

(* An entry is given up before its time only for room or to a reused id    *)
(* (283-298, 323-334).                                                     *)
THEOREM EntriesAreKept == Spec => FreshKept
<1> DEFINE Why(c) == \/ Cardinality(KeysIn(pending)) >= MaxPending
                     \/ \E i \in 1..Len(order) : order[i] = [key |-> Key(c), old |-> TRUE]
                     \/ \E d \in Calls \ {c} : Key(d) = Key(c)
<1>1. Inv /\ [Next]_vars => \A c \in missed' \ missed : Why(c)
  <2> SUFFICES ASSUME Inv, [Next]_vars, NEW c \in missed' \ missed PROVE Why(c)
    OBVIOUS
  <2>1. Whole /\ Owned /\ TypeOK
    BY TypeGivesPend DEF Inv
  <2>2. c \in Calls /\ c # None
    BY WholeKept, GuardAssumption DEF Whole, PendType
  <2>3. ASSUME NEW k \in Keys, c = pending[k], Cause(k) PROVE Why(c)
    BY <2>1, <2>2, <2>3 DEF Owned, Cause
  <2>4. ASSUME NEW e \in Calls, Remember(e), ~Decided(e) PROVE Why(c)
    <3>1. PICK k \in Keys : c = pending[k] /\ (k = Key(e) \/ Cause(k))
      BY <2>1, <2>4, Remembering
    <3>2. Key(c) = k /\ Decided(c)
      BY <2>1, <2>2, <3>1 DEF Owned
    <3> QED
      BY <2>3, <2>4, <3>1, <3>2
  <2>5. ASSUME NEW e \in Calls, Match(e) PROVE Why(c)
    BY <2>1, <2>3, <2>5, Matching, Pruning
  <2>6. ASSUME NEW e \in Calls, Withhold(e) \/ Finish(e) PROVE FALSE
    <3>1. \E k : Pop(k)
      BY <2>6, Finishing DEF Withhold
    <3> QED
      BY <2>1, <3>1, Popping
  <2> QED
    BY <2>4, <2>5, <2>6
       DEF Next, Step, Before, Allow, Deny, Run, Change, Expire, vars, pendingVars, Decided, At
<1> QED
  BY <1>1, AlwaysInv, PTL DEF Spec, FreshKept

-----------------------------------------------------------------------------
(* The gate.                                                               *)

Still(c) == stage'[c] = stage[c] /\ judged'[c] = judged[c] /\ used'[c] = used[c]

LEMMA StillSame ==
    ASSUME UNCHANGED <<mode, trusted>>, NEW c \in Calls, Still(c)
    PROVE  /\ GateStatus(c)' = GateStatus(c)
           /\ GateArgs(c)' = GateArgs(c)
           /\ GateUsed(c)' = GateUsed(c)
<1>1. GateStatus(c)' = GateStatus(c)
  BY DEF Still, GateStatus, At
<1> QED
  BY <1>1 DEF Still, GateArgs, GateUsed

(* What a step may do to a call, as the gate sees it.                      *)
Moves(c) ==
    \/ /\ GateStatus(c) = "waiting" /\ GateStatus(c)' = "cleared"
       /\ GateArgs(c)' \in Arguments /\ GateUsed(c)' = GateUsed(c)
    \/ /\ GateStatus(c) = "waiting" /\ GateStatus(c)' = "refused"
       /\ GateUsed(c)' = GateUsed(c)
    \/ /\ GateStatus(c) = "cleared" /\ GateStatus(c)' = "ran"
       /\ GateArgs(c)' = GateArgs(c) /\ GateUsed(c)' = GateArgs(c)
    \/ /\ GateStatus(c)' = GateStatus(c) /\ GateArgs(c)' = GateArgs(c)
       /\ GateUsed(c)' = GateUsed(c)

LEMMA GateStep ==
    ASSUME UNCHANGED <<mode, trusted>>, NEW c \in Calls,
           \A d \in Calls \ {c} : Still(d), Moves(c)
    PROVE  Gate!Next \/ UNCHANGED Gate!gateVars
<1> DEFINE St == [d \in Calls |-> GateStatus(d)]
           Cl == [d \in Calls |-> GateArgs(d)]
           Us == [d \in Calls |-> GateUsed(d)]
           st == GateStatus(c)'
           cl == GateArgs(c)'
           us == GateUsed(c)'
<1>1. \A d \in Calls \ {c} : /\ GateStatus(d)' = GateStatus(d) /\ GateArgs(d)' = GateArgs(d)
                             /\ GateUsed(d)' = GateUsed(d)
  BY StillSame
<1>2. St' = [St EXCEPT ![c] = st] /\ Cl' = [Cl EXCEPT ![c] = cl] /\ Us' = [Us EXCEPT ![c] = us]
  BY <1>1
<1>3. St[c] = GateStatus(c) /\ Cl[c] = GateArgs(c) /\ Us[c] = GateUsed(c)
  OBVIOUS
<1>4. [Cl EXCEPT ![c] = Cl[c]] = Cl /\ [Us EXCEPT ![c] = Us[c]] = Us /\ [St EXCEPT ![c] = St[c]] = St
  OBVIOUS
<1>5. st = "refused" => cl = None
  BY DEF GateArgs
<1>6. \/ St[c] = "waiting" /\ st = "cleared" /\ cl \in Arguments /\ us = Us[c]
      \/ St[c] = "waiting" /\ st = "refused" /\ us = Us[c]
      \/ St[c] = "cleared" /\ st = "ran" /\ cl = Cl[c] /\ us = Cl[c]
      \/ st = St[c] /\ cl = Cl[c] /\ us = Us[c]
  BY <1>3 DEF Moves
<1> HIDE DEF st, cl, us
<1>7. CASE St[c] = "waiting" /\ st = "cleared" /\ cl \in Arguments /\ us = Us[c]
  <2>1. Gate!Clear(c, cl)
    BY <1>2, <1>4, <1>7 DEF Gate!Clear
  <2> QED
    BY <1>7, <2>1 DEF Gate!Next
<1>8. CASE St[c] = "waiting" /\ st = "refused" /\ us = Us[c]
  <2>1. Gate!Refuse(c)
    BY <1>2, <1>4, <1>5, <1>8 DEF Gate!Refuse
  <2> QED
    BY <2>1 DEF Gate!Next
<1>9. CASE St[c] = "cleared" /\ st = "ran" /\ cl = Cl[c] /\ us = Cl[c]
  <2>1. Gate!Run(c)
    BY <1>2, <1>4, <1>9 DEF Gate!Run
  <2> QED
    BY <2>1 DEF Gate!Next
<1>10. CASE st = St[c] /\ cl = Cl[c] /\ us = Us[c]
  BY <1>2, <1>4, <1>10 DEF Gate!gateVars
<1> QED
  BY <1>6, <1>7, <1>8, <1>9, <1>10

LEMMA AllStill ==
    ASSUME UNCHANGED <<mode, trusted>>, \A d \in Calls : Still(d)
    PROVE  UNCHANGED Gate!gateVars
<1>1. \A d \in Calls : /\ GateStatus(d)' = GateStatus(d) /\ GateArgs(d)' = GateArgs(d)
                       /\ GateUsed(d)' = GateUsed(d)
  BY StillSame
<1> QED
  BY <1>1 DEF Gate!gateVars

(* In retrospective mode the gate sees nothing; in the others each handler *)
(* moves its own call.                                                     *)
LEMMA StepMoves ==
    ASSUME Inv, NEW c \in Calls, Step(c), UNCHANGED <<mode, trusted>>
    PROVE  (\A d \in Calls \ {c} : Still(d)) /\ Moves(c)
<1>1. TypeOK /\ Judged /\ mode' = mode /\ trusted' = trusted
  BY DEF Inv
<1>2. \A d \in Calls \ {c} : Still(d)
  <2>1. ASSUME Finish(c) \/ Match(c) PROVE \A d \in Calls \ {c} : Still(d)
    <3>1. judged' = judged /\ used' = used /\ \A d \in Calls \ {c} : stage'[d] = stage[d]
      BY <1>1, <2>1, Finishing, Matching DEF TypeOK
    <3> QED
      BY <3>1 DEF Still
  <2> QED
    BY <1>1, <2>1 DEF Step, Still, Before, Allow, Deny, Withhold, Run, Goto, TypeOK,
         RefuseReported, RefuseSilently, Refuse
<1> SUFFICES Moves(c)
  BY <1>2
<1>3. CASE mode = "retrospective"
  BY <1>1, <1>3 DEF Moves, GateArgs, GateUsed, GateStatus
<1>4. CASE mode # "retrospective"
  <2>1. CASE Before(c)
    <3>1. stage[c] = "idle" /\ stage'[c] \in {"refused", "evaluating"} /\ used' = used
      BY <1>1, <1>4, <2>1
         DEF Before, RefuseReported, RefuseSilently, Refuse, Goto, At, TypeOK
    <3>2. GateStatus(c) = "waiting" /\ GateStatus(c)' \in {"waiting", "refused"}
      BY <1>1, <1>4, <3>1 DEF GateStatus, At
    <3> QED
      BY <1>1, <3>1, <3>2 DEF Moves, GateArgs, GateUsed
  <2>2. CASE Allow(c)
    <3>1. stage[c] = "evaluating" /\ stage'[c] = "allowed" /\ used' = used /\ judged' = judged
      BY <1>1, <2>2 DEF Allow, Goto, At, TypeOK
    <3>2. GateStatus(c) = "waiting" /\ GateStatus(c)' \in {"waiting", "cleared"}
      BY <1>1, <1>4, <3>1 DEF GateStatus, At
    <3>3. judged'[c] \in Arguments
      BY <1>1, <3>1 DEF Judged
    <3> QED
      BY <1>1, <3>1, <3>2, <3>3 DEF Moves, GateArgs, GateUsed
  <2>3. CASE Deny(c)
    <3>1. stage[c] = "evaluating" /\ stage'[c] = "refused" /\ used' = used
      BY <1>1, <2>3 DEF Deny, RefuseReported, RefuseSilently, Refuse, Goto, At, TypeOK
    <3>2. GateStatus(c) = "waiting" /\ GateStatus(c)' = "refused"
      BY <1>1, <1>4, <3>1 DEF GateStatus, At
    <3> QED
      BY <1>1, <3>1, <3>2 DEF Moves, GateUsed
  <2>4. CASE Withhold(c)
    <3>1. /\ stage[c] = "allowed" /\ stage'[c] = "refused" /\ used' = used
          /\ c \in Native /\ ~trusted
      BY <1>1, <2>4 DEF Withhold, MayRun, Goto, At, TypeOK
    <3>2. GateStatus(c) = "waiting" /\ GateStatus(c)' = "refused"
      BY <1>1, <1>4, <3>1 DEF GateStatus, At
    <3> QED
      BY <1>1, <3>1, <3>2 DEF Moves, GateUsed
  <2>5. CASE Run(c)
    <3>1. /\ stage[c] = "allowed" /\ stage'[c] = "running" /\ judged' = judged
          /\ used'[c] = IF c \in Native THEN live[c] ELSE judged[c]
          /\ c \in Native /\ mode = "remote" => trusted
      BY <1>1, <2>5 DEF Run, MayRun, Goto, At, TypeOK
    <3>2. mode = "remote"
      BY <1>1, <1>4, <3>1 DEF Judged, TypeOK
    <3>3. judged[c] \in Arguments /\ used'[c] = judged[c]
      BY <1>1, <3>1, <3>2, GuardAssumption DEF Judged
    <3>4. GateStatus(c) = "cleared" /\ GateStatus(c)' = "ran"
      BY <1>1, <1>4, <3>1, <3>2 DEF GateStatus, At
    <3> QED
      BY <1>1, <1>4, <3>1, <3>3, <3>4 DEF Moves, GateArgs, GateUsed
  <2>6. CASE Match(c) \/ Finish(c)
    <3>1. /\ stage[c] \in {"running", "matched"} /\ stage'[c] \in {"matched", "done"}
          /\ judged' = judged /\ used' = used
      BY <1>1, <2>6, Matching, Finishing DEF TypeOK
    <3>2. GateStatus(c) = "ran" /\ GateStatus(c)' = "ran"
      BY <1>1, <1>4, <3>1 DEF GateStatus, At
    <3> QED
      BY <1>1, <3>1, <3>2 DEF Moves, GateArgs, GateUsed
  <2> QED
    BY <2>1, <2>2, <2>3, <2>4, <2>5, <2>6 DEF Step
<1> QED
  BY <1>3, <1>4

LEMMA GateSteps == ASSUME Inv, [Next]_vars PROVE Gate!Next \/ UNCHANGED Gate!gateVars
<1>1. UNCHANGED <<mode, trusted>>
  BY Stays
<1>2. ASSUME NEW c \in Calls, Step(c) PROVE Gate!Next \/ UNCHANGED Gate!gateVars
  BY <1>1, <1>2, StepMoves, GateStep
<1>3. CASE UNCHANGED <<stage, judged, used>>
  BY <1>1, <1>3, AllStill DEF Still
<1> QED
  BY <1>2, <1>3 DEF Next, Change, Expire, vars, callVars

(* In the modes that enforce, the plugin implements ToolGate: a tool runs  *)
(* once, with the arguments that the policy allowed, and not when the call *)
(* was denied or withheld (91-122, 139-207).                               *)
THEOREM PluginImplementsGate == Spec => ImplementsGate
<1>1. Init => Gate!Init
  BY DEF Init, Gate!Init, GateStatus, GateArgs, GateUsed, At
<1>2. Inv /\ [Next]_vars => [Gate!Next]_Gate!gateVars
  BY GateSteps
<1> QED
  BY <1>1, <1>2, AlwaysInv, PTL DEF Spec, ImplementsGate, Gate!Spec

-----------------------------------------------------------------------------
(* Where the outcomes are distinct.                                        *)

(* The calls whose post hook comes without an id share their action with   *)
(* no other, and no two of them are between looking up an entry and        *)
(* removing it.                                                            *)
Apart == \A c, d \in Calls : Anonymous(c) /\ ~Anonymous(d) => Action[c] # Action[d]
Single == \A c, d \in Calls : At(c, "matched") /\ At(d, "matched") => c = d

(* The key of an anonymous call that was allowed, and is not withheld.     *)
Cleared == {"allowed", "running", "matched", "done"}
Clear(k) == trusted /\ \A d \in Calls : Key(d) = k => Anonymous(d) /\ stage[d] \in Cleared

Ran(c) == Anonymous(c) /\ outcome[c] # None /\ outcome[c].status = "ran"
Named(c) == Ran(c) /\ outcome[c].key # "unknown"

(* A key that an anonymous outcome was reported under has no entry, and    *)
(* what a call has looked up was reported for no other.                    *)
Trusting == \A c \in Calls : Anonymous(c) /\ stage[c] = "running" => trusted
Finds == \A c \in Calls : found[c] \notin {None, "unknown"} =>
    /\ Clear(found[c])
    /\ \A d \in Calls : Named(d) => outcome[d].key # found[c]
Spent == \A c \in Calls : Named(c) =>
    /\ Clear(outcome[c].key) /\ Held(outcome[c].key) = None
    /\ \A d \in Calls : Named(d) /\ outcome[d].key = outcome[c].key => d = c
Entered == \A k \in Keys : pending[k] # None /\ Anonymous(pending[k]) =>
    stage[pending[k]] \in Cleared
Own == \A c \in Calls : outcome[c] # None /\ ~Ran(c) =>
    outcome[c].key = Key(c) /\ (Anonymous(c) => stage[c] = "refused")
Distinct == mode = "remote" => Trusting /\ Finds /\ Spent /\ Entered /\ Own

(* The key of an anonymous call is its own alone.                          *)
LEMMA AloneUnderKey ==
    ASSUME NEW e \in Calls, Anonymous(e), NEW d \in Calls, Key(d) = Key(e)
    PROVE  d = e
  BY GuardAssumption DEF Anonymous, Key

(* What becomes of where a call is.                                        *)
LEMMA Stepping ==
    ASSUME Inv, [Next]_vars, NEW c \in Calls, stage'[c] # stage[c]
    PROVE  \/ stage[c] = "idle" /\ Before(c)
           \/ stage[c] = "evaluating" /\ stage'[c] = "allowed" /\ Allow(c)
           \/ stage[c] = "evaluating" /\ stage'[c] = "refused" /\ Deny(c)
           \/ stage[c] = "allowed" /\ stage'[c] = "refused" /\ Withhold(c)
           \/ stage[c] = "allowed" /\ stage'[c] = "running" /\ Run(c)
           \/ stage[c] = "running" /\ stage'[c] = "matched" /\ Match(c)
           \/ stage[c] \in {"running", "matched"} /\ stage'[c] = "done" /\ Finish(c)
<1>1. stage \in [Calls -> Stages]
  BY DEF Inv, TypeOK
<1>2. PICK e \in Calls : Step(e)
  BY DEF Next, Change, Expire, vars, callVars
<1>3. CASE Before(e) \/ Allow(e) \/ Deny(e) \/ Withhold(e) \/ Run(e)
  BY <1>1, <1>3 DEF Before, Allow, Deny, Withhold, Run, RefuseReported, RefuseSilently, Refuse,
                    Goto, At
<1>4. CASE Match(e) \/ Finish(e)
  BY <1>1, <1>4, Matching, Finishing
<1> QED
  BY <1>2, <1>3, <1>4 DEF Step

LEMMA ClearStays ==
    ASSUME Inv, [Next]_vars, mode = "remote", NEW k, Clear(k) PROVE Clear(k)'
<1>1. trusted' = trusted
  BY Stays
<1>2. ASSUME NEW d \in Calls, stage[d] \in Cleared PROVE stage'[d] \in Cleared
  <2>1. ~Withhold(d)
    BY DEF Withhold, MayRun, Clear
  <2> QED
    BY <1>2, <2>1, Stepping DEF Cleared
<1> QED
  BY <1>1, <1>2 DEF Clear

(* Only a call that has been allowed puts an entry under its key.          *)
LEMMA Entering ==
    ASSUME Inv, [Next]_vars, NEW k \in Keys, pending'[k] # None, pending'[k] # pending[k]
    PROVE  \E c \in Calls : /\ Key(c) = k /\ pending'[k] = c /\ stage'[c] = "allowed"
                            /\ stage[c] \in {"idle", "evaluating"}
<1>1. Whole /\ TypeOK
  BY TypeGivesPend DEF Inv
<1>2. ASSUME NEW c \in Calls, Remember(c) PROVE k = Key(c) /\ pending'[k] = c
  BY <1>1, <1>2, Remembering
<1>3. ASSUME NEW c \in Calls, Withhold(c) PROVE FALSE
  BY <1>1, <1>3, Popping DEF Withhold
<1>4. ASSUME NEW c \in Calls, Match(c) PROVE FALSE
  BY <1>1, <1>4, Matching, Pruning DEF Drops
<1>5. ASSUME NEW c \in Calls, Finish(c) PROVE FALSE
  BY <1>1, <1>5, Finishing, Popping
<1>6. PICK c \in Calls : /\ Remember(c) /\ stage' = [stage EXCEPT ![c] = "allowed"]
                         /\ stage[c] \in {"idle", "evaluating"}
  BY <1>3, <1>4, <1>5
     DEF Next, Step, Before, Allow, Deny, Run, Change, Expire, vars, pendingVars, Goto, At
<1> QED
  BY <1>1, <1>2, <1>6 DEF TypeOK

LEMMA SpentStays ==
    ASSUME Inv, [Next]_vars, mode = "remote", NEW k, Clear(k), Held(k) = None
    PROVE  Held(k)' = None
<1>1. ASSUME NEW c \in Calls, Key(c) = k, stage[c] \in {"idle", "evaluating"} PROVE FALSE
  BY <1>1 DEF Clear, Cleared
<1> QED
  BY <1>1, Entering DEF Held

(* Which outcome a step reports.                                           *)
LEMMA Outcomes ==
    ASSUME Inv, [Next]_vars, NEW c \in Calls, outcome'[c] # outcome[c]
    PROVE  \/ /\ outcome'[c].key = Key(c) /\ outcome'[c].status = "blocked"
              /\ stage'[c] = "refused"
           \/ /\ Finish(c) /\ outcome'[c].key = EndKey(c) /\ outcome'[c].status = "ran"
              /\ \A d \in Calls \ {c} : outcome'[d] = outcome[d]
<1>1. TypeOK
  BY DEF Inv
<1>2. ASSUME NEW e \in Calls, RefuseReported(e)
      PROVE  /\ outcome'[c].key = Key(c) /\ outcome'[c].status = "blocked"
             /\ stage'[c] = "refused"
  <2>1. \E t \in {None, e} : Report(e, Key(e), "blocked", t)
    BY <1>2 DEF RefuseReported
  <2>2. stage'[e] = "refused"
    BY <1>1, <1>2 DEF RefuseReported, Refuse, Goto, TypeOK
  <2> QED
    BY <1>1, <2>1, <2>2, KeyType, Reporting
<1>3. ASSUME NEW e \in Calls, Withhold(e)
      PROVE  /\ outcome'[c].key = Key(c) /\ outcome'[c].status = "blocked"
             /\ stage'[c] = "refused"
  <2>1. stage'[e] = "refused"
    BY <1>1, <1>3 DEF Withhold, Goto, TypeOK
  <2> QED
    BY <1>1, <1>3, <2>1, Withholding, Reporting DEF Withhold
<1>4. ASSUME NEW e \in Calls, Finish(e)
      PROVE  /\ Finish(c) /\ outcome'[c].key = EndKey(c) /\ outcome'[c].status = "ran"
             /\ \A d \in Calls \ {c} : outcome'[d] = outcome[d]
  <2>1. /\ \A d \in Calls \ {e} : outcome'[d] = outcome[d]
        /\ mode # "remote" => outcome' = outcome
        /\ mode = "remote" => outcome'[e].key = EndKey(e) /\ outcome'[e].status = "ran"
    BY <1>1, <1>4, Finishing, Reporting
  <2>2. e = c
    BY <2>1
  <2> QED
    BY <1>4, <2>1, <2>2
<1>5. \E e \in Calls : RefuseReported(e) \/ Withhold(e) \/ Finish(e)
  BY DEF Next, Step, Before, Allow, Deny, Run, Match, Change, Expire, vars, reportVars,
         RefuseSilently
<1> QED
  BY <1>2, <1>3, <1>4, <1>5

LEMMA TrustingKept == ASSUME Inv, [Next]_vars, mode = "remote", Trusting PROVE Trusting'
<1> SUFFICES ASSUME NEW c \in Calls, Anonymous(c), stage'[c] = "running" PROVE trusted'
  BY DEF Trusting
<1>1. CASE stage[c] = "running"
  BY <1>1, Stays DEF Trusting
<1>2. CASE stage[c] # "running"
  <2>1. Before(c) \/ Run(c)
    BY <1>2, Stepping
  <2>2. ~Before(c)
    BY DEF Before, RefuseReported, RefuseSilently, Refuse, Goto, Inv, TypeOK
  <2> QED
    BY <2>1, <2>2, Stays DEF Run, MayRun, Anonymous
<1> QED
  BY <1>1, <1>2

LEMMA EnteredKept ==
    ASSUME Inv, [Next]_vars, mode = "remote", Entered PROVE Entered'
<1> SUFFICES ASSUME NEW k \in Keys, pending'[k] # None, Anonymous(pending'[k])
             PROVE  stage'[pending'[k]] \in Cleared
  BY DEF Entered
<1>1. CASE pending'[k] # pending[k]
  BY <1>1, Entering DEF Cleared
<1>2. CASE pending'[k] = pending[k]
  <2>1. pending[k] \in Calls /\ Key(pending[k]) = k /\ stage[pending[k]] \in Cleared
    BY <1>2 DEF Entered, Inv, Owned, TypeOK
  <2>2. ~Withhold(pending[k])
    BY <1>2, <2>1, TypeGivesPend, Popping DEF Withhold
  <2> QED
    BY <1>2, <2>1, <2>2, Stepping DEF Cleared
<1> QED
  BY <1>1, <1>2

(* An outcome that was reported is not reported anew, and who reports one  *)
(* of an anonymous call is the call that had looked it up.                 *)
LEMMA Naming ==
    ASSUME Inv, [Next]_vars, NEW d \in Calls, Named(d)'
    PROVE  \/ Named(d) /\ outcome'[d] = outcome[d]
           \/ /\ Finish(d) /\ stage[d] = "matched" /\ outcome'[d].key = found[d]
              /\ \A e \in Calls \ {d} : outcome'[e] = outcome[e]
<1>1. CASE outcome'[d] = outcome[d]
  BY <1>1 DEF Named, Ran
<1>2. CASE outcome'[d] # outcome[d]
  <2>1. Anonymous(d) /\ outcome'[d].status = "ran"
    BY DEF Named, Ran
  <2> QED
    BY <1>2, <2>1, Outcomes, Finishing DEF EndKey
<1> QED
  BY <1>1, <1>2

LEMMA FindsKept ==
    ASSUME Apart, Inv, [Next]_vars, mode = "remote", Single, Distinct PROVE Finds'
<1>1. TypeOK /\ Whole /\ Owned /\ Trusting /\ Finds /\ Spent /\ Entered
  BY TypeGivesPend DEF Inv, Distinct
<1> SUFFICES ASSUME NEW c \in Calls, found'[c] \notin {None, "unknown"}
             PROVE  /\ Clear(found[c])'
                    /\ \A d \in Calls : Named(d)' => outcome'[d].key # found'[c]
  BY DEF Finds
<1>2. CASE found'[c] = found[c]
  <2>1. Clear(found[c]) /\ stage[c] = "matched"
    BY <1>1, <1>2 DEF Finds, TypeOK
  <2>2. Clear(found[c])'
    BY <1>2, <2>1, ClearStays DEF Clear
  <2>3. ASSUME NEW d \in Calls, Named(d)' PROVE outcome'[d].key # found'[c]
    <3>1. CASE Named(d) /\ outcome'[d] = outcome[d]
      BY <1>1, <1>2, <3>1 DEF Finds
    <3>2. ASSUME Finish(d), stage[d] = "matched" PROVE FALSE
      <4>1. c = d
        BY <2>1, <3>2 DEF Single, At
      <4> QED
        BY <1>1, <3>2, <4>1, Finishing DEF TypeOK
    <3> QED
      BY <2>3, <3>1, <3>2, Naming
  <2> QED
    BY <2>2, <2>3
<1>3. CASE found'[c] # found[c]
  <2>1. ASSUME NEW e \in Calls, Finish(e) PROVE FALSE
    BY <1>1, <1>3, <2>1, Finishing DEF TypeOK
  <2>2. Match(c)
    <3>1. ASSUME NEW e \in Calls, Match(e) PROVE e = c
      BY <1>3, <3>1, Matching
    <3> QED
      BY <1>3, <2>1, <3>1
         DEF Next, Step, Before, Allow, Deny, Withhold, Run, Change, Expire, vars, reportVars,
             RefuseReported, RefuseSilently, Refuse
  <2> DEFINE k == found'[c]
             e == pending[k]
  <2>3. /\ Anonymous(c) /\ stage[c] = "running" /\ stage' = [stage EXCEPT ![c] = "matched"]
        /\ k \in Keys /\ Kept[k] # None /\ Action[Kept[k]] = Action[c] /\ outcome' = outcome
        /\ trusted' = trusted
    BY <2>2, Matching
  <2>4. Kept[k] = e
    BY <1>1, <2>3, KeptRecords DEF Whole
  <2>5. e \in Calls /\ Key(e) = k /\ Action[e] = Action[c] /\ e # None
    BY <1>1, <2>3, <2>4 DEF Owned, TypeOK
  <2>6. Anonymous(e)
    BY <2>3, <2>5 DEF Apart
  <2>7. trusted /\ stage[e] \in Cleared
    BY <1>1, <2>3, <2>5, <2>6 DEF Trusting, Entered
  <2>8. stage'[e] \in Cleared
    BY <1>1, <2>3, <2>5, <2>7 DEF Cleared, TypeOK
  <2>9. \A d \in Calls : Key(d) = k => d = e
    BY <2>5, <2>6, AloneUnderKey
  <2>10. Clear(found[c])'
    BY <2>3, <2>6, <2>7, <2>8, <2>9 DEF Clear
  <2>11. ASSUME NEW d \in Calls, Named(d)' PROVE outcome'[d].key # k
    <3>1. Named(d)
      BY <2>3, <2>11 DEF Named, Ran
    <3> QED
      BY <1>1, <2>3, <2>5, <3>1 DEF Spent, Held
  <2> QED
    BY <2>10, <2>11
<1> QED
  BY <1>2, <1>3

LEMMA SpentKept ==
    ASSUME Inv, [Next]_vars, mode = "remote", Distinct PROVE Spent'
<1>1. TypeOK /\ Whole /\ Finds /\ Spent
  BY TypeGivesPend DEF Inv, Distinct
<1> SUFFICES ASSUME NEW c \in Calls, Named(c)'
             PROVE  /\ Clear(outcome[c].key)' /\ Held(outcome[c].key)' = None
                    /\ \A d \in Calls : Named(d)' /\ outcome'[d].key = outcome'[c].key => d = c
  BY DEF Spent
<1>2. CASE Named(c) /\ outcome'[c] = outcome[c]
  <2> DEFINE k == outcome[c].key
  <2>1. Clear(k) /\ Held(k) = None
    BY <1>1, <1>2 DEF Spent
  <2>2. Clear(k)' /\ Held(k)' = None
    BY <2>1, ClearStays, SpentStays, <1>2 DEF Clear, Held
  <2>3. ASSUME NEW d \in Calls, Named(d)', outcome'[d].key = k PROVE d = c
    <3>1. CASE Named(d) /\ outcome'[d] = outcome[d]
      BY <1>1, <1>2, <2>3, <3>1 DEF Spent
    <3>2. CASE Finish(d) /\ stage[d] = "matched" /\ outcome'[d].key = found[d]
      <4>1. found[d] \notin {None, "unknown"}
        BY <1>1, <2>3, <3>2 DEF TypeOK, Named
      <4> QED
        BY <1>1, <1>2, <2>3, <3>2, <4>1 DEF Finds
    <3> QED
      BY <2>3, <3>1, <3>2, Naming
  <2> QED
    BY <1>2, <2>2, <2>3
<1>3. CASE /\ Finish(c) /\ stage[c] = "matched" /\ outcome'[c].key = found[c]
           /\ \A e \in Calls \ {c} : outcome'[e] = outcome[e]
  <2>0. PICK k : k = found[c]
    OBVIOUS
  <2>1. k \notin {None, "unknown"} /\ Clear(k)
    BY <1>1, <1>3, <2>0 DEF TypeOK, Finds, Named
  <2>2. Clear(outcome[c].key)'
    <3>1. Clear(k)'
      BY <2>1, ClearStays
    <3> QED
      BY <1>3, <2>0, <3>1 DEF Clear
  <2>3. Held(outcome[c].key)' = None
    <3>1. Anonymous(c) /\ EndKey(c) = k
      BY <1>1, <1>3, <2>0, Finishing DEF EndKey, Inv, Matches
    <3> QED
      BY <1>1, <1>3, <2>0, <3>1, Finishing, Popping DEF Held
  <2>4. ASSUME NEW d \in Calls, Named(d)', outcome'[d].key = k PROVE d = c
    <3> SUFFICES ASSUME d # c PROVE FALSE
      OBVIOUS
    <3>1. outcome'[d] = outcome[d]
      BY <1>3
    <3>2. Named(d)
      BY <2>4, <3>1 DEF Named, Ran
    <3> QED
      BY <1>1, <2>0, <2>1, <2>4, <3>1, <3>2 DEF Finds
  <2> QED
    BY <1>3, <2>0, <2>2, <2>3, <2>4
<1> QED
  BY <1>2, <1>3, Naming

LEMMA OwnStays == ASSUME Inv, [Next]_vars, Own PROVE Own'
<1> SUFFICES ASSUME NEW c \in Calls, outcome'[c] # None, ~Ran(c)'
             PROVE  outcome'[c].key = Key(c) /\ (Anonymous(c) => stage'[c] = "refused")
  BY DEF Own
<1>1. CASE outcome'[c] = outcome[c]
  BY <1>1, Stays DEF Own, Ran
<1>2. CASE outcome'[c] # outcome[c]
  BY <1>2, Outcomes DEF Ran, EndKey
<1> QED
  BY <1>1, <1>2

LEMMA DistinctKept ==
    ASSUME Apart, Inv, [Next]_vars, Single, Distinct PROVE Distinct'
<1>1. mode' = mode
  BY Stays
<1> QED
  BY <1>1, TrustingKept, FindsKept, SpentKept, EnteredKept, OwnStays DEF Distinct

LEMMA DistinctKeys == ASSUME Inv, Distinct PROVE OutcomesDistinct
<1> SUFFICES ASSUME NEW c \in Calls, NEW d \in Calls, outcome[c] # None, outcome[d] # None,
                    c # d, outcome[c].key = outcome[d].key, outcome[c].key # "unknown"
             PROVE  Key(c) = Key(d)
  BY DEF OutcomesDistinct
<1>1. Spent /\ Own
  BY DEF Inv, Reported, Distinct
<1>2. ASSUME NEW a \in Calls, NEW b \in Calls, Ran(a), ~Ran(b), outcome[b] # None,
             outcome[a].key = outcome[b].key, outcome[a].key # "unknown"
      PROVE  FALSE
  <2>1. Clear(Key(b)) /\ (Anonymous(b) => stage[b] = "refused")
    BY <1>1, <1>2 DEF Spent, Own, Named
  <2> QED
    BY <2>1 DEF Clear, Cleared
<1>3. ~(Ran(c) /\ Ran(d))
  BY <1>1 DEF Spent, Named
<1>4. ~Ran(c) /\ ~Ran(d)
  BY <1>2, <1>3
<1> QED
  BY <1>1, <1>4 DEF Own

(* Where the calls whose post hook comes without an id share their action  *)
(* with no other call, and the hooks look up and remove an entry one after *)
(* the other (_match_pending and _pop_pending, 298-331), two outcomes are  *)
(* not reported of one action, whatever was evicted, expired or lost.      *)
THEOREM SingleMatchesAreDistinct ==
    ASSUME Apart PROVE Spec /\ []Single => []OutcomesDistinct
<1>1. Init => Distinct
  BY DEF Init, Distinct, Trusting, Finds, Spent, Entered, Own, Named, Ran
<1>2. Inv /\ Single /\ Distinct /\ [Next]_vars => Distinct'
  BY DistinctKept
<1>3. Inv /\ Distinct => OutcomesDistinct
  BY DistinctKeys
<1> QED
  BY <1>1, <1>2, <1>3, AlwaysInv, PTL DEF Spec
=============================================================================
