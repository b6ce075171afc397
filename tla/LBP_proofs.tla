----------------------------- MODULE LBP_proofs -----------------------------
(***************************************************************************)
(* The bootstrapping pools, for every set of users and assets, all terms   *)
(* and updates, and any prices: their fee collectors, what stays fixed     *)
(* during a sale, the weights of a running sale, the fees that are held    *)
(* for a pool, and what a trader gains or loses in a trade.                *)
(***************************************************************************)
EXTENDS LBP, TLAPS

Collector(p) == pool_data[p].fee_collector
FeeAsset(p) == pool_data[p].assets[1]

\* The parts of the types that the argument uses.
Shape ==
    /\ live \subseteq Pairs
    /\ \A p \in live :
          /\ {"fee_collector", "assets", "start", "end"} \subseteq DOMAIN pool_data[p]
          /\ Collector(p) \in Users
          /\ FeeAsset(p) \in Assets
          /\ pool_data[p].start \in Nat \cup {None}
          /\ pool_data[p].end \in Nat \cup {None}
    /\ lock = [u \in Users |-> [a \in Assets |-> lock[u][a]]]
    /\ paid = [p \in Pairs |-> paid[p]]
    /\ now \in Nat

\* FeeCollectorWithAsset and the pools name each other, one to one.
Bijection ==
    /\ \A p \in live : <<Collector(p), FeeAsset(p)>> \in fee_collector_with_asset
    /\ \A k \in fee_collector_with_asset : \E p \in live : k = <<Collector(p), FeeAsset(p)>>
    /\ \A p, q \in live : Collector(p) = Collector(q) /\ FeeAsset(p) = FeeAsset(q) => p = q

\* The locks are the fees paid, and there are no others.
Locks ==
    /\ \A p \in live : lock[Collector(p)][FeeAsset(p)] = paid[p]
    /\ \A u \in Users, a \in Assets : <<u, a>> \notin fee_collector_with_asset => lock[u][a] = 0

\* A pool that does not exist, or whose sale has not started, has paid nothing.
\* This is what makes it safe to change the collector until then.
Unpaid ==
    \A p \in Pairs : p \notin live \/ ~has_pool_started(pool_data[p]) => paid[p] = 0

IndInv == Shape /\ Bijection /\ Locks /\ Unpaid

-----------------------------------------------------------------------------
\* The invariant says what the two properties do.
LEMMA Meaning == IndInv => CollectorsAgree /\ LockIsCollectedFees
<1> SUFFICES ASSUME IndInv PROVE CollectorsAgree /\ LockIsCollectedFees
  OBVIOUS
<1>1. fee_collector_with_asset = {<<pool_data[p].fee_collector, pool_data[p].assets[1]>> : p \in live}
  BY Zenon DEF IndInv, Bijection, Collector, FeeAsset
<1>2. CollectorsAgree
  BY <1>1, Zenon DEF CollectorsAgree, IndInv, Bijection, Collector, FeeAsset
<1>3. ASSUME NEW u \in Users, NEW a \in Assets, NEW p \in live,
             pool_data[p].fee_collector = u, pool_data[p].assets[1] = a
      PROVE  lock[u][a] = paid[p]
  BY <1>3, Zenon DEF IndInv, Locks, Collector, FeeAsset
<1>4. ASSUME NEW u \in Users, NEW a \in Assets,
             ~\E p \in live : pool_data[p].fee_collector = u /\ pool_data[p].assets[1] = a
      PROVE  lock[u][a] = 0
  <2>1. <<u, a>> \notin fee_collector_with_asset
    BY <1>4, Zenon DEF IndInv, Bijection, Collector, FeeAsset
  <2> QED
    BY <2>1, Zenon DEF IndInv, Locks
<1> QED
  BY <1>2, <1>3, <1>4 DEF LockIsCollectedFees

\* Steps that leave the pools, the collectors, the locks and the clock alone.
LEMMA Elsewhere ==
    ASSUME IndInv, UNCHANGED <<pool_data, fee_collector_with_asset, lock, paid, now>>
    PROVE  IndInv'
<1>1. UNCHANGED live
  BY Zenon DEF live
<1>2. Shape'
  BY <1>1, Zenon DEF IndInv, Shape, Collector, FeeAsset
<1>3. Bijection'
  BY <1>1, ZenonT(40) DEF IndInv, Bijection, Collector, FeeAsset
<1>4. Locks' /\ Unpaid'
  BY <1>1, Zenon DEF IndInv, Locks, Unpaid, Collector, FeeAsset, has_pool_started
<1> QED
  BY <1>2, <1>3, <1>4, Zenon DEF IndInv

\* A sale that has started stays so as blocks come.
LEMMA Blocks ==
    ASSUME IndInv, NextBlock
    PROVE  IndInv'
<1>1. PICK blocks \in 1 .. MaxStep : now' = now + blocks
  BY Zenon DEF NextBlock
<1>2. now \in Nat /\ now' \in Nat /\ now <= now'
  BY <1>1, StepAssumption DEF IndInv, Shape
<1>3. UNCHANGED <<pool_data, fee_collector_with_asset, lock, paid, live>>
  BY Zenon DEF NextBlock, live
<1>4. Shape' /\ Bijection' /\ Locks'
  <2>1. Shape'
    BY <1>2, <1>3, Zenon DEF IndInv, Shape, Collector, FeeAsset
  <2>2. Bijection'
    BY <1>3, ZenonT(40) DEF IndInv, Bijection, Collector, FeeAsset
  <2>3. Locks'
    BY <1>3, Zenon DEF IndInv, Locks, Collector, FeeAsset
  <2> QED
    BY <2>1, <2>2, <2>3, Zenon
<1>5. ASSUME NEW p \in Pairs, p \notin live' \/ ~has_pool_started(pool_data[p])'
      PROVE  paid'[p] = 0
  <2>1. CASE p \notin live
    BY <1>3, <2>1, Zenon DEF IndInv, Unpaid
  <2>2. CASE p \in live
    <3>1. pool_data[p].start \in Nat \cup {None}
      BY <2>2, Zenon DEF IndInv, Shape
    <3>2. ~has_pool_started(pool_data[p])
      BY <1>2, <1>3, <1>5, <2>2, <3>1 DEF has_pool_started
    <3> QED
      BY <1>3, <3>2, Zenon DEF IndInv, Unpaid
  <2> QED
    BY <2>1, <2>2, Zenon
<1> QED
  BY <1>4, <1>5, Zenon DEF IndInv, Unpaid

\* A new pool has a collector of its own, without a lock.
LEMMA Creation ==
    ASSUME IndInv, NEW owner \in Users, NEW a \in Assets, NEW b \in Assets,
           NEW n, NEW m, NEW terms, NEW c \in Users,
           create_pool(owner, a, n, b, m, terms, c)
    PROVE  IndInv'
<1> DEFINE p == {a, b}
           pool == [owner |-> owner, start |-> None, end |-> None, assets |-> <<a, b>>,
                    initial_weight |-> terms.initial_weight, final_weight |-> terms.final_weight,
                    fee |-> terms.fee, fee_collector |-> c,
                    repay_target |-> terms.repay_target]
<1>1. /\ a # b
      /\ p \notin live
      /\ <<c, a>> \notin fee_collector_with_asset
      /\ pool_data' = insert(pool_data, p, pool)
      /\ fee_collector_with_asset' = fee_collector_with_asset \cup {<<c, a>>}
      /\ UNCHANGED <<lock, now, paid>>
  BY Zenon DEF create_pool, get_pair_id, CollectorIsFree
<1>2. /\ {"fee_collector", "assets", "start", "end"} \subseteq DOMAIN pool
      /\ pool.fee_collector = c
      /\ pool.assets[1] = a
      /\ pool.start = None
      /\ pool.end = None
  OBVIOUS
<1>3. p \in Pairs
  BY <1>1, Zenon DEF Pairs
<1> HIDE DEF p, pool
<1>4. /\ live' = live \cup {p}
      /\ pool_data'[p] = pool
      /\ \A q \in live : pool_data'[q] = pool_data[q]
  BY <1>1, Zenon DEF insert, live
<1>5. /\ Collector(p)' = c /\ FeeAsset(p)' = a
      /\ \A q \in live : Collector(q)' = Collector(q) /\ FeeAsset(q)' = FeeAsset(q)
  BY <1>2, <1>4, Zenon DEF Collector, FeeAsset
<1>6. Shape'
  <2>1. \A q \in live' :
           /\ {"fee_collector", "assets", "start", "end"} \subseteq DOMAIN pool_data'[q]
           /\ Collector(q)' \in Users
           /\ FeeAsset(q)' \in Assets
           /\ pool_data'[q].start \in Nat \cup {None}
           /\ pool_data'[q].end \in Nat \cup {None}
    BY <1>2, <1>4, <1>5 DEF IndInv, Shape
  <2>2. live' \subseteq Pairs
    BY <1>3, <1>4, Zenon DEF IndInv, Shape
  <2> QED
    BY <1>1, <2>1, <2>2, Zenon DEF IndInv, Shape
<1>7. \A q \in live : <<Collector(q), FeeAsset(q)>> # <<c, a>>
  BY <1>1, Zenon DEF IndInv, Bijection
<1>8. Bijection'
  BY <1>1, <1>4, <1>5, <1>7 DEF IndInv, Bijection
<1>9. Locks'
  <2>1. lock[c][a] = 0 /\ paid[p] = 0
    BY <1>1, <1>3, Zenon DEF IndInv, Locks, Unpaid
  <2> QED
    BY <1>1, <1>4, <1>5, <2>1, ZenonT(40) DEF IndInv, Locks
<1>10. Unpaid'
  <2>1. ASSUME NEW q \in Pairs, q \notin live' \/ ~has_pool_started(pool_data[q])'
        PROVE  paid'[q] = 0
    <3>1. CASE q \in live
      BY <1>1, <1>4, <2>1, <3>1, Zenon DEF IndInv, Unpaid, has_pool_started
    <3>2. CASE q \notin live
      BY <1>1, <3>2, Zenon DEF IndInv, Unpaid
    <3> QED
      BY <3>1, <3>2, Zenon
  <2> QED
    BY <2>1, Zenon DEF Unpaid
<1> QED
  BY <1>6, <1>8, <1>9, <1>10, Zenon DEF IndInv

\* Until its sale starts, a pool has paid nothing, so a new collector takes
\* over no lock and the old one keeps none.
LEMMA Update ==
    ASSUME IndInv, NEW who, NEW p \in Pairs, NEW update \in Updates,
           update_pool_data(who, p, update)
    PROVE  IndInv'
<1> DEFINE pool == pool_data[p]
           updated == [field \in DOMAIN pool |->
                          IF field = "assets" THEN pool.assets
                                              ELSE unwrap_or(update[field], pool[field])]
           c == unwrap_or(update.fee_collector, pool.fee_collector)
<1>1. /\ p \in live
      /\ ~has_pool_started(pool)
      /\ \/ update.fee_collector = None /\ UNCHANGED fee_collector_with_asset
         \/ /\ update.fee_collector # None
            /\ <<update.fee_collector, FeeAsset(p)>> \notin fee_collector_with_asset
            /\ fee_collector_with_asset' =
                  (fee_collector_with_asset \ {<<Collector(p), FeeAsset(p)>>})
                      \cup {<<update.fee_collector, FeeAsset(p)>>}
      /\ pool_data' = [pool_data EXCEPT ![p] = updated]
      /\ UNCHANGED <<lock, now, paid>>
  BY Zenon DEF update_pool_data, CollectorIsFree, Reassigned, Collector, FeeAsset
<1>2. /\ {"fee_collector", "assets", "start", "end"} \subseteq DOMAIN pool
      /\ pool.fee_collector \in Users
      /\ pool.assets[1] \in Assets
      /\ pool.start \in Nat \cup {None}
      /\ pool.end \in Nat \cup {None}
  BY <1>1, Zenon DEF IndInv, Shape, Collector, FeeAsset
<1>3. /\ {"fee_collector", "assets", "start", "end"} \subseteq DOMAIN updated
      /\ updated.fee_collector = c
      /\ updated.assets = pool.assets
      /\ updated.start = unwrap_or(update.start, pool.start)
      /\ updated.end = unwrap_or(update.end, pool.end)
  BY <1>2, Zenon
<1>4. c \in Users /\ updated.start \in Nat \cup {None} /\ updated.end \in Nat \cup {None}
  <2>1. update \in PoolUpdate
    BY UpdateAssumption, Zenon
  <2>2. /\ update.fee_collector \in Users \cup {None}
        /\ update.start \in Nat \cup {None}
        /\ update.end \in Nat \cup {None}
    BY <2>1, Zenon DEF PoolUpdate
  <2> HIDE DEF updated
  <2> QED
    BY <1>2, <1>3, <2>2, Zenon DEF unwrap_or
<1> HIDE DEF updated
<1>5. /\ live' = live
      /\ pool_data'[p] = updated
      /\ \A q \in live : q # p => pool_data'[q] = pool_data[q]
  BY <1>1, Zenon DEF live
<1>6. /\ Collector(p)' = c /\ FeeAsset(p)' = FeeAsset(p)
      /\ \A q \in live : q # p => Collector(q)' = Collector(q) /\ FeeAsset(q)' = FeeAsset(q)
  BY <1>3, <1>5, Zenon DEF Collector, FeeAsset
<1>7. Shape'
  <2>1. \A q \in live' :
           /\ {"fee_collector", "assets", "start", "end"} \subseteq DOMAIN pool_data'[q]
           /\ Collector(q)' \in Users
           /\ FeeAsset(q)' \in Assets
           /\ pool_data'[q].start \in Nat \cup {None}
           /\ pool_data'[q].end \in Nat \cup {None}
    BY <1>1, <1>3, <1>4, <1>5, <1>6 DEF IndInv, Shape
  <2> QED
    BY <1>1, <1>5, <2>1, ZenonT(40) DEF IndInv, Shape
<1>8. Unpaid'
  <2>1. paid[p] = 0
    BY <1>1, Zenon DEF IndInv, Unpaid
  <2>2. ASSUME NEW q \in Pairs, q \notin live' \/ ~has_pool_started(pool_data[q])'
        PROVE  paid'[q] = 0
    BY <1>1, <1>5, <2>1, <2>2, Zenon DEF IndInv, Unpaid, has_pool_started
  <2> QED
    BY <2>2, Zenon DEF Unpaid
<1>9. CASE update.fee_collector = None /\ UNCHANGED fee_collector_with_asset
  <2>1. Collector(p)' = Collector(p)
    BY <1>6, <1>9, Zenon DEF unwrap_or, Collector
  <2>2. \A q \in live : Collector(q)' = Collector(q) /\ FeeAsset(q)' = FeeAsset(q)
    BY <1>6, <2>1, Zenon
  <2>3. Bijection' /\ Locks'
    BY <1>1, <1>5, <1>9, <2>2 DEF IndInv, Bijection, Locks
  <2> QED
    BY <1>7, <1>8, <2>3, Zenon DEF IndInv
<1>10. CASE /\ update.fee_collector # None
            /\ <<update.fee_collector, FeeAsset(p)>> \notin fee_collector_with_asset
            /\ fee_collector_with_asset' =
                  (fee_collector_with_asset \ {<<Collector(p), FeeAsset(p)>>})
                      \cup {<<update.fee_collector, FeeAsset(p)>>}
  <2>1. c = update.fee_collector
    BY <1>10, Zenon DEF unwrap_or
  <2> HIDE DEF c
  <2>2. \A q \in live : <<Collector(q), FeeAsset(q)>> # <<c, FeeAsset(p)>>
    BY <1>10, <2>1, Zenon DEF IndInv, Bijection
  <2>3. \A q \in live : q # p => <<Collector(q), FeeAsset(q)>> # <<Collector(p), FeeAsset(p)>>
    BY <1>1, Zenon DEF IndInv, Bijection
  <2>4. \A q \in live' : <<Collector(q), FeeAsset(q)>>' \in fee_collector_with_asset'
    BY <1>1, <1>5, <1>6, <1>10, <2>1, <2>3, Zenon DEF IndInv, Bijection
  <2>5. \A k \in fee_collector_with_asset' : \E q \in live' : k = <<Collector(q), FeeAsset(q)>>'
    <3>1. ASSUME NEW k \in fee_collector_with_asset', k # <<c, FeeAsset(p)>>
          PROVE  \E q \in live' : k = <<Collector(q), FeeAsset(q)>>'
      <4>1. k \in fee_collector_with_asset /\ k # <<Collector(p), FeeAsset(p)>>
        BY <1>10, <2>1, <3>1, Zenon
      <4>2. PICK q \in live : k = <<Collector(q), FeeAsset(q)>>
        BY <4>1, Zenon DEF IndInv, Bijection
      <4> QED
        BY <1>5, <1>6, <4>1, <4>2, Zenon
    <3> QED
      BY <1>1, <1>5, <1>6, <3>1, Zenon
  <2>6. \A q, r \in live' : Collector(q)' = Collector(r)' /\ FeeAsset(q)' = FeeAsset(r)' => q = r
    BY <1>5, <1>6, <2>2 DEF IndInv, Bijection
  <2>7. Locks'
    <3>1. lock[c][FeeAsset(p)] = 0 /\ paid[p] = 0 /\ lock[Collector(p)][FeeAsset(p)] = 0
      <4>1. paid[p] = 0
        BY <1>1, Zenon DEF IndInv, Unpaid
      <4>2. FeeAsset(p) \in Assets
        BY <1>1, Zenon DEF IndInv, Shape
      <4> QED
        BY <1>1, <1>4, <1>10, <2>1, <4>1, <4>2, Zenon DEF IndInv, Locks
    <3>2. \A q \in live' : lock'[Collector(q)'][FeeAsset(q)'] = paid'[q]
      BY <1>1, <1>5, <1>6, <3>1, Zenon DEF IndInv, Locks
    <3>3. ASSUME NEW u \in Users, NEW a \in Assets, <<u, a>> \notin fee_collector_with_asset'
          PROVE  lock'[u][a] = 0
      <4>1. <<u, a>> \notin fee_collector_with_asset \/ <<u, a>> = <<Collector(p), FeeAsset(p)>>
        BY <1>10, <3>3, Zenon
      <4> QED
        BY <1>1, <3>1, <4>1, Zenon DEF IndInv, Locks
    <3> QED
      BY <3>2, <3>3, Zenon DEF Locks
  <2> QED
    BY <1>7, <1>8, <2>4, <2>5, <2>6, <2>7, Zenon DEF IndInv, Bijection
<1> QED
  BY <1>1, <1>9, <1>10, Zenon

\* The locks with one of them replaced.
Replaced(c, f, x) == [lock EXCEPT ![c][f] = x]

\* The others stay.
LEMMA Replacement ==
    ASSUME IndInv, NEW c \in Users, NEW f \in Assets, NEW x
    PROVE  /\ Replaced(c, f, x) = [u \in Users |-> [a \in Assets |-> Replaced(c, f, x)[u][a]]]
           /\ \A u \in Users, a \in Assets :
                 Replaced(c, f, x)[u][a] = IF u = c /\ a = f THEN x ELSE lock[u][a]
<1>1. lock = [u \in Users |-> [a \in Assets |-> lock[u][a]]]
  BY Zenon DEF IndInv, Shape
<1> DEFINE r == Replaced(c, f, x)
<1>2. r = [u \in Users |-> IF u = c THEN [lock[c] EXCEPT ![f] = x] ELSE lock[u]]
  BY <1>1, Zenon DEF Replaced
<1> HIDE DEF r
<1>3. [lock[c] EXCEPT ![f] = x] = [a \in Assets |-> IF a = f THEN x ELSE lock[c][a]]
  BY <1>1, Zenon
<1>4. \A u \in Users : lock[u] = [a \in Assets |-> lock[u][a]]
  BY <1>1, Zenon
<1>5. ASSUME NEW u \in Users
      PROVE  /\ r[u] = [a \in Assets |-> r[u][a]]
             /\ \A a \in Assets : r[u][a] = IF u = c /\ a = f THEN x ELSE lock[u][a]
  <2>1. CASE u = c
    <3>1. r[u] = [a \in Assets |-> IF a = f THEN x ELSE lock[c][a]]
      BY <1>2, <1>3, <2>1, Zenon
    <3>2. \A a \in Assets : r[u][a] = IF a = f THEN x ELSE lock[c][a]
      BY <3>1, Zenon
    <3>3. [a \in Assets |-> r[u][a]] = [a \in Assets |-> IF a = f THEN x ELSE lock[c][a]]
      BY <3>2, Zenon
    <3> QED
      BY <2>1, <3>1, <3>2, <3>3, Zenon
  <2>2. CASE u # c
    <3>1. r[u] = lock[u]
      BY <1>2, <2>2, Zenon
    <3> QED
      BY <1>4, <2>2, <3>1, Zenon
  <2> QED
    BY <2>1, <2>2, Zenon
<1>6. r = [u \in Users |-> r[u]]
  BY <1>2, Zenon
<1>7. [u \in Users |-> r[u]] = [u \in Users |-> [a \in Assets |-> r[u][a]]]
  BY <1>5, Zenon
<1> QED
  BY <1>5, <1>6, <1>7, Zenon DEF r

\* The lock goes with the pool.
LEMMA Removal ==
    ASSUME IndInv, NEW who, NEW p \in Pairs, remove_liquidity(who, p)
    PROVE  IndInv'
<1> DEFINE c == Collector(p)
           f == FeeAsset(p)
<1>1. /\ p \in live
      /\ lock' = Replaced(c, f, 0)
      /\ fee_collector_with_asset' = fee_collector_with_asset \ {<<c, f>>}
      /\ pool_data' = remove(pool_data, p)
      /\ paid' = [paid EXCEPT ![p] = 0]
      /\ UNCHANGED now
  BY Zenon DEF remove_liquidity, Unlocked, Replaced, Collector, FeeAsset
<1>2. c \in Users /\ f \in Assets
  BY <1>1, Zenon DEF IndInv, Shape
<1> HIDE DEF c, f
<1>3. live' = live \ {p} /\ \A q \in live' : pool_data'[q] = pool_data[q]
  BY <1>1, Zenon DEF remove, live
<1>4. \A q \in live' : Collector(q)' = Collector(q) /\ FeeAsset(q)' = FeeAsset(q)
  BY <1>3, Zenon DEF Collector, FeeAsset
<1>5. \A q \in live' : <<Collector(q), FeeAsset(q)>> # <<c, f>>
  BY <1>1, <1>3, Zenon DEF IndInv, Bijection, c, f
<1>6. /\ lock' = [u \in Users |-> [a \in Assets |-> lock'[u][a]]]
      /\ \A u \in Users, a \in Assets : lock'[u][a] = IF u = c /\ a = f THEN 0 ELSE lock[u][a]
  BY <1>1, <1>2, Replacement
<1>7. /\ paid' = [q \in Pairs |-> paid'[q]]
      /\ \A q \in Pairs : paid'[q] = IF q = p THEN 0 ELSE paid[q]
  BY <1>1, Zenon DEF IndInv, Shape
<1>8. Shape'
  <2>1. \A q \in live' :
           /\ {"fee_collector", "assets", "start", "end"} \subseteq DOMAIN pool_data'[q]
           /\ Collector(q)' \in Users
           /\ FeeAsset(q)' \in Assets
           /\ pool_data'[q].start \in Nat \cup {None}
           /\ pool_data'[q].end \in Nat \cup {None}
    BY <1>3, <1>4, ZenonT(40) DEF IndInv, Shape
  <2>2. live' \subseteq Pairs /\ now' \in Nat
    BY <1>1, <1>3, Zenon DEF IndInv, Shape
  <2> QED
    BY <1>6, <1>7, <2>1, <2>2, Zenon DEF Shape
<1>9. Bijection'
  <2>1. \A q \in live' : <<Collector(q), FeeAsset(q)>>' \in fee_collector_with_asset'
    BY <1>1, <1>3, <1>4, <1>5, Zenon DEF IndInv, Bijection
  <2>2. ASSUME NEW k \in fee_collector_with_asset'
        PROVE  \E q \in live' : k = <<Collector(q), FeeAsset(q)>>'
    <3>1. PICK q \in live : k = <<Collector(q), FeeAsset(q)>>
      BY <1>1, <2>2, Zenon DEF IndInv, Bijection
    <3>2. q # p
      BY <1>1, <2>2, <3>1, Zenon DEF c, f
    <3> QED
      BY <1>3, <1>4, <3>1, <3>2, Zenon
  <2>3. \A q, r \in live' : Collector(q)' = Collector(r)' /\ FeeAsset(q)' = FeeAsset(r)' => q = r
    BY <1>3, <1>4 DEF IndInv, Bijection
  <2> QED
    BY <2>1, <2>2, <2>3, Zenon DEF Bijection
<1>10. Locks'
  <2>1. ASSUME NEW q \in live' PROVE lock'[Collector(q)'][FeeAsset(q)'] = paid'[q]
    <3>1. Collector(q) \in Users /\ FeeAsset(q) \in Assets /\ q \in Pairs /\ q \in live /\ q # p
      BY <1>3, Zenon DEF IndInv, Shape
    <3>2. lock'[Collector(q)][FeeAsset(q)] = lock[Collector(q)][FeeAsset(q)]
      BY <1>5, <1>6, <3>1, Zenon
    <3> QED
      BY <1>4, <1>7, <3>1, <3>2, Zenon DEF IndInv, Locks
  <2>2. ASSUME NEW u \in Users, NEW a \in Assets, <<u, a>> \notin fee_collector_with_asset'
        PROVE  lock'[u][a] = 0
    BY <1>1, <1>6, <2>2 DEF IndInv, Locks
  <2> QED
    BY <2>1, <2>2, Zenon DEF Locks
<1>11. Unpaid'
  <2>1. ASSUME NEW q \in Pairs, q \notin live' \/ ~has_pool_started(pool_data[q])'
        PROVE  paid'[q] = 0
    <3>1. CASE q = p
      BY <1>7, <3>1, Zenon
    <3>2. CASE q # p
      BY <1>1, <1>3, <1>7, <2>1, <3>2, Zenon DEF IndInv, Unpaid, has_pool_started
    <3> QED
      BY <3>1, <3>2, Zenon
  <2> QED
    BY <2>1, Zenon DEF Unpaid
<1> QED
  BY <1>8, <1>9, <1>10, <1>11, Zenon DEF IndInv

\* A trade needs a sale that is running, and locks what it pays.
LEMMA Trading ==
    ASSUME IndInv, NEW who, NEW a \in Assets, NEW b \in Assets, NEW amount, Trade(who, a, b, amount)
    PROVE  IndInv'
<1> DEFINE p == {a, b}
           c == Collector(p)
           f == FeeAsset(p)
<1>1. PICK transfer : CanPrice(a, b) /\ execute_trade(who, a, b, transfer)
  BY Zenon DEF Trade, sell, buy, validate_sell, validate_buy
<1>2. /\ p \in live
      /\ has_pool_started(pool_data[p])
  BY <1>1, Zenon DEF CanPrice, get_pair_id, is_pool_running, has_pool_started
<1>3. /\ lock' = Replaced(c, f, lock[c][f] + transfer.fee)
      /\ paid' = [paid EXCEPT ![p] = paid[p] + transfer.fee]
      /\ UNCHANGED <<pool_data, fee_collector_with_asset, now>>
  BY <1>1, Zenon DEF execute_trade, LockAfter, Replaced, collected_fees, get_by_lock, get_pair_id, Collector,
             FeeAsset
<1>4. c \in Users /\ f \in Assets /\ p \in Pairs
  BY <1>2, Zenon DEF IndInv, Shape
<1>5. live' = live /\ \A q : Collector(q)' = Collector(q) /\ FeeAsset(q)' = FeeAsset(q)
  BY <1>3, Zenon DEF live, Collector, FeeAsset
<1>6. lock[c][f] = paid[p]
  BY <1>2, Zenon DEF IndInv, Locks
<1>7. \A q \in live : Collector(q) = c /\ FeeAsset(q) = f => q = p
  BY <1>2, Zenon DEF IndInv, Bijection
<1> DEFINE x == lock[c][f] + transfer.fee
<1> HIDE DEF p, c, f
<1>8. /\ lock' = [u \in Users |-> [e \in Assets |-> lock'[u][e]]]
      /\ \A u \in Users, e \in Assets : lock'[u][e] = IF u = c /\ e = f THEN x ELSE lock[u][e]
  <2> HIDE DEF x
  <2>1. lock' = Replaced(c, f, x)
    BY <1>3, Zenon DEF x
  <2> QED
    BY <1>4, <2>1, Replacement
<1>9. /\ paid' = [q \in Pairs |-> paid'[q]]
      /\ \A q \in Pairs : paid'[q] = IF q = p THEN x ELSE paid[q]
  <2>1. paid' = [paid EXCEPT ![p] = x]
    BY <1>3, <1>6, Zenon
  <2> HIDE DEF x
  <2> QED
    BY <2>1, Zenon DEF IndInv, Shape
<1> HIDE DEF x
<1>10. Shape'
  BY <1>3, <1>5, <1>8, <1>9, Zenon DEF IndInv, Shape
<1>11. Bijection'
  BY <1>3, <1>5, Zenon DEF IndInv, Bijection
<1>12. Locks'
  <2>1. ASSUME NEW q \in live PROVE lock'[Collector(q)][FeeAsset(q)] = paid'[q]
    <3>1. Collector(q) \in Users /\ FeeAsset(q) \in Assets /\ q \in Pairs
      BY Zenon DEF IndInv, Shape
    <3>2. CASE q = p
      BY <1>8, <1>9, <3>1, <3>2, Zenon DEF c, f
    <3>3. CASE q # p
      BY <1>7, <1>8, <1>9, <3>1, <3>3, Zenon DEF IndInv, Locks
    <3> QED
      BY <3>2, <3>3, Zenon
  <2>2. <<c, f>> \in fee_collector_with_asset
    BY <1>2, Zenon DEF IndInv, Bijection, c, f
  <2>3. ASSUME NEW u \in Users, NEW e \in Assets, <<u, e>> \notin fee_collector_with_asset
        PROVE  lock'[u][e] = 0
    BY <1>8, <2>2, <2>3 DEF IndInv, Locks
  <2> QED
    BY <1>3, <1>5, <2>1, <2>3, Zenon DEF Locks
<1>13. Unpaid'
  <2>1. ASSUME NEW q \in Pairs, q \notin live' \/ ~has_pool_started(pool_data[q])'
        PROVE  paid'[q] = 0
    <3>1. q # p
      BY <1>2, <1>3, <1>5, <2>1, Zenon DEF has_pool_started, p
    <3> QED
      BY <1>3, <1>5, <1>9, <2>1, <3>1, Zenon DEF IndInv, Unpaid, has_pool_started
  <2> QED
    BY <2>1, Zenon DEF Unpaid
<1> QED
  BY <1>10, <1>11, <1>12, <1>13, Zenon DEF IndInv

-----------------------------------------------------------------------------
\* The invariant is inductive.
LEMMA Induction == IndInv /\ [Next]_vars => IndInv'
<1> SUFFICES ASSUME IndInv, [Next]_vars PROVE IndInv'
  OBVIOUS
<1>1. CASE UNCHANGED vars
  BY <1>1, Elsewhere, Zenon DEF vars
<1>2. ASSUME NEW who \in Users, NEW a \in Assets, NEW b \in Assets, NEW n, NEW m, NEW terms,
             NEW c \in Users, create_pool(who, a, n, b, m, terms, c)
      PROVE  IndInv'
  BY <1>2, Creation, Zenon
<1>3. ASSUME NEW who, NEW a, NEW b, NEW n, NEW m, add_liquidity(who, a, n, b, m)
      PROVE  IndInv'
  BY <1>3, Elsewhere, Zenon DEF add_liquidity
<1>4. ASSUME NEW who, NEW p \in Pairs, NEW update \in Updates, update_pool_data(who, p, update)
      PROVE  IndInv'
  BY <1>4, Update, Zenon
<1>5. ASSUME NEW who, NEW p \in Pairs, remove_liquidity(who, p)
      PROVE  IndInv'
  BY <1>5, Removal, Zenon
<1>6. ASSUME NEW who, NEW a \in Assets, NEW b \in Assets, NEW n, Trade(who, a, b, n)
      PROVE  IndInv'
  BY <1>6, Trading, Zenon
<1>7. ASSUME NEW who, NEW to, NEW a, NEW n, Transfer(who, to, a, n) \/ TransferToPool(who, to, a, n)
      PROVE  IndInv'
  BY <1>7, Elsewhere, Zenon DEF Transfer, TransferToPool
<1>8. CASE NextBlock
  BY <1>8, Blocks, Zenon
<1> QED
  BY <1>1, <1>2, <1>3, <1>4, <1>5, <1>6, <1>7, <1>8, Zenon DEF Next

\* There are no pools and no locks at the start.
LEMMA Initially == Init => IndInv
<1> SUFFICES ASSUME Init PROVE IndInv
  OBVIOUS
<1>1. live = {}
  BY Zenon DEF Init, live, Empty
<1>2. Shape
  BY <1>1, Zenon DEF Init, Shape
<1> QED
  BY <1>1, <1>2, Zenon DEF Init, IndInv, Bijection, Locks, Unpaid

\* FeeCollectorWithAsset holds the collectors of the pools that exist, and no
\* two pools share one, whatever is created, updated and removed.
THEOREM Collectors == Spec => []CollectorsAgree
<1>1. IndInv => CollectorsAgree
  BY Meaning, Zenon
<1> QED
  BY <1>1, Initially, Induction, PTL DEF Spec

\* The lock from which the pallet reads back the fees of a sale is what the
\* pool has paid, at any prices and whoever else collects in the same asset.
THEOREM CollectedFees == Spec => []LockIsCollectedFees
<1>1. IndInv => LockIsCollectedFees
  BY Meaning, Zenon
<1> QED
  BY <1>1, Initially, Induction, PTL DEF Spec

-----------------------------------------------------------------------------
(* The terms of the sales *)

\* What validate_pool_data leaves true of a pool as blocks come.
Valid(pool) ==
    /\ \/ pool.start = None /\ pool.end = None
       \/ pool.start # None /\ pool.end # None /\ pool.start < pool.end
    /\ pool.initial_weight \in 1 .. MAX_WEIGHT - 1
    /\ pool.final_weight \in 1 .. MAX_WEIGHT - 1
    /\ pool.fee[2] # 0

\* The pools are well-formed, and what was validated stays so.
Pools ==
    /\ live \subseteq Pairs
    /\ \A p \in live :
          /\ pool_data[p] \in Pool
          /\ p = {pool_data[p].assets[1], pool_data[p].assets[2]}
          /\ Valid(pool_data[p])
    /\ now \in Nat

\* Validation is for the block it happens in.
LEMMA Validation ==
    ASSUME NEW pool, validate_pool_data(pool)
    PROVE  Valid(pool)
BY Zenon DEF validate_pool_data, Valid, ValidRange

\* A new pool is one, and its sale has no blocks yet.
LEMMA NewPool ==
    ASSUME NEW owner \in Users, NEW a \in Assets, NEW b \in Assets, NEW n, NEW m,
           NEW terms \in Terms, NEW c \in Users, create_pool(owner, a, n, b, m, terms, c)
    PROVE  \E p \in Pairs : \E pool \in Pool :
              /\ p \notin live
              /\ pool.start = None
              /\ p = {pool.assets[1], pool.assets[2]}
              /\ Valid(pool)
              /\ pool_data' = insert(pool_data, p, pool)
<1> DEFINE pool == [owner |-> owner, start |-> None, end |-> None, assets |-> <<a, b>>,
                    initial_weight |-> terms.initial_weight, final_weight |-> terms.final_weight,
                    fee |-> terms.fee, fee_collector |-> c,
                    repay_target |-> terms.repay_target]
<1>1. /\ a # b
      /\ {a, b} \notin live
      /\ validate_pool_data(pool)
      /\ pool_data' = insert(pool_data, {a, b}, pool)
  BY Zenon DEF create_pool, get_pair_id
<1>2. terms \in PoolTerms
  BY TermsAssumption, Zenon
<1>3. pool \in Pool
  BY <1>2, Zenon DEF PoolTerms, Pool
<1>4. pool.start = None /\ pool.assets[1] = a /\ pool.assets[2] = b
  OBVIOUS
<1> HIDE DEF pool
<1>5. Valid(pool)
  BY <1>1, Validation, Zenon
<1>6. {a, b} \in Pairs
  BY <1>1, Zenon DEF Pairs
<1> QED
  BY <1>1, <1>3, <1>4, <1>5, <1>6, Zenon

\* An updated pool is one, for the same assets, and its sale had not started.
LEMMA UpdatedPool ==
    ASSUME Pools, NEW who, NEW p, NEW update \in Updates, update_pool_data(who, p, update)
    PROVE  p \in live /\ \E pool \in Pool :
              /\ pool.assets = pool_data[p].assets
              /\ Valid(pool)
              /\ ~has_pool_started(pool_data[p])
              /\ pool_data' = [pool_data EXCEPT ![p] = pool]
              /\ UNCHANGED now
<1> DEFINE pool == pool_data[p]
           updated == [field \in DOMAIN pool |->
                          IF field = "assets" THEN pool.assets
                                              ELSE unwrap_or(update[field], pool[field])]
<1>1. /\ p \in live
      /\ ~has_pool_started(pool)
      /\ validate_pool_data(updated)
      /\ pool_data' = [pool_data EXCEPT ![p] = updated]
      /\ UNCHANGED now
  BY Zenon DEF update_pool_data
<1>2. pool \in Pool /\ update \in PoolUpdate
  BY <1>1, UpdateAssumption, Zenon DEF Pools
<1> HIDE DEF pool
<1>3. DOMAIN pool = {"owner", "start", "end", "assets", "initial_weight", "final_weight", "fee",
                     "fee_collector", "repay_target"}
  BY <1>2, Zenon DEF Pool
<1>4. updated = [owner |-> unwrap_or(update.owner, pool.owner),
                 start |-> unwrap_or(update.start, pool.start),
                 end |-> unwrap_or(update.end, pool.end),
                 assets |-> pool.assets,
                 initial_weight |-> unwrap_or(update.initial_weight, pool.initial_weight),
                 final_weight |-> unwrap_or(update.final_weight, pool.final_weight),
                 fee |-> unwrap_or(update.fee, pool.fee),
                 fee_collector |-> unwrap_or(update.fee_collector, pool.fee_collector),
                 repay_target |-> unwrap_or(update.repay_target, pool.repay_target)]
  BY <1>3
<1>5. /\ unwrap_or(update.owner, pool.owner) \in Users
      /\ unwrap_or(update.start, pool.start) \in Nat \cup {None}
      /\ unwrap_or(update.end, pool.end) \in Nat \cup {None}
      /\ pool.assets \in Assets \X Assets
      /\ unwrap_or(update.initial_weight, pool.initial_weight) \in Nat
      /\ unwrap_or(update.final_weight, pool.final_weight) \in Nat
      /\ unwrap_or(update.fee, pool.fee) \in Nat \X Nat
      /\ unwrap_or(update.fee_collector, pool.fee_collector) \in Users
      /\ unwrap_or(update.repay_target, pool.repay_target) \in Nat
  BY <1>2 DEF Pool, PoolUpdate, unwrap_or
<1>6. updated.assets = pool.assets
  BY <1>4, Zenon
<1> HIDE DEF updated
<1>7. updated \in Pool
  BY <1>4, <1>5, Zenon DEF Pool
<1>8. Valid(updated)
  BY <1>1, Validation, Zenon
<1> QED
  BY <1>1, <1>6, <1>7, <1>8, Zenon DEF pool

\* Pools change only by the calls of their owner.
LEMMA PoolSteps ==
    ASSUME Pools, [Next]_vars
    PROVE  \/ UNCHANGED pool_data
           \/ \E p \in Pairs : \E pool \in Pool :
                 /\ p \notin live
                 /\ pool.start = None
                 /\ p = {pool.assets[1], pool.assets[2]}
                 /\ Valid(pool)
                 /\ pool_data' = insert(pool_data, p, pool)
           \/ \E p \in live : \E pool \in Pool :
                 /\ pool.assets = pool_data[p].assets
                 /\ Valid(pool)
                 /\ ~has_pool_started(pool_data[p])
                 /\ pool_data' = [pool_data EXCEPT ![p] = pool]
                 /\ UNCHANGED now
           \/ \E p \in live :
                 /\ ~is_pool_running(pool_data[p])
                 /\ pool_data' = remove(pool_data, p)
                 /\ UNCHANGED now
<1>1. CASE UNCHANGED vars
  BY <1>1, Zenon DEF vars
<1>2. ASSUME NEW who, NEW p, remove_liquidity(who, p)
      PROVE  /\ p \in live
             /\ ~is_pool_running(pool_data[p])
             /\ pool_data' = remove(pool_data, p)
             /\ UNCHANGED now
  BY <1>2, Zenon DEF remove_liquidity, CanRemove
<1>3. ASSUME NEW who, NEW a, NEW b, NEW n, Trade(who, a, b, n)
      PROVE  UNCHANGED pool_data
  BY <1>3, Zenon DEF Trade, sell, buy, execute_trade
<1>4. ASSUME NEW who, NEW to, NEW a, NEW b, NEW n, NEW m,
             \/ add_liquidity(who, a, n, b, m) \/ NextBlock
             \/ Transfer(who, to, a, n) \/ TransferToPool(who, to, a, n)
      PROVE  UNCHANGED pool_data
  BY <1>4, Zenon DEF add_liquidity, NextBlock, Transfer, TransferToPool
<1> QED
  BY <1>1, <1>2, <1>3, <1>4, NewPool, UpdatedPool, ZenonT(40) DEF Next

\* The clock does not go back.
LEMMA Clock ==
    ASSUME Pools, [Next]_vars
    PROVE  now' \in Nat /\ now <= now'
<1>1. now \in Nat
  BY Zenon DEF Pools
<1>2. CASE NextBlock
  <2>1. PICK blocks \in 1 .. MaxStep : now' = now + blocks
    BY <1>2, Zenon DEF NextBlock
  <2> QED
    BY <1>1, <2>1, StepAssumption
<1>3. CASE UNCHANGED now
  BY <1>1, <1>3
<1>4. ASSUME NEW who, NEW a, NEW b, NEW n, Trade(who, a, b, n)
      PROVE  UNCHANGED now
  BY <1>4, Zenon DEF Trade, sell, buy, execute_trade
<1>5. ASSUME NEW who, NEW to, NEW a, NEW b, NEW n, NEW m, NEW c, NEW terms, NEW p, NEW update,
             \/ create_pool(who, a, n, b, m, terms, c) \/ add_liquidity(who, a, n, b, m)
             \/ update_pool_data(who, p, update) \/ remove_liquidity(who, p)
             \/ Transfer(who, to, a, n) \/ TransferToPool(who, to, a, n)
      PROVE  UNCHANGED now
  BY <1>5, Zenon DEF create_pool, add_liquidity, update_pool_data, remove_liquidity, Transfer, TransferToPool
<1> QED
  BY <1>2, <1>3, <1>4, <1>5, Zenon DEF Next, vars

\* The pools stay well-formed.
LEMMA PoolsKept == Pools /\ [Next]_vars => Pools'
<1> SUFFICES ASSUME Pools, [Next]_vars PROVE Pools'
  OBVIOUS
<1> DEFINE Good(q) == /\ pool_data[q] \in Pool
                      /\ q = {pool_data[q].assets[1], pool_data[q].assets[2]}
                      /\ Valid(pool_data[q])
<1>1. SUFFICES live' \subseteq Pairs /\ \A q \in live' : Good(q)'
  BY Clock, Zenon DEF Pools
<1>2. live \subseteq Pairs /\ \A q \in live : Good(q)
  BY Zenon DEF Pools
<1>3. ASSUME NEW q, pool_data'[q] = pool_data[q], Good(q)
      PROVE  Good(q)'
  BY <1>3, Zenon DEF Valid
<1>4. ASSUME NEW q, NEW pool \in Pool, q = {pool.assets[1], pool.assets[2]}, Valid(pool),
             pool_data'[q] = pool
      PROVE  Good(q)'
  BY <1>4, Zenon DEF Valid
<1> HIDE DEF Good
<1>5. CASE UNCHANGED pool_data
  BY <1>2, <1>3, <1>5, Zenon DEF live
<1>6. ASSUME NEW p \in Pairs, NEW pool \in Pool, p = {pool.assets[1], pool.assets[2]}, Valid(pool),
             pool_data' = insert(pool_data, p, pool)
      PROVE  live' \subseteq Pairs /\ \A q \in live' : Good(q)'
  <2>1. /\ live' = live \cup {p}
        /\ \A q \in live' : pool_data'[q] = IF q = p THEN pool ELSE pool_data[q]
    BY <1>6, Zenon DEF live, insert
  <2> QED
    BY <1>2, <1>3, <1>4, <1>6, <2>1, Zenon
<1>7. ASSUME NEW p \in live, NEW pool \in Pool, pool.assets = pool_data[p].assets, Valid(pool),
             pool_data' = [pool_data EXCEPT ![p] = pool]
      PROVE  live' \subseteq Pairs /\ \A q \in live' : Good(q)'
  <2>1. /\ live' = live
        /\ \A q \in live' : pool_data'[q] = IF q = p THEN pool ELSE pool_data[q]
    BY <1>7, Zenon DEF live
  <2>2. p = {pool.assets[1], pool.assets[2]}
    BY <1>2, <1>7, Zenon DEF Good
  <2> QED
    BY <1>2, <1>3, <1>4, <1>7, <2>1, <2>2, Zenon
<1>8. ASSUME NEW p \in live, pool_data' = remove(pool_data, p)
      PROVE  live' \subseteq Pairs /\ \A q \in live' : Good(q)'
  <2>1. live' = live \ {p} /\ \A q \in live' : pool_data'[q] = pool_data[q]
    BY <1>8, Zenon DEF live, remove
  <2> QED
    BY <1>2, <1>3, <2>1, Zenon
<1> QED
  BY <1>5, <1>6, <1>7, <1>8, PoolSteps, Zenon

\* There are no pools at first.
LEMMA PoolsInitially == Init => Pools
BY DEF Init, Pools, live, Empty

\* From its first block on a sale keeps its terms, and its pool goes only after
\* its last.
LEMMA StartedSale ==
    ASSUME Pools, [Next]_vars, NEW p \in live, has_pool_started(pool_data[p])
    PROVE  IF p \in live' THEN pool_data'[p] = pool_data[p] ELSE pool_data[p].end < now
<1>1. /\ pool_data[p].start \in Nat
      /\ pool_data[p].end \in Nat
      /\ now \in Nat
      /\ pool_data[p].start <= now
      /\ pool_data[p].end # None
  BY Zenon DEF Pools, Pool, Valid, has_pool_started
<1>2. CASE UNCHANGED pool_data
  BY <1>2, Zenon DEF live
<1>3. ASSUME NEW q, NEW pool, q \notin live, pool_data' = insert(pool_data, q, pool)
      PROVE  p \in live' /\ pool_data'[p] = pool_data[p]
  BY <1>3, Zenon DEF live, insert
<1>4. ASSUME NEW q \in live, NEW pool, ~has_pool_started(pool_data[q]),
             pool_data' = [pool_data EXCEPT ![q] = pool]
      PROVE  p \in live' /\ pool_data'[p] = pool_data[p]
  <2>1. q # p
    BY <1>4, Zenon
  <2> QED
    BY <1>4, <2>1, Zenon DEF live
<1>5. ASSUME NEW q \in live, ~is_pool_running(pool_data[q]), pool_data' = remove(pool_data, q)
      PROVE  IF p \in live' THEN pool_data'[p] = pool_data[p] ELSE pool_data[p].end < now
  <2>1. CASE q = p
    <3>1. p \notin live'
      BY <1>5, <2>1, Zenon DEF live, remove
    <3>2. pool_data[p].end < now
      BY <1>1, <1>5, <2>1 DEF is_pool_running, has_pool_started
    <3> QED
      BY <3>1, <3>2, Zenon
  <2>2. CASE q # p
    BY <1>5, <2>2, Zenon DEF live, remove
  <2> QED
    BY <2>1, <2>2, Zenon
<1> QED
  BY <1>2, <1>3, <1>4, <1>5, PoolSteps, Zenon

\* The terms of a sale are fixed once it has begun, whoever calls
\* update_pool_data or remove_liquidity in whatever block.
THEOREM FixedSale == Spec => SaleIsFixed
<1>1. ASSUME Pools, [Next]_vars, NEW p \in Pairs,
             p \in live, pool_data[p].start # None, pool_data[p].start <= now
      PROVE  IF p \in live' THEN pool_data'[p] = pool_data[p] ELSE pool_data[p].end < now
  BY <1>1, StartedSale, Zenon DEF has_pool_started
<1>2. Pools /\ [Next]_vars =>
        [\A p \in Pairs :
            p \in live /\ pool_data[p].start # None /\ pool_data[p].start <= now
                => IF p \in live' THEN pool_data'[p] = pool_data[p]
                                  ELSE pool_data[p].end < now]_vars
  BY <1>1, Zenon
<1> QED
  BY <1>2, PoolsInitially, PoolsKept, PTL DEF Spec, SaleIsFixed

\* A sale that XYK may create a pool after does not come back: it has started,
\* so update_pool_data refuses to give it new blocks.
THEOREM CreationAllowed == Spec => CreationStaysAllowed
<1>1. ASSUME Pools, [Next]_vars, NEW a \in Assets, NEW b \in Assets,
             get_pair_id(a, b) \in live, get_pair_id(a, b) \in live', can_create(a, b)
      PROVE  pool_data'[get_pair_id(a, b)].end < now'
  <2> USE <1>1
  <2>1. PICK p : p = get_pair_id(a, b)
    OBVIOUS
  <2>2. /\ p \in live /\ p \in live'
        /\ pool_data[p].end # None
        /\ pool_data[p].end < now
    BY <2>1, Zenon DEF can_create
  <2>3. /\ pool_data[p].start \in Nat
        /\ pool_data[p].end \in Nat
        /\ pool_data[p].start < pool_data[p].end
        /\ now \in Nat
        /\ pool_data[p].start # None
    BY <2>2, Zenon DEF Pools, Pool, Valid
  <2>4. has_pool_started(pool_data[p])
    BY <2>2, <2>3 DEF has_pool_started
  <2>5. pool_data'[p] = pool_data[p]
    BY <2>2, <2>4, StartedSale, Zenon
  <2>6. pool_data'[p].end < now'
    BY <2>2, <2>3, <2>5, Clock
  <2> QED
    BY <2>1, <2>6, Zenon
<1>2. Pools /\ [Next]_vars =>
        [\A a, b \in Assets :
            LET p == get_pair_id(a, b)
            IN  p \in live /\ p \in live' /\ can_create(a, b)
                   => pool_data'[p].end < now']_vars
  BY <1>1, Zenon
<1> QED
  BY <1>2, PoolsInitially, PoolsKept, PTL DEF Spec, CreationStaysAllowed

\* A weight on the line between two weights is between the bounds of both.
LEMMA OnTheLine ==
    ASSUME NEW w \in Nat, NEW v \in Nat, NEW max \in Nat,
           w \in 1 .. max - 1, v \in 1 .. max - 1,
           NEW left \in Nat, NEW gone \in Nat, left + gone > 0
    PROVE  (w * left + v * gone) \div (left + gone) \in 1 .. max - 1
<1>1. PICK d \in Nat : d = left + gone
  OBVIOUS
<1>2. PICK x \in Nat : x = w * left + v * gone
  OBVIOUS
<1>3. left <= w * left /\ gone <= v * gone
  OBVIOUS
<1>4. w * left <= (max - 1) * left /\ v * gone <= (max - 1) * gone
  OBVIOUS
<1>5. (max - 1) * left + (max - 1) * gone = (max - 1) * d
  BY <1>1
<1>6. d <= x /\ x <= (max - 1) * d /\ d > 0
  BY <1>1, <1>2, <1>3, <1>4, <1>5
<1>7. PICK q \in Int : q = x \div d
  BY <1>6
<1>8. d * q <= x /\ x < d * q + d
  BY <1>6, <1>7
<1>9. q >= 1
  <2>1. SUFFICES ASSUME q <= 0 PROVE FALSE
    OBVIOUS
  <2>2. d * q <= 0
    BY <1>6, <2>1
  <2> QED
    BY <1>6, <1>8, <2>2
<1>10. q <= max - 1
  <2>1. SUFFICES ASSUME q >= max PROVE FALSE
    OBVIOUS
  <2>2. d * q >= d * max
    BY <1>6, <2>1
  <2>3. (max - 1) * d = d * max - d
    OBVIOUS
  <2> QED
    BY <1>6, <1>8, <2>2, <2>3
<1> QED
  BY <1>1, <1>2, <1>7, <1>9, <1>10

\* Validated terms give both assets a weight in every block of the sale, the
\* first and the last included.
THEOREM Weights == Spec => []RunningSaleHasWeights
<1>1. ASSUME Pools, NEW p \in live, is_pool_running(pool_data[p])
      PROVE  /\ calculate_weights(pool_data[p], now) # None
             /\ \A i \in {1, 2} : calculate_weights(pool_data[p], now)[i] \in 1 .. MAX_WEIGHT - 1
  <2> USE <1>1
  <2> DEFINE pool == pool_data[p]
             x == (pool.initial_weight * (pool.end - now) + pool.final_weight * (now - pool.start))
                     \div (pool.end - pool.start)
  <2>1. /\ pool.start \in Nat /\ pool.end \in Nat /\ now \in Nat
        /\ pool.start # None /\ pool.end # None
        /\ pool.start <= now /\ now <= pool.end /\ pool.start < pool.end
        /\ pool.initial_weight \in Nat /\ pool.initial_weight \in 1 .. MAX_WEIGHT - 1
        /\ pool.final_weight \in Nat /\ pool.final_weight \in 1 .. MAX_WEIGHT - 1
    BY Zenon DEF Pools, Pool, Valid, is_pool_running
  <2>2. unwrap_or(pool.start, 0) = pool.start /\ unwrap_or(pool.end, 0) = pool.end
    BY <2>1, Zenon DEF unwrap_or
  <2>3. calculate_linear_weights(pool.start, pool.end, pool.initial_weight, pool.final_weight, now) = x
    BY <2>1, Zenon DEF calculate_linear_weights
  <2>4. x \in 1 .. MAX_WEIGHT - 1
    <3>1. PICK left \in Nat : left = pool.end - now
      BY <2>1
    <3>2. PICK gone \in Nat : gone = now - pool.start
      BY <2>1
    <3>3. left + gone = pool.end - pool.start /\ left + gone > 0
      BY <2>1, <3>1, <3>2
    <3>4. PICK w \in Nat : w = pool.initial_weight
      BY <2>1, Zenon
    <3>5. PICK v \in Nat : v = pool.final_weight
      BY <2>1, Zenon
    <3>6. (w * left + v * gone) \div (left + gone) \in 1 .. MAX_WEIGHT - 1
      BY <2>1, <3>3, <3>4, <3>5, OnTheLine, WeightAssumption, Zenon
    <3> QED
      BY <3>1, <3>2, <3>3, <3>4, <3>5, <3>6, Zenon
  <2> HIDE DEF pool, x
  <2>5. x # None /\ MAX_WEIGHT - x \in 1 .. MAX_WEIGHT - 1
    BY <2>4, NoneAssumption, WeightAssumption
  <2>6. calculate_weights(pool, now) = <<x, MAX_WEIGHT - x>>
    BY <2>2, <2>3, <2>5, Zenon DEF calculate_weights
  <2>7. <<x, MAX_WEIGHT - x>> # None
    BY <2>4, <2>5, NoneAssumption
  <2> QED
    BY <2>4, <2>5, <2>6, <2>7 DEF pool
<1>2. Pools => RunningSaleHasWeights
  BY <1>1, Zenon DEF RunningSaleHasWeights
<1> QED
  BY <1>2, PoolsInitially, PoolsKept, PTL DEF Spec

-----------------------------------------------------------------------------
(* The balances *)

\* Balances that are not negative are natural numbers.
LEMMA NotNegative ==
    ASSUME NEW K, NEW L, NEW f \in [K -> [L -> Int]], \A i \in K, j \in L : f[i][j] >= 0
    PROVE  f \in [K -> [L -> Nat]]
OBVIOUS

\* Nobody has less than nothing, or less than what is locked for fees that
\* were transferred to it.
Funds ==
    /\ wallet \in [Users -> [Assets -> Nat]]
    /\ reserve \in [Pairs -> [Assets -> Nat]]
    /\ lock \in [Users -> [Assets -> Nat]]
    /\ paid \in [Pairs -> Nat]
    /\ self_paid \in [Users -> [Assets -> Nat]]
    /\ \A u \in Users, a \in Assets : self_paid[u][a] <= lock[u][a]
    /\ \A u \in Users, a \in Assets : lock[u][a] - self_paid[u][a] <= wallet[u][a]

\* The owner pays into the pool what no lock keeps.
LEMMA PayingIn ==
    ASSUME Funds, NEW who \in Users, NEW p \in Pairs, NEW a \in Assets, NEW b \in Assets, a # b,
           NEW n \in Nat, NEW m \in Nat,
           PayIn(who, p, a, n, b, m), UNCHANGED <<lock, paid, self_paid>>
    PROVE  Funds'
<1>1. /\ wallet \in [Users -> [Assets -> Int]]
      /\ reserve \in [Pairs -> [Assets -> Int]]
  BY DEF Funds
<1>2. PICK w : w = withdraw(wallet, who, a, n)
  OBVIOUS
<1>3. /\ w \in [Users -> [Assets -> Int]]
      /\ \A u \in Users, e \in Assets : w[u][e] = IF u = who /\ e = a THEN wallet[u][e] - n ELSE wallet[u][e]
  BY <1>1, <1>2 DEF withdraw
<1>4. PICK r : r = deposit(reserve, p, a, n)
  OBVIOUS
<1>5. /\ r \in [Pairs -> [Assets -> Int]]
      /\ \A q \in Pairs, e \in Assets : r[q][e] = IF q = p /\ e = a THEN reserve[q][e] + n ELSE reserve[q][e]
  BY <1>1, <1>4 DEF deposit
<1>6. wallet' = withdraw(w, who, b, m) /\ reserve' = deposit(r, p, b, m)
  BY <1>2, <1>4, Zenon DEF PayIn
<1>7. /\ wallet' \in [Users -> [Assets -> Int]]
      /\ \A u \in Users, e \in Assets : wallet'[u][e] = IF u = who /\ e = b THEN w[u][e] - m ELSE w[u][e]
  BY <1>3, <1>6 DEF withdraw
<1>8. /\ reserve' \in [Pairs -> [Assets -> Int]]
      /\ \A q \in Pairs, e \in Assets : reserve'[q][e] = IF q = p /\ e = b THEN r[q][e] + m ELSE r[q][e]
  BY <1>5, <1>6 DEF deposit
<1>9. /\ n = 0 \/ wallet[who][a] - lock[who][a] >= n
      /\ m = 0 \/ wallet[who][b] - lock[who][b] >= m
  BY Zenon DEF PayIn, CanTransfer
<1>10. ASSUME NEW u \in Users, NEW e \in Assets
       PROVE  lock[u][e] - self_paid[u][e] <= wallet'[u][e] /\ wallet'[u][e] >= 0
  <2>1. /\ wallet[u][e] \in Nat /\ lock[u][e] \in Nat /\ self_paid[u][e] \in Nat
        /\ lock[u][e] - self_paid[u][e] <= wallet[u][e]
    BY Zenon DEF Funds
  <2>2. wallet'[u][e] = wallet[u][e] - (IF u = who /\ e = a THEN n ELSE 0)
                                     - (IF u = who /\ e = b THEN m ELSE 0)
    BY <1>3, <1>7, <2>1
  <2>3. CASE u = who /\ e = a
    BY <1>9, <2>1, <2>2, <2>3
  <2>4. CASE u = who /\ e = b
    BY <1>9, <2>1, <2>2, <2>4
  <2> QED
    BY <2>1, <2>2, <2>3, <2>4
<1>11. \A q \in Pairs, e \in Assets : reserve'[q][e] >= 0
  BY <1>5, <1>8, SMTT(30) DEF Funds
<1>12. wallet' \in [Users -> [Assets -> Nat]]
  BY <1>7, <1>10, NotNegative, Zenon
<1>13. reserve' \in [Pairs -> [Assets -> Nat]]
  BY <1>8, <1>11, NotNegative, Zenon
<1> QED
  BY <1>10, <1>12, <1>13, Zenon DEF Funds

\* A pool that is removed gives its funds and its lock back.
LEMMA PayingOut ==
    ASSUME Funds, Pools, NEW who \in Users, NEW p \in Pairs, remove_liquidity(who, p)
    PROVE  Funds'
<1>1. PICK a \in Assets, b \in Assets, c \in Users :
          /\ a # b
          /\ reserve' = [reserve EXCEPT ![p][a] = 0, ![p][b] = 0]
          /\ wallet' = deposit(deposit(wallet, who, a, reserve[p][a]), who, b, reserve[p][b])
          /\ lock' = [lock EXCEPT ![c][a] = 0]
          /\ self_paid' = [self_paid EXCEPT ![c][a] = 0]
          /\ paid' = [paid EXCEPT ![p] = 0]
  <2> DEFINE pool == pool_data[p]
  <2>1. /\ p \in live
        /\ reserve' = [reserve EXCEPT ![p][pool.assets[1]] = 0, ![p][pool.assets[2]] = 0]
        /\ wallet' = deposit(deposit(wallet, who, pool.assets[1], reserve[p][pool.assets[1]]),
                             who, pool.assets[2], reserve[p][pool.assets[2]])
        /\ lock' = [lock EXCEPT ![pool.fee_collector][pool.assets[1]] = 0]
        /\ self_paid' = [self_paid EXCEPT ![pool.fee_collector][pool.assets[1]] = 0]
        /\ paid' = [paid EXCEPT ![p] = 0]
    BY Zenon DEF remove_liquidity, Unlocked
  <2>2. pool \in Pool /\ p = {pool.assets[1], pool.assets[2]}
    BY <2>1, Zenon DEF Pools
  <2>3. pool.assets[1] \in Assets /\ pool.assets[2] \in Assets /\ pool.fee_collector \in Users
    BY <2>2, Zenon DEF Pool
  <2>4. pool.assets[1] # pool.assets[2]
    BY <2>2, Zenon DEF Pairs
  <2> HIDE DEF pool
  <2> QED
    BY <2>1, <2>3, <2>4, Zenon
<1>2. /\ reserve' \in [Pairs -> [Assets -> Nat]]
      /\ lock' \in [Users -> [Assets -> Nat]]
      /\ self_paid' \in [Users -> [Assets -> Nat]]
      /\ paid' \in [Pairs -> Nat]
  BY <1>1, Zenon DEF Funds
<1>3. ASSUME NEW u \in Users, NEW e \in Assets
      PROVE  /\ self_paid'[u][e] <= lock'[u][e]
             /\ lock'[u][e] - self_paid'[u][e] <= lock[u][e] - self_paid[u][e]
  <2>1. /\ lock[u][e] \in Nat /\ self_paid[u][e] \in Nat
        /\ self_paid[u][e] <= lock[u][e]
    BY Zenon DEF Funds
  <2>2. /\ lock'[u][e] = IF u = c /\ e = a THEN 0 ELSE lock[u][e]
        /\ self_paid'[u][e] = IF u = c /\ e = a THEN 0 ELSE self_paid[u][e]
    BY <1>1 DEF Funds
  <2> QED
    BY <2>1, <2>2
<1>4. PICK n \in Nat, m \in Nat : n = reserve[p][a] /\ m = reserve[p][b]
  BY Zenon DEF Funds
<1>5. wallet \in [Users -> [Assets -> Int]]
  BY DEF Funds
<1>6. PICK w : w = deposit(wallet, who, a, n)
  OBVIOUS
<1>7. /\ w \in [Users -> [Assets -> Int]]
      /\ \A u \in Users, e \in Assets : w[u][e] = IF u = who /\ e = a THEN wallet[u][e] + n ELSE wallet[u][e]
  BY <1>5, <1>6 DEF deposit
<1>8. wallet' = deposit(w, who, b, m)
  BY <1>1, <1>4, <1>6, Zenon
<1>9. /\ wallet' \in [Users -> [Assets -> Int]]
      /\ \A u \in Users, e \in Assets : wallet'[u][e] = IF u = who /\ e = b THEN w[u][e] + m ELSE w[u][e]
  BY <1>7, <1>8 DEF deposit
<1>10. ASSUME NEW u \in Users, NEW e \in Assets
       PROVE  wallet[u][e] <= wallet'[u][e] /\ wallet'[u][e] >= 0
  <2>1. wallet[u][e] \in Nat
    BY Zenon DEF Funds
  <2>2. w[u][e] \in Int /\ wallet[u][e] <= w[u][e]
    BY <1>7, <2>1
  <2>3. w[u][e] <= wallet'[u][e]
    BY <1>9, <2>2
  <2> QED
    BY <1>9, <2>1, <2>2, <2>3
<1>11. wallet' \in [Users -> [Assets -> Nat]]
  BY <1>9, <1>10, NotNegative, Zenon
<1>12. ASSUME NEW u \in Users, NEW e \in Assets
       PROVE  lock'[u][e] - self_paid'[u][e] <= wallet'[u][e]
  <2>1. /\ lock[u][e] \in Nat /\ self_paid[u][e] \in Nat /\ wallet[u][e] \in Nat
        /\ lock[u][e] - self_paid[u][e] <= wallet[u][e]
    BY Zenon DEF Funds
  <2>2. lock'[u][e] \in Nat /\ self_paid'[u][e] \in Nat /\ wallet'[u][e] \in Nat
    BY <1>2, <1>11, Zenon
  <2> QED
    BY <1>3, <1>10, <2>1, <2>2
<1> QED
  BY <1>2, <1>3, <1>11, <1>12, Zenon DEF Funds

\* Who pays what in a trade of n against m for a fee of x, account by account.
\* The collector c may be the trader.
Moves(who, a, b, n, m, x, c, f) ==
    /\ wallet' \in [Users -> [Assets -> Int]]
    /\ \A u \in Users, e \in Assets :
          wallet'[u][e] = wallet[u][e] - (IF u = who /\ e = a THEN n ELSE 0)
                                       + (IF u = who /\ e = b THEN m ELSE 0)
                                       - (IF f = a /\ u = who /\ e = a THEN x ELSE 0)
                                       + (IF u = c /\ e = f THEN x ELSE 0)

\* What a trade does to the ledger, the lock and the fees of its pool.
LEMMA TradeEffect ==
    ASSUME Funds, Pools, NEW who \in Users, NEW a \in Assets, NEW b \in Assets, {a, b} \in live,
           NEW t, NEW n \in Nat, NEW m \in Nat, NEW x \in Nat,
           t.amount = n, t.amount_out = m, t.fee = x, execute_trade(who, a, b, t)
    PROVE  /\ a # b
           /\ Collector({a, b}) \in Users
           /\ FeeAsset({a, b}) \in {a, b}
           /\ Moves(who, a, b, n, m, x, Collector({a, b}), FeeAsset({a, b}))
<1> DEFINE p == {a, b}
           pool == pool_data[p]
<1>1. pool \in Pool /\ p = {pool.assets[1], pool.assets[2]} /\ p \in Pairs
  BY Zenon DEF Pools
<1>2. PICK c \in Users : c = pool.fee_collector
  BY <1>1, Zenon DEF Pool
<1>3. PICK f \in {a, b} : f = pool.assets[1]
  BY <1>1, Zenon
<1>4. a # b
  BY <1>1, Zenon DEF Pairs
<1>5. c = Collector(p) /\ f = FeeAsset(p)
  BY <1>2, <1>3, Zenon DEF Collector, FeeAsset
<1>6. PICK w1 : w1 = withdraw(wallet, who, a, n)
  OBVIOUS
<1>7. PICK w2 : w2 = deposit(w1, who, b, m)
  OBVIOUS
<1>8. PICK w3 : w3 = IF f = a THEN withdraw(w2, who, f, x) ELSE w2
  OBVIOUS
<1>9. wallet' = deposit(w3, c, f, x)
  BY <1>2, <1>3, <1>6, <1>7, <1>8, Zenon DEF execute_trade, get_pair_id, PaidByTrader
<1> HIDE DEF p, pool
<1>11. wallet \in [Users -> [Assets -> Int]]
  BY DEF Funds
<1>12. /\ w1 \in [Users -> [Assets -> Int]]
       /\ \A u \in Users, e \in Assets :
             w1[u][e] = wallet[u][e] - (IF u = who /\ e = a THEN n ELSE 0)
  BY <1>6, <1>11 DEF withdraw
<1>13. /\ w2 \in [Users -> [Assets -> Int]]
       /\ \A u \in Users, e \in Assets :
             w2[u][e] = w1[u][e] + (IF u = who /\ e = b THEN m ELSE 0)
  BY <1>7, <1>12 DEF deposit
<1>14. /\ w3 \in [Users -> [Assets -> Int]]
       /\ \A u \in Users, e \in Assets :
             w3[u][e] = w2[u][e] - (IF f = a /\ u = who /\ e = a THEN x ELSE 0)
  <2>1. CASE f = a
    BY <1>8, <1>13, <2>1 DEF withdraw
  <2>2. CASE f # a
    BY <1>8, <1>13, <2>2
  <2> QED
    BY <2>1, <2>2, Zenon
<1>15. /\ wallet' \in [Users -> [Assets -> Int]]
       /\ \A u \in Users, e \in Assets :
             wallet'[u][e] = w3[u][e] + (IF u = c /\ e = f THEN x ELSE 0)
  BY <1>9, <1>14 DEF deposit
<1>16. \A u \in Users, e \in Assets :
          wallet'[u][e] = wallet[u][e] - (IF u = who /\ e = a THEN n ELSE 0)
                                       + (IF u = who /\ e = b THEN m ELSE 0)
                                       - (IF f = a /\ u = who /\ e = a THEN x ELSE 0)
                                       + (IF u = c /\ e = f THEN x ELSE 0)
  <2>1. TAKE u \in Users, e \in Assets
  <2>2. w1[u][e] \in Int /\ w2[u][e] \in Int /\ w3[u][e] \in Int /\ wallet[u][e] \in Int
    BY <1>11, <1>12, <1>13, <1>14
  <2>3. /\ w1[u][e] = wallet[u][e] - (IF u = who /\ e = a THEN n ELSE 0)
        /\ w2[u][e] = w1[u][e] + (IF u = who /\ e = b THEN m ELSE 0)
        /\ w3[u][e] = w2[u][e] - (IF f = a /\ u = who /\ e = a THEN x ELSE 0)
        /\ wallet'[u][e] = w3[u][e] + (IF u = c /\ e = f THEN x ELSE 0)
    <3>1. w1[u][e] = wallet[u][e] - (IF u = who /\ e = a THEN n ELSE 0)
      BY <1>12, Zenon
    <3>2. w2[u][e] = w1[u][e] + (IF u = who /\ e = b THEN m ELSE 0)
      BY <1>13, Zenon
    <3>3. w3[u][e] = w2[u][e] - (IF f = a /\ u = who /\ e = a THEN x ELSE 0)
      BY <1>14, Zenon
    <3>4. wallet'[u][e] = w3[u][e] + (IF u = c /\ e = f THEN x ELSE 0)
      BY <1>15, Zenon
    <3> QED
      BY <3>1, <3>2, <3>3, <3>4, Zenon
  <2> QED
    BY <2>2, <2>3
<1>17. Moves(who, a, b, n, m, x, c, f)
  BY <1>15, <1>16, Zenon DEF Moves
<1> QED
  BY <1>4, <1>5, <1>17, ZenonT(30) DEF p

\* The account of the pool has what it pays.
LEMMA PoolPays ==
    ASSUME Funds, Pools, NEW who \in Users, NEW a \in Assets, NEW b \in Assets, {a, b} \in live,
           NEW t, NEW n \in Nat, NEW m \in Nat, NEW x \in Nat,
           t.amount = n, t.amount_out = m, t.fee = x, execute_trade(who, a, b, t)
    PROVE  reserve' \in [Pairs -> [Assets -> Nat]] /\ paid' \in [Pairs -> Nat]
<1>1. PICK p \in Pairs : p = {a, b}
  BY Zenon DEF Pools
<1>2. a # b
  BY <1>1, Zenon DEF Pairs
<1>3. PICK f \in {a, b} : f = FeeAsset(p)
  BY <1>1, Zenon DEF Pools, FeeAsset
<1>4. PICK r1 : r1 = deposit(reserve, p, a, n)
  OBVIOUS
<1>5. PICK r2 : r2 = withdraw(r1, p, b, m)
  OBVIOUS
<1>6. /\ reserve[p][b] >= m
      /\ f = a \/ r2[p][f] >= x
      /\ reserve' = IF f = a THEN r2 ELSE withdraw(r2, p, f, x)
      /\ paid' = [paid EXCEPT ![p] = paid[p] + x]
  BY <1>1, <1>3, <1>4, <1>5, Zenon DEF execute_trade, get_pair_id, PaidByTrader, FeeAsset
<1>7. reserve \in [Pairs -> [Assets -> Nat]]
  BY Zenon DEF Funds
<1>8. r1 \in [Pairs -> [Assets -> Nat]] /\ r1[p][b] = reserve[p][b]
  BY <1>2, <1>4, <1>7, SMTT(30) DEF deposit
<1>9. r2 \in [Pairs -> [Assets -> Nat]]
  BY <1>5, <1>6, <1>8 DEF withdraw
<1>10. reserve' \in [Pairs -> [Assets -> Nat]]
  <2>1. CASE f = a
    BY <1>6, <1>9, <2>1, Zenon
  <2>2. CASE f # a
    BY <1>6, <1>9, <2>2 DEF withdraw
  <2> QED
    BY <2>1, <2>2, Zenon
<1> QED
  BY <1>6, <1>10 DEF Funds

\* The amounts of a trade.
LEMMA TradeAmounts ==
    ASSUME Funds, Pools, NEW who, NEW a \in Assets, NEW b \in Assets, {a, b} \in live,
           NEW amount \in Amounts, NEW limit \in Limits, NEW other \in Nat, NEW t,
           \/ /\ validate_sell(who, a, b, amount, limit, other)
              /\ t = sell_transfer(a, b, amount, other)
           \/ /\ validate_buy(who, a, b, amount, limit, other)
              /\ t = buy_transfer(a, b, amount, other)
    PROVE  t.amount \in Nat /\ t.amount_out \in Nat /\ t.fee \in Nat
<1> DEFINE pool == pool_data[{a, b}]
<1>1. pool \in Pool /\ pool.fee[2] # 0
  BY Zenon DEF Pools, Valid
<1>2. ASSUME NEW n \in Nat PROVE calculate_fees(pool, n) \in Nat
  <2>1. PICK rate \in Nat \X (Nat \ {0}) :
            rate = IF is_repay_fee_applied(pool) THEN repay_fee ELSE pool.fee
    BY <1>1, FeeAssumption, Zenon DEF Pool
  <2>2. calculate_fees(pool, n) = (n \div rate[2]) * rate[1]
    BY <2>1, Zenon DEF calculate_fees, calculate_pool_trade_fee
  <2>3. rate[2] \in Nat /\ rate[2] # 0 /\ rate[1] \in Nat
    BY <2>1, Zenon
  <2>4. PICK q \in Nat : q = n \div rate[2]
    BY <2>3
  <2> QED
    BY <2>2, <2>3, <2>4
<1>3. amount \in Nat
  BY AmountAssumption, Zenon
<1>4. PICK x \in Nat : x = calculate_fees(pool, amount)
  BY <1>2, <1>3, Zenon
<1>5. PICK y \in Nat : y = calculate_fees(pool, other)
  BY <1>2, Zenon
<1>6. CASE /\ validate_sell(who, a, b, amount, limit, other)
           /\ t = sell_transfer(a, b, amount, other)
  <2>1. t.amount >= 0 /\ t.amount_out >= 0
    BY <1>6, Zenon DEF validate_sell
  <2>2. t = IF pool.assets[1] = a
            THEN [amount |-> amount - x, amount_out |-> other, fee |-> x]
            ELSE [amount |-> amount, amount_out |-> other - y, fee |-> y]
    BY <1>4, <1>5, <1>6, ZenonT(40) DEF sell_transfer, get_pair_id
  <2> QED
    BY <1>3, <2>1, <2>2
<1>7. CASE /\ validate_buy(who, a, b, amount, limit, other)
           /\ t = buy_transfer(a, b, amount, other)
  <2>1. t.amount >= 0
    BY <1>7, Zenon DEF validate_buy
  <2>2. t = IF pool.assets[1] = b
            THEN [amount |-> other, amount_out |-> amount, fee |-> x]
            ELSE [amount |-> other - y, amount_out |-> amount, fee |-> y]
    BY <1>4, <1>5, <1>7, Zenon DEF buy_transfer, get_pair_id
  <2> QED
    BY <1>3, <2>1, <2>2
<1> QED
  BY <1>6, <1>7, Zenon

\* A trade takes nothing that is locked, and locks what the collector gets, or
\* what it owes to itself.
LEMMA TradeFunds ==
    ASSUME Funds, Pools, NEW who \in Users, NEW a \in Assets, NEW b \in Assets, {a, b} \in live,
           NEW t, t.amount \in Nat, t.amount_out \in Nat, t.fee \in Nat, execute_trade(who, a, b, t)
    PROVE  Funds'
<1>1. PICK n \in Nat, m \in Nat, x \in Nat : t.amount = n /\ t.amount_out = m /\ t.fee = x
  OBVIOUS
<1>2. PICK c \in Users, f \in {a, b} :
          /\ f = FeeAsset({a, b})
          /\ c = Collector({a, b})
          /\ a # b
          /\ Moves(who, a, b, n, m, x, c, f)
  <2>1. /\ a # b
        /\ Collector({a, b}) \in Users
        /\ FeeAsset({a, b}) \in {a, b}
        /\ Moves(who, a, b, n, m, x, Collector({a, b}), FeeAsset({a, b}))
    BY <1>1, TradeEffect, Zenon
  <2> QED
    BY <2>1, Zenon
<1>3. reserve' \in [Pairs -> [Assets -> Nat]] /\ paid' \in [Pairs -> Nat]
  BY <1>1, PoolPays, Zenon
<1>4. wallet \in [Users -> [Assets -> Nat]] /\ lock \in [Users -> [Assets -> Nat]]
  BY Zenon DEF Funds
<1>5. /\ lock' \in [Users -> [Assets -> Nat]]
      /\ \A u \in Users, e \in Assets : lock'[u][e] = lock[u][e] + (IF u = c /\ e = f THEN x ELSE 0)
  <2>1. lock' = [lock EXCEPT ![c][f] = lock[c][f] + x]
    BY <1>1, <1>2, Zenon
    DEF execute_trade, get_pair_id, LockAfter, collected_fees, get_by_lock, Collector, FeeAsset
  <2> QED
    BY <1>4, <2>1
<1>6. n = 0 \/ wallet[who][a] - lock[who][a] >= n
  BY <1>1, Zenon DEF execute_trade, CanTransfer
<1>7. f # a \/ who = c \/ x = 0 \/ wallet[who][a] - n - lock[who][a] >= x
  <2>1. SUFFICES ASSUME f = a, who # c PROVE x = 0 \/ wallet[who][a] - n - lock[who][a] >= x
    OBVIOUS
  <2>2. PICK w : w = deposit(withdraw(wallet, who, a, n), who, b, m)
    OBVIOUS
  <2>3. CanTransfer(w, who, a, x)
    BY <1>1, <1>2, <2>1, <2>2, Zenon
    DEF execute_trade, get_pair_id, PaidByTrader, CanPay, FeeAsset, Collector
  <2>4. w[who][a] = wallet[who][a] - n
    BY <1>2, <1>4, <2>2, Zenon DEF deposit, withdraw
  <2> QED
    BY <2>3, <2>4, Zenon DEF CanTransfer
<1>10. /\ self_paid' \in [Users -> [Assets -> Nat]]
       /\ \A u \in Users, e \in Assets :
             self_paid'[u][e] = self_paid[u][e] + (IF u = c /\ e = f /\ f = a /\ who = c THEN x ELSE 0)
  <2>1. PICK y \in Nat : y = IF f = a /\ who = c THEN x ELSE 0
    OBVIOUS
  <2>2. self_paid' = [self_paid EXCEPT ![c][f] = self_paid[c][f] + y]
    BY <1>1, <1>2, <2>1, Zenon DEF execute_trade, get_pair_id, PaidByTrader, Collector, FeeAsset
  <2>3. self_paid \in [Users -> [Assets -> Nat]]
    BY Zenon DEF Funds
  <2>4. /\ self_paid' \in [Users -> [Assets -> Nat]]
        /\ \A u \in Users, e \in Assets :
              self_paid'[u][e] = self_paid[u][e] + (IF u = c /\ e = f THEN y ELSE 0)
    BY <2>2, <2>3
  <2> QED
    BY <2>1, <2>4
<1>8. ASSUME NEW u \in Users, NEW e \in Assets
      PROVE  /\ self_paid'[u][e] <= lock'[u][e]
             /\ lock'[u][e] - self_paid'[u][e] <= wallet'[u][e]
             /\ wallet'[u][e] >= 0
  <2>1. /\ lock[u][e] \in Nat /\ wallet[u][e] \in Nat /\ self_paid[u][e] \in Nat
        /\ self_paid[u][e] <= lock[u][e] /\ lock[u][e] - self_paid[u][e] <= wallet[u][e]
    BY Zenon DEF Funds
  <2>2. lock'[u][e] = lock[u][e] + (IF u = c /\ e = f THEN x ELSE 0)
    BY <1>5, Zenon
  <2>6. self_paid'[u][e] = self_paid[u][e] + (IF u = c /\ e = f /\ f = a /\ who = c THEN x ELSE 0)
    BY <1>10, Zenon
  <2>3. wallet'[u][e] = wallet[u][e] - (IF u = who /\ e = a THEN n ELSE 0)
                                     + (IF u = who /\ e = b THEN m ELSE 0)
                                     - (IF f = a /\ u = who /\ e = a THEN x ELSE 0)
                                     + (IF u = c /\ e = f THEN x ELSE 0)
    BY <1>2, ZenonT(40) DEF Moves
  <2>4. CASE u = who /\ e = a
    <3>1. CASE f = a /\ who = c
      <4>1. /\ wallet'[u][e] = wallet[u][e] - n
            /\ lock'[u][e] = lock[u][e] + x
            /\ self_paid'[u][e] = self_paid[u][e] + x
        BY <1>2, <2>1, <2>2, <2>3, <2>4, <2>6, <3>1, SMTT(30)
      <4>2. n = 0 \/ wallet[u][e] - lock[u][e] >= n
        BY <1>6, <2>4, ZenonT(40)
      <4> QED
        BY <2>1, <4>1, <4>2, SMTT(30)
    <3>2. CASE f = a /\ who # c
      <4>1. /\ wallet'[u][e] = wallet[u][e] - n - x
            /\ lock'[u][e] = lock[u][e]
            /\ self_paid'[u][e] = self_paid[u][e]
        BY <1>2, <2>1, <2>2, <2>3, <2>4, <2>6, <3>2, SMTT(30)
      <4>2. /\ n = 0 \/ wallet[u][e] - lock[u][e] >= n
            /\ x = 0 \/ wallet[u][e] - n - lock[u][e] >= x
        BY <1>6, <1>7, <2>4, <3>2, ZenonT(40)
      <4> QED
        BY <2>1, <4>1, <4>2, SMTT(30)
    <3>3. CASE f # a
      <4>1. /\ wallet'[u][e] = wallet[u][e] - n
            /\ lock'[u][e] = lock[u][e]
            /\ self_paid'[u][e] = self_paid[u][e]
        BY <1>2, <2>1, <2>2, <2>3, <2>4, <2>6, <3>3, SMTT(30)
      <4>2. n = 0 \/ wallet[u][e] - lock[u][e] >= n
        BY <1>6, <2>4, Zenon
      <4> QED
        BY <2>1, <4>1, <4>2, SMTT(30)
    <3> QED
      BY <3>1, <3>2, <3>3, ZenonT(40)
  <2>5. CASE ~(u = who /\ e = a)
    BY <2>1, <2>2, <2>3, <2>5, <2>6, SMTT(30)
  <2> QED
    BY <2>4, <2>5, Zenon
<1>9. wallet' \in [Users -> [Assets -> Nat]]
  BY <1>2, <1>8, NotNegative, Zenon DEF Moves
<1> QED
  BY <1>3, <1>5, <1>8, <1>9, <1>10, Zenon DEF Funds

\* Every trade is an execution of amounts that are not negative.
LEMMA Payments ==
    ASSUME Funds, Pools, NEW who, NEW a \in Assets, NEW b \in Assets, NEW n \in Amounts, Trade(who, a, b, n)
    PROVE  \E t : /\ t.amount \in Nat /\ t.amount_out \in Nat /\ t.fee \in Nat
                  /\ execute_trade(who, a, b, t)
<1>1. {a, b} \in live
  BY ZenonT(40) DEF Trade, get_pair_id
<1>2. reserve[{a, b}][a] \in Nat /\ reserve[{a, b}][b] \in Nat
  BY <1>1, SMTT(30) DEF Funds, Pools
<1>3. PICK limit \in Limits, other \in Nat :
          sell(who, a, b, n, limit, other) \/ buy(who, a, b, n, limit, other)
  BY <1>2 DEF Trade, get_pair_id, lbp_out_given_in, lbp_in_given_out
<1>4. PICK t : /\ \/ /\ validate_sell(who, a, b, n, limit, other)
                     /\ t = sell_transfer(a, b, n, other)
                  \/ /\ validate_buy(who, a, b, n, limit, other)
                     /\ t = buy_transfer(a, b, n, other)
               /\ execute_trade(who, a, b, t)
  BY <1>3, Zenon DEF sell, buy
<1>5. t.amount \in Nat /\ t.amount_out \in Nat /\ t.fee \in Nat
  BY <1>1, <1>4, TradeAmounts, Zenon
<1> QED
  BY <1>4, <1>5, Zenon

\* Transfers leave the locked funds where they are.
LEMMA TransferFunds ==
    ASSUME Funds, NEW from \in Users, NEW asset \in Assets, NEW n \in Nat,
           CanTransfer(wallet, from, asset, n), UNCHANGED <<lock, paid, self_paid>>,
           \/ /\ \E to \in Users : wallet' = deposit(withdraw(wallet, from, asset, n), to, asset, n)
              /\ UNCHANGED reserve
           \/ /\ wallet' = withdraw(wallet, from, asset, n)
              /\ \E p \in Pairs : reserve' = deposit(reserve, p, asset, n)
    PROVE  Funds'
<1>1. /\ wallet \in [Users -> [Assets -> Nat]]
      /\ lock \in [Users -> [Assets -> Nat]]
      /\ self_paid \in [Users -> [Assets -> Nat]]
  BY Zenon DEF Funds
<1>2. n = 0 \/ wallet[from][asset] - lock[from][asset] >= n
  BY Zenon DEF CanTransfer
<1>3. PICK w : w = withdraw(wallet, from, asset, n)
  OBVIOUS
<1>4. /\ w \in [Users -> [Assets -> Nat]]
      /\ \A u \in Users, e \in Assets : lock[u][e] - self_paid[u][e] <= w[u][e]
  <2>1. /\ w \in [Users -> [Assets -> Int]]
        /\ \A u \in Users, e \in Assets :
              w[u][e] = IF u = from /\ e = asset THEN wallet[u][e] - n ELSE wallet[u][e]
    BY <1>1, <1>3 DEF withdraw
  <2>2. ASSUME NEW u \in Users, NEW e \in Assets
        PROVE  w[u][e] >= 0 /\ lock[u][e] - self_paid[u][e] <= w[u][e]
    <3>1. /\ wallet[u][e] \in Nat /\ lock[u][e] \in Nat /\ self_paid[u][e] \in Nat
          /\ lock[u][e] - self_paid[u][e] <= wallet[u][e]
      BY Zenon DEF Funds
    <3>2. w[u][e] = IF u = from /\ e = asset THEN wallet[u][e] - n ELSE wallet[u][e]
      BY <2>1, Zenon
    <3> QED
      BY <1>2, <3>1, <3>2
  <2> QED
    BY <2>1, <2>2, NotNegative, Zenon
<1>5. ASSUME NEW to \in Users, wallet' = deposit(w, to, asset, n), UNCHANGED reserve
      PROVE  Funds'
  <2>1. /\ wallet' \in [Users -> [Assets -> Nat]]
        /\ \A u \in Users, e \in Assets : w[u][e] <= wallet'[u][e]
    BY <1>4, <1>5 DEF deposit
  <2>2. \A u \in Users, e \in Assets : lock[u][e] - self_paid[u][e] <= wallet'[u][e]
    BY <1>1, <1>4, <2>1
  <2> QED
    BY <1>5, <2>1, <2>2, ZenonT(40) DEF Funds
<1>6. ASSUME NEW p \in Pairs, wallet' = w, reserve' = deposit(reserve, p, asset, n)
      PROVE  Funds'
  <2>1. reserve' \in [Pairs -> [Assets -> Nat]]
    BY <1>6 DEF Funds, deposit
  <2> QED
    BY <1>4, <1>6, <2>1, Zenon DEF Funds
<1> QED
  BY <1>3, <1>5, <1>6, Zenon

\* The funds are safe whatever happens.
LEMMA FundsKept == Funds /\ Pools /\ [Next]_vars => Funds'
<1> SUFFICES ASSUME Funds, Pools, [Next]_vars PROVE Funds'
  OBVIOUS
<1>1. CASE UNCHANGED <<wallet, reserve, lock, paid, self_paid>>
  BY <1>1, Zenon DEF Funds
<1>2. ASSUME NEW who \in Users, NEW a \in Assets, NEW b \in Assets, NEW n \in Amounts, NEW m \in Amounts,
             \/ \E terms \in Terms, c \in Users : create_pool(who, a, n, b, m, terms, c)
             \/ add_liquidity(who, a, n, b, m)
      PROVE  Funds'
  <2>1. a # b /\ {a, b} \in Pairs
    <3>1. CASE a # b
      BY <3>1, Zenon DEF Pairs
    <3>2. CASE {a, b} \in live
      BY <3>2 DEF Pools, Pairs
    <3> QED
      BY <1>2, <3>1, <3>2, Zenon DEF create_pool, add_liquidity, get_pair_id
  <2>2. /\ PayIn(who, {a, b}, a, n, b, m)
        /\ UNCHANGED <<lock, paid, self_paid>>
    BY <1>2, Zenon DEF create_pool, add_liquidity, get_pair_id
  <2>3. n \in Nat /\ m \in Nat
    BY AmountAssumption, Zenon
  <2> QED
    BY <2>1, <2>2, <2>3, PayingIn, Zenon
<1>3. ASSUME NEW who, NEW p, NEW update, update_pool_data(who, p, update)
      PROVE  Funds'
  BY <1>1, <1>3, Zenon DEF update_pool_data
<1>4. ASSUME NEW who \in Users, NEW p \in Pairs, remove_liquidity(who, p)
      PROVE  Funds'
  BY <1>4, PayingOut, Zenon
<1>5. ASSUME NEW who \in Users, NEW a \in Assets, NEW b \in Assets, NEW n \in Amounts, Trade(who, a, b, n)
      PROVE  Funds'
  <2>1. {a, b} \in live
    BY <1>5, Zenon DEF Trade, get_pair_id
  <2>2. PICK t : /\ t.amount \in Nat /\ t.amount_out \in Nat /\ t.fee \in Nat
                 /\ execute_trade(who, a, b, t)
    BY <1>5, Payments, Zenon
  <2> QED
    BY <2>1, <2>2, TradeFunds, Zenon
<1>6. ASSUME NEW from \in Users, NEW asset \in Assets, NEW n \in Amounts,
             \/ \E to \in Users : Transfer(from, to, asset, n)
             \/ \E p \in Pairs : TransferToPool(from, p, asset, n)
      PROVE  Funds'
  <2>1. n \in Nat
    BY AmountAssumption, Zenon
  <2>2. ASSUME NEW to \in Users, Transfer(from, to, asset, n)
        PROVE  Funds'
    <3>1. /\ CanTransfer(wallet, from, asset, n)
          /\ wallet' = deposit(withdraw(wallet, from, asset, n), to, asset, n)
          /\ UNCHANGED reserve
          /\ UNCHANGED <<lock, paid, self_paid>>
      BY <2>2, Zenon DEF Transfer
    <3> QED
      BY <2>1, <3>1, TransferFunds, Zenon
  <2>3. ASSUME NEW p \in Pairs, TransferToPool(from, p, asset, n)
        PROVE  Funds'
    <3>1. /\ CanTransfer(wallet, from, asset, n)
          /\ wallet' = withdraw(wallet, from, asset, n)
          /\ reserve' = deposit(reserve, p, asset, n)
          /\ UNCHANGED <<lock, paid, self_paid>>
      BY <2>3, Zenon DEF TransferToPool
    <3> QED
      BY <2>1, <3>1, TransferFunds, Zenon
  <2> QED
    BY <1>6, <2>2, <2>3, Zenon
<1>7. CASE NextBlock
  BY <1>1, <1>7, Zenon DEF NextBlock
<1> QED
  BY <1>1, <1>2, <1>3, <1>4, <1>5, <1>6, <1>7, Zenon DEF Next, vars

\* Nothing is locked at first, and the users have their endowments.
LEMMA FundsInitially == Init => Funds
BY EndowmentAssumption DEF Init, Funds

\* The fees that were transferred to a collector and are still locked are on its
\* account, all that is locked besides is fees it owed to itself, and no trade,
\* transfer or removal leaves a user or a pool with less than nothing.
THEOREM LockedFees == Spec => []LockedFeesAreHeld
<1>1. IndInv /\ Pools /\ Funds => LockedFeesAreHeld
  <2> SUFFICES ASSUME IndInv, Pools, Funds PROVE LockedFeesAreHeld
    OBVIOUS
  <2>1. fee_collector_with_asset \subseteq Users \X Assets
    BY DEF IndInv, Bijection, Shape
  <2>2. TypeOK
    BY <2>1, Zenon DEF TypeOK, Pools, Funds
  <2> QED
    BY <2>2, Zenon DEF LockedFeesAreHeld, Funds
<1> QED
  BY <1>1, Initially, Induction, PoolsInitially, PoolsKept, FundsInitially, FundsKept, PTL DEF Spec

\* What the two kinds of trade cost and bring somebody who is not the collector.
LEMMA TradeLimits ==
    ASSUME Funds, Pools, NEW a \in Assets, NEW b \in Assets, {a, b} \in live,
           NEW who \in Users, who # Collector({a, b}), NEW amount \in Amounts, NEW limit \in Limits,
           NEW other \in Nat
    PROVE  /\ sell(who, a, b, amount, limit, other) => Gain(who, a) = -amount /\ Gain(who, b) >= limit
           /\ buy(who, a, b, amount, limit, other) => Gain(who, a) >= -limit /\ Gain(who, b) = amount
<1>1. amount \in Nat /\ limit \in Nat
  BY AmountAssumption, Zenon
<1>2. wallet[who][a] \in Nat /\ wallet[who][b] \in Nat
  BY Zenon DEF Funds
<1>3. PICK f : f = FeeAsset({a, b})
  BY SMTT(30)
<1>4. ASSUME NEW t, NEW n \in Nat, NEW m \in Nat, NEW x \in Nat,
             t.amount = n, t.amount_out = m, t.fee = x, execute_trade(who, a, b, t)
      PROVE  /\ Gain(who, a) = -(n + (IF f = a THEN x ELSE 0))
             /\ Gain(who, b) = m
             /\ f \in {a, b}
  <2>1. /\ a # b
        /\ f \in {a, b}
        /\ Moves(who, a, b, n, m, x, Collector({a, b}), f)
    BY <1>3, <1>4, TradeEffect, Zenon
  <2>2. /\ wallet'[who][a] = wallet[who][a] - n - (IF f = a THEN x ELSE 0)
        /\ wallet'[who][b] = wallet[who][b] + m
    <3>1. PICK c : c = Collector({a, b}) /\ c # who
      OBVIOUS
    <3>2. \A e \in Assets :
             wallet'[who][e] = wallet[who][e] - (IF e = a THEN n ELSE 0)
                                              + (IF e = b THEN m ELSE 0)
                                              - (IF f = a /\ e = a THEN x ELSE 0)
                                              + (IF who = c /\ e = f THEN x ELSE 0)
      BY <2>1, <3>1, Zenon DEF Moves
    <3>3. wallet'[who][a] = wallet[who][a] - n - (IF f = a THEN x ELSE 0)
      BY <1>2, <2>1, <3>1, <3>2, SMTT(30)
    <3>4. wallet'[who][b] = wallet[who][b] + m
      BY <1>2, <2>1, <3>1, <3>2
    <3> QED
      BY <3>3, <3>4, Zenon
  <2> QED
    BY <1>2, <2>1, <2>2 DEF Gain
<1>5. ASSUME sell(who, a, b, amount, limit, other)
      PROVE  Gain(who, a) = -amount /\ Gain(who, b) >= limit
  <2>1. PICK t : t = sell_transfer(a, b, amount, other)
    OBVIOUS
  <2>2. validate_sell(who, a, b, amount, limit, other) /\ execute_trade(who, a, b, t)
    BY <1>5, <2>1, Zenon DEF sell
  <2>3. t.amount \in Nat /\ t.amount_out \in Nat /\ t.fee \in Nat
    BY <2>1, <2>2, TradeAmounts, Zenon
  <2>4. /\ Gain(who, a) = -(t.amount + (IF f = a THEN t.fee ELSE 0))
        /\ Gain(who, b) = t.amount_out
    BY <1>4, <2>2, <2>3, Zenon
  <2>5. limit <= t.amount_out
    BY <2>1, <2>2, Zenon DEF validate_sell
  <2>6. PICK x : /\ f = a => t.amount = amount - x /\ t.fee = x
                 /\ f # a => t.amount = amount
    BY <1>3, <2>1, Zenon DEF sell_transfer, get_pair_id, FeeAsset
  <2> QED
    BY <1>1, <2>3, <2>4, <2>5, <2>6
<1>6. ASSUME buy(who, a, b, amount, limit, other)
      PROVE  Gain(who, a) >= -limit /\ Gain(who, b) = amount
  <2>1. PICK t : t = buy_transfer(a, b, amount, other)
    OBVIOUS
  <2>2. validate_buy(who, a, b, amount, limit, other) /\ execute_trade(who, a, b, t)
    BY <1>6, <2>1, Zenon DEF buy
  <2>3. t.amount \in Nat /\ t.amount_out \in Nat /\ t.fee \in Nat
    BY <2>1, <2>2, TradeAmounts, Zenon
  <2>4. /\ Gain(who, a) = -(t.amount + (IF f = a THEN t.fee ELSE 0))
        /\ Gain(who, b) = t.amount_out
        /\ f \in {a, b}
    BY <1>4, <2>2, <2>3, Zenon
  <2>5. limit >= other
    BY <2>2, Zenon DEF validate_buy
  <2>6. a # b
    BY DEF Pools, Pairs
  <2>7. PICK x : /\ f = b => t.amount = other
                 /\ f # b => t.amount = other - x /\ t.fee = x
                 /\ t.amount_out = amount
    BY <1>3, <2>1, Zenon DEF buy_transfer, get_pair_id, FeeAsset
  <2>8. t.amount + (IF f = a THEN t.fee ELSE 0) = other
    <3>1. CASE f = b
      BY <2>3, <2>6, <2>7, <3>1
    <3>2. CASE f = a
      BY <2>3, <2>6, <2>7, <3>2
    <3> QED
      BY <2>4, <3>1, <3>2, Zenon
  <2> QED
    BY <1>1, <2>4, <2>5, <2>7, <2>8
<1> QED
  BY <1>5, <1>6, Zenon

\* A trader other than the collector pays exactly the amount sold, or at most
\* max_sold, and gets at least min_bought, or exactly the amount bought, on
\* whichever side the fee is taken.
THEOREM TradeTerms == Spec => TradesKeepLimits
<1> DEFINE Kept ==
              UNCHANGED pool_data /\ reserve' # reserve =>
                \A a, b \in Assets :
                    LET p == get_pair_id(a, b)
                    IN  p \in live /\ is_pool_running(pool_data[p]) =>
                          \A who \in Users \ {pool_data[p].fee_collector}, amount \in Amounts, limit \in Limits :
                              /\ (\E out \in lbp_out_given_in(reserve[p][b]) : sell(who, a, b, amount, limit, out))
                                    => Gain(who, a) = -amount /\ Gain(who, b) >= limit
                              /\ (\E in \in 0 .. reserve[p][a] : buy(who, a, b, amount, limit, in))
                                    => Gain(who, a) >= -limit /\ Gain(who, b) = amount
<1>1. ASSUME Pools, Funds, NEW a \in Assets, NEW b \in Assets, {a, b} \in live,
             NEW who \in Users \ {pool_data[{a, b}].fee_collector},
             NEW amount \in Amounts, NEW limit \in Limits
      PROVE  /\ (\E out \in lbp_out_given_in(reserve[{a, b}][b]) : sell(who, a, b, amount, limit, out))
                   => Gain(who, a) = -amount /\ Gain(who, b) >= limit
             /\ (\E in \in 0 .. reserve[{a, b}][a] : buy(who, a, b, amount, limit, in))
                   => Gain(who, a) >= -limit /\ Gain(who, b) = amount
  <2>1. who \in Users /\ who # Collector({a, b})
    BY Zenon DEF Collector
  <2>2. reserve[{a, b}][a] \in Nat /\ reserve[{a, b}][b] \in Nat
    BY <1>1 DEF Pools, Funds
  <2>3. /\ \A out \in lbp_out_given_in(reserve[{a, b}][b]) : out \in Nat
        /\ \A in \in 0 .. reserve[{a, b}][a] : in \in Nat
    BY <2>2, SMTT(30) DEF lbp_out_given_in
  <2>4. \A other \in Nat :
           /\ sell(who, a, b, amount, limit, other) => Gain(who, a) = -amount /\ Gain(who, b) >= limit
           /\ buy(who, a, b, amount, limit, other) => Gain(who, a) >= -limit /\ Gain(who, b) = amount
    BY <1>1, <2>1, TradeLimits, SMTT(30)
  <2> QED
    BY <2>3, <2>4, Zenon
<1>2. Pools /\ Funds => Kept
  BY <1>1, SMTT(30) DEF get_pair_id
<1>3. Pools /\ Funds => [Kept]_vars
  BY <1>2, Zenon
<1> QED
  BY <1>3, PoolsInitially, PoolsKept, FundsInitially, FundsKept, PTL DEF Spec, TradesKeepLimits

\* The lock of a pool shrinks only when the pool itself is removed.
LEMMA LocksGrow ==
    ASSUME IndInv, Pools, Funds, [Next]_vars, NEW p \in live, p \in live'
    PROVE  lock[Collector(p)][FeeAsset(p)] <= lock'[Collector(p)][FeeAsset(p)]
<1> DEFINE c == Collector(p)
           f == FeeAsset(p)
<1>1. c \in Users /\ f \in Assets
  BY Zenon DEF IndInv, Shape
<1>2. lock[c][f] \in Nat
  BY <1>1, Zenon DEF Funds
<1>3. CASE UNCHANGED lock
  BY <1>2, <1>3
<1>4. ASSUME NEW who, NEW q \in Pairs, remove_liquidity(who, q)
      PROVE  lock'[c][f] = lock[c][f]
  <2>1. q \in live /\ q # p
    BY <1>4, Zenon DEF remove_liquidity, remove, live
  <2>2. lock' = Replaced(Collector(q), FeeAsset(q), 0)
    BY <1>4, Zenon DEF remove_liquidity, Unlocked, Replaced, Collector, FeeAsset
  <2>3. Collector(q) \in Users /\ FeeAsset(q) \in Assets
    BY <2>1, Zenon DEF IndInv, Shape
  <2>4. ~(c = Collector(q) /\ f = FeeAsset(q))
    BY <2>1, Zenon DEF IndInv, Bijection
  <2> HIDE DEF c, f
  <2> QED
    BY <1>1, <2>2, <2>3, <2>4, Replacement
<1>5. ASSUME NEW who \in Users, NEW a \in Assets, NEW b \in Assets, NEW n \in Amounts, Trade(who, a, b, n)
      PROVE  lock[c][f] <= lock'[c][f]
  <2>1. {a, b} \in live
    BY <1>5, Zenon DEF Trade, get_pair_id
  <2>2. PICK t : t.fee \in Nat /\ execute_trade(who, a, b, t)
    BY <1>5, Payments, Zenon
  <2>3. lock' = Replaced(Collector({a, b}), FeeAsset({a, b}),
                         lock[Collector({a, b})][FeeAsset({a, b})] + t.fee)
    BY <2>2, Zenon DEF execute_trade, LockAfter, Replaced, collected_fees, get_by_lock, get_pair_id,
                Collector, FeeAsset
  <2>4. PICK d \in Users, g \in Assets : d = Collector({a, b}) /\ g = FeeAsset({a, b})
    BY <2>1, Zenon DEF IndInv, Shape
  <2>5. PICK y \in Nat : y = lock[d][g] + t.fee /\ lock[d][g] <= y
    BY <2>2, SMTT(30) DEF Funds
  <2>6. lock' = Replaced(d, g, y)
    BY <2>3, <2>4, <2>5, Zenon
  <2> HIDE DEF c, f
  <2>7. lock'[c][f] = IF c = d /\ f = g THEN y ELSE lock[c][f]
    BY <1>1, <2>6, Replacement
  <2> QED
    BY <1>2, <2>5, <2>7
<1>6. ASSUME NEW who, NEW to, NEW a, NEW b, NEW n, NEW m, NEW d, NEW terms, NEW q, NEW update,
             \/ create_pool(who, a, n, b, m, terms, d) \/ add_liquidity(who, a, n, b, m)
             \/ update_pool_data(who, q, update) \/ NextBlock
             \/ Transfer(who, to, a, n) \/ TransferToPool(who, to, a, n)
      PROVE  UNCHANGED lock
  BY <1>6, Zenon DEF create_pool, add_liquidity, update_pool_data, NextBlock, Transfer, TransferToPool
<1> HIDE DEF c, f
<1>7. lock[c][f] <= lock'[c][f]
  <2>1. lock'[c][f] = lock[c][f] => lock[c][f] <= lock'[c][f]
    BY <1>2
  <2> QED
    BY <1>3, <1>4, <1>5, <1>6, <2>1, ZenonT(40) DEF Next, vars
<1> QED
  BY <1>7, Zenon DEF c, f

\* The fee for repayment ends once: neither the target nor the fees collected
\* go back while the pool of a started sale exists.
THEOREM RepaymentEnds == Spec => RepayFeeEndsOnce
<1>1. ASSUME IndInv, Pools, Funds, [Next]_vars, NEW p \in Pairs, p \in live, p \in live',
             has_pool_started(pool_data[p]), ~is_repay_fee_applied(pool_data[p])
      PROVE  lock'[pool_data'[p].fee_collector][pool_data'[p].assets[1]] >= pool_data'[p].repay_target
  <2> USE <1>1
  <2>1. pool_data'[p] = pool_data[p]
    BY StartedSale, ZenonT(40)
  <2>2. lock[Collector(p)][FeeAsset(p)] >= pool_data[p].repay_target
    <3>1. pool_data[p].repay_target \in Nat
      BY Zenon DEF Pools, Pool
    <3>2. lock[Collector(p)][FeeAsset(p)] \in Nat
      BY Zenon DEF IndInv, Shape, Funds
    <3> QED
      BY <3>1, <3>2 DEF is_repay_fee_applied, collected_fees, get_by_lock, Collector, FeeAsset
  <2>3. lock[Collector(p)][FeeAsset(p)] <= lock'[Collector(p)][FeeAsset(p)]
    BY LocksGrow, Zenon
  <2>4. lock[Collector(p)][FeeAsset(p)] \in Nat /\ lock'[Collector(p)][FeeAsset(p)] \in Nat
    <3>1. Collector(p) \in Users /\ FeeAsset(p) \in Assets
      BY Zenon DEF IndInv, Shape
    <3>2. Funds'
      BY FundsKept, ZenonT(40)
    <3> QED
      BY <3>1, <3>2, Zenon DEF Funds
  <2>5. pool_data[p].repay_target \in Nat
    BY Zenon DEF Pools, Pool
  <2>6. lock'[Collector(p)][FeeAsset(p)] >= pool_data[p].repay_target
    BY <2>2, <2>3, <2>4, <2>5
  <2> QED
    BY <2>1, <2>6, Zenon DEF Collector, FeeAsset
<1>2. IndInv /\ Pools /\ Funds /\ [Next]_vars =>
        [\A p \in Pairs :
            /\ p \in live /\ p \in live'
            /\ has_pool_started(pool_data[p])
            /\ ~is_repay_fee_applied(pool_data[p])
            => lock'[pool_data'[p].fee_collector][pool_data'[p].assets[1]]
                  >= pool_data'[p].repay_target]_vars
  BY <1>1, Zenon
<1> QED
  BY <1>2, Initially, Induction, PoolsInitially, PoolsKept, FundsInitially, FundsKept, PTL
     DEF Spec, RepayFeeEndsOnce

=============================================================================
