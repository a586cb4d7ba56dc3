---------------------------- MODULE MonitorProofs ----------------------------
(***************************************************************************)
(* MonitorStream and Observers are correct for any number of connections,  *)
(* subscribers and browsers, any capacities and any bounds: the hub loses  *)
(* no update of its counters, the stages of a request reach a subscriber   *)
(* in order, an event of the live state is named by its identity, and the  *)
(* history lists what the logger took.                                     *)
(***************************************************************************)
EXTENDS MonitorStream, Observers, FiniteSetTheorems, SequenceTheorems, TLAPS

-----------------------------------------------------------------------------
(***************************************************************************)
(* The hub                                                                 *)
(***************************************************************************)

HubTypes ==
    /\ hub \in [sequence : Nat, published : Nat, drops : Nat]
    /\ pub \in [Publishers -> Publications \cup {Nothing}]
    /\ session \in [Subscribers -> {"new", "open", "closed"}]
    /\ feed \in [Subscribers -> 0..FeedCapacity]
    /\ due \in Nat

\* A publication drops at most one payload per subscriber.
DropsInv ==
    \A p \in InFlight :
        pub[p].drops + Cardinality(pub[p].targets) <= Cardinality(Subscribers)

HubInv == HubTypes /\ DropsInv /\ HubAccounts

\* The constants, and what is finite because they are.
LEMMA MonitorConstants ==
    /\ IsFiniteSet(Connections) /\ IsFiniteSet(Subscribers)
    /\ IsFiniteSet(Publishers) /\ Cardinality(Subscribers) \in Nat
    /\ QueueCapacity \in Nat /\ QueueCapacity > 0
    /\ FeedCapacity \in Nat /\ FeedCapacity > 0
    /\ MaxMessages \in Nat /\ MaxFrames \in Nat /\ "worker" \notin Connections
  <1>1. IsFiniteSet(Connections \cup {"worker"})
    BY MonitorStreamAssumption, FS_AddElement
  <1> QED
    BY <1>1, MonitorStreamAssumption, FS_CardinalityType DEF Publishers

LEMMA SubscribersFinite ==
    ASSUME NEW T \in SUBSET Subscribers
    PROVE  IsFiniteSet(T) /\ Cardinality(T) \in Nat
  BY MonitorConstants, FS_Subset, FS_CardinalityType

LEMMA CountsFinite ==
    /\ IsFiniteSet(InFlight) /\ Cardinality(InFlight) \in Nat
    /\ IsFiniteSet(InQueues) /\ Cardinality(InQueues) \in Nat
    /\ IsFiniteSet(ToBePut) /\ Cardinality(ToBePut) \in Nat
    /\ IsFiniteSet(DropsInFlight) /\ Cardinality(DropsInFlight) \in Nat
  <1>1. IsFiniteSet(InFlight)
    BY MonitorConstants, FS_Subset DEF InFlight
  <1>2. /\ IsFiniteSet(1..FeedCapacity)
        /\ IsFiniteSet(1..Cardinality(Subscribers))
    BY MonitorConstants, FS_Interval
  <1>3. /\ IsFiniteSet(Subscribers \X (1..FeedCapacity))
        /\ IsFiniteSet(InFlight \X Subscribers)
        /\ IsFiniteSet(InFlight \X (1..Cardinality(Subscribers)))
    BY <1>1, <1>2, MonitorConstants, FS_Product
  <1>4. /\ InQueues \in SUBSET (Subscribers \X (1..FeedCapacity))
        /\ ToBePut \in SUBSET (InFlight \X Subscribers)
        /\ DropsInFlight \in SUBSET (InFlight \X (1..Cardinality(Subscribers)))
    BY DEF InQueues, ToBePut, DropsInFlight
  <1>5. IsFiniteSet(InQueues) /\ IsFiniteSet(ToBePut) /\ IsFiniteSet(DropsInFlight)
    BY <1>3, <1>4, FS_Subset
  <1> QED
    BY <1>1, <1>5, FS_CardinalityType

\* As many pairs as second components.
LEMMA PairsOfOne ==
    ASSUME NEW p, NEW S, IsFiniteSet(S)
    PROVE  IsFiniteSet({p} \X S) /\ Cardinality({p} \X S) = Cardinality(S)
  <1>1. IsFiniteSet({p}) /\ Cardinality({p}) = 1 /\ Cardinality(S) \in Nat
    BY FS_Singleton, FS_CardinalityType
  <1>2. IsFiniteSet({p} \X S) /\ Cardinality({p} \X S) = 1 * Cardinality(S)
    BY <1>1, FS_Product
  <1> QED
    BY <1>1, <1>2

LEMMA DisjointUnion ==
    ASSUME NEW S, NEW T, IsFiniteSet(S), IsFiniteSet(T), S \cap T = {}
    PROVE  IsFiniteSet(S \cup T) /\ Cardinality(S \cup T) = Cardinality(S) + Cardinality(T)
  BY FS_Union, FS_EmptySet, FS_CardinalityType

\* A publication that begins owes its payload to whoever is open.
LEMMA HubPublish ==
    ASSUME HubInv, NEW p \in Publishers, NEW e \in Events, NEW a \in Nat,
           NEW l \in Nat, Free(p), Publish(p, e, a, l)
    PROVE  HubInv'
  <1> DEFINE record == [payload |-> [seq |-> hub.sequence + 1, event |-> e,
                                     about |-> a, label |-> l, by |-> p],
                        targets |-> Open, drops |-> 0]
  <1>1. /\ hub \in [sequence : Nat, published : Nat, drops : Nat]
        /\ pub \in [Publishers -> Publications \cup {Nothing}]
        /\ due \in Nat /\ pub[p] = Nothing
    BY DEF HubInv, HubTypes, Free
  <1>2. /\ hub' = [hub EXCEPT !.sequence = @ + 1]
        /\ pub' = [pub EXCEPT ![p] = record]
        /\ due' = due + Cardinality(Open)
        /\ UNCHANGED <<session, feed>>
    BY DEF Publish
  <1>3. Open \in SUBSET Subscribers /\ IsFiniteSet(Open) /\ Cardinality(Open) \in Nat
    BY SubscribersFinite DEF Open
  <1>4. /\ record \in Publications /\ record # Nothing
        /\ record.targets = Open /\ record.drops = 0
    <2>1. hub.sequence + 1 \in Nat \ {0}
      BY <1>1
    <2>2. record.payload \in Payloads
      BY <2>1 DEF Payloads
    <2> QED
      BY <1>3, <2>2 DEF Publications, Nothing
  <1> HIDE DEF record
  <1>5. hub' \in [sequence : Nat, published : Nat, drops : Nat]
        /\ hub'.sequence = hub.sequence + 1 /\ hub'.published = hub.published
        /\ hub'.drops = hub.drops
    BY <1>1, <1>2
  <1>6. HubTypes'
    BY <1>1, <1>2, <1>3, <1>4, <1>5 DEF HubInv, HubTypes
  <1>7. p \notin InFlight /\ InFlight' = InFlight \cup {p}
    BY <1>1, <1>2, <1>4 DEF InFlight
  <1>8. \A q \in InFlight : q # p /\ pub'[q] = pub[q]
    BY <1>1, <1>2, <1>7 DEF InFlight
  <1>9. pub'[p] = record
    BY <1>1, <1>2
  <1>10. DropsInv'
    <2>1. Cardinality(Open) <= Cardinality(Subscribers)
      BY <1>3, MonitorConstants, FS_Subset
    <2> QED
      BY <1>3, <1>4, <1>7, <1>8, <1>9, <2>1 DEF HubInv, DropsInv
  <1>11. Cardinality(InFlight') = Cardinality(InFlight) + 1
    BY <1>7, CountsFinite, FS_AddElement
  <1>12. InQueues' = InQueues
    BY <1>2 DEF InQueues
  <1>13. ToBePut' = ToBePut \cup ({p} \X Open) /\ ToBePut \cap ({p} \X Open) = {}
    BY <1>3, <1>4, <1>7, <1>8, <1>9 DEF ToBePut
  <1>14. Cardinality(ToBePut') = Cardinality(ToBePut) + Cardinality(Open)
    <2> DEFINE new == {p} \X Open
    <2>1. IsFiniteSet(new) /\ Cardinality(new) = Cardinality(Open)
      BY <1>3, PairsOfOne
    <2>2. ToBePut' = ToBePut \cup new /\ ToBePut \cap new = {}
      BY <1>13
    <2> HIDE DEF new
    <2> QED
      BY <2>1, <2>2, CountsFinite, DisjointUnion
  <1>15. DropsInFlight' = DropsInFlight
    BY <1>4, <1>7, <1>8, <1>9 DEF DropsInFlight
  <1>16. HubAccounts'
    BY <1>1, <1>2, <1>3, <1>5, <1>11, <1>12, <1>14, <1>15, CountsFinite
       DEF HubInv, HubAccounts
  <1> QED
    BY <1>6, <1>10, <1>16 DEF HubInv

\* Two records with two fields changed.
LEMMA PublicationGoesOn ==
    ASSUME NEW P, NEW T, NEW D, NEW r \in [payload : P, targets : T, drops : D],
           NEW t \in T, NEW d \in D
    PROVE  /\ [r EXCEPT !.targets = t, !.drops = d]
                 \in [payload : P, targets : T, drops : D]
           /\ [r EXCEPT !.targets = t, !.drops = d].targets = t
           /\ [r EXCEPT !.targets = t, !.drops = d].drops = d
           /\ [r EXCEPT !.targets = t, !.drops = d].payload = r.payload
  OBVIOUS

LEMMA HubCounts ==
    ASSUME NEW N, NEW h \in [sequence : N, published : N, drops : N],
           NEW a \in N, NEW b \in N
    PROVE  /\ [h EXCEPT !.published = a, !.drops = b]
                 \in [sequence : N, published : N, drops : N]
           /\ [h EXCEPT !.published = a, !.drops = b].sequence = h.sequence
           /\ [h EXCEPT !.published = a, !.drops = b].published = a
           /\ [h EXCEPT !.published = a, !.drops = b].drops = b
  OBVIOUS

\* put_nowait moves one payload from the hub into a queue or onto the drops.
LEMMA HubPut ==
    ASSUME HubInv, NEW p \in Publishers, NEW t \in Subscribers, Put(p, t)
    PROVE  HubInv'
  <1>1. /\ hub \in [sequence : Nat, published : Nat, drops : Nat]
        /\ pub \in [Publishers -> Publications \cup {Nothing}]
        /\ feed \in [Subscribers -> 0..FeedCapacity]
        /\ due \in Nat /\ UNCHANGED <<hub, session, due>>
    BY DEF HubInv, HubTypes, Put
  <1>2. /\ p \in InFlight /\ pub[p] \in Publications /\ t \in pub[p].targets
        /\ pub[p].targets \in SUBSET Subscribers /\ pub[p].drops \in Nat
    BY <1>1 DEF Put, InFlight, Publications
  <1> DEFINE left == pub[p].targets \ {t}
             sent == [pub[p] EXCEPT !.targets = left]
             lost == [pub[p] EXCEPT !.targets = left, !.drops = @ + 1]
  <1>3. /\ left \in SUBSET Subscribers /\ Cardinality(left) \in Nat
        /\ Cardinality(left) = Cardinality(pub[p].targets) - 1
        /\ Cardinality(pub[p].targets) \in Nat
    BY <1>2, SubscribersFinite, FS_RemoveElement
  <1>4. \/ Accepts(p, t)
        \/ /\ feed[t] = FeedCapacity
           /\ pub' = [pub EXCEPT ![p].targets = @ \ {t}, ![p].drops = @ + 1]
           /\ UNCHANGED feed
    BY DEF Put
  <1>5. pub[p].drops + Cardinality(pub[p].targets) <= Cardinality(Subscribers)
    BY <1>2 DEF HubInv, DropsInv
  <1>6. ASSUME NEW r \in Publications, pub' = [pub EXCEPT ![p] = r], r.targets = left
        PROVE  /\ pub' \in [Publishers -> Publications \cup {Nothing}]
               /\ pub'[p] = r /\ \A q \in Publishers : q # p => pub'[q] = pub[q]
               /\ InFlight' = InFlight /\ ToBePut' = ToBePut \ {<<p, t>>}
               /\ Cardinality(ToBePut') = Cardinality(ToBePut) - 1
    <2>1. r # Nothing
      BY DEF Publications, Nothing
    <2>2. /\ pub' \in [Publishers -> Publications \cup {Nothing}]
          /\ pub'[p] = r /\ \A q \in Publishers : q # p => pub'[q] = pub[q]
      BY <1>1, <1>6
    <2>3. InFlight' = InFlight
      BY <1>2, <2>1, <2>2 DEF InFlight
    <2>4. ToBePut' = ToBePut \ {<<p, t>>} /\ <<p, t>> \in ToBePut
      BY <1>2, <1>6, <2>2, <2>3 DEF ToBePut, InFlight
    <2> QED
      BY <2>2, <2>3, <2>4, CountsFinite, FS_RemoveElement
  <1>7. pub[p].drops + Cardinality(left) <= Cardinality(Subscribers)
        /\ (pub[p].drops + 1) + Cardinality(left) <= Cardinality(Subscribers)
    BY <1>2, <1>3, <1>5, MonitorConstants
  <1>8. CASE Accepts(p, t)
    <2>1. /\ feed[t] < FeedCapacity /\ feed' = [feed EXCEPT ![t] = @ + 1]
          /\ pub' = [pub EXCEPT ![p] = sent]
      BY <1>1, <1>8 DEF Accepts
    <2>2. sent \in Publications /\ sent.targets = left /\ sent.drops = pub[p].drops
      BY <1>2, <1>3 DEF Publications
    <2> HIDE DEF sent, left
    <2>3. /\ pub' \in [Publishers -> Publications \cup {Nothing}]
          /\ pub'[p] = sent /\ \A q \in Publishers : q # p => pub'[q] = pub[q]
          /\ InFlight' = InFlight
          /\ Cardinality(ToBePut') = Cardinality(ToBePut) - 1
      BY <1>6, <2>1, <2>2
    <2>4. /\ feed' \in [Subscribers -> 0..FeedCapacity]
          /\ feed[t] \in Nat /\ feed[t] + 1 \in 1..FeedCapacity
          /\ \A u \in Subscribers : feed'[u] = IF u = t THEN feed[t] + 1 ELSE feed[u]
      BY <1>1, <2>1, MonitorConstants
    <2>5. HubTypes'
      BY <1>1, <2>3, <2>4 DEF HubInv, HubTypes
    <2>6. DropsInv'
      BY <1>2, <1>7, <2>2, <2>3 DEF HubInv, DropsInv, InFlight
    <2>7. DropsInFlight' = DropsInFlight
      BY <2>2, <2>3 DEF DropsInFlight, InFlight
    <2>8. /\ InQueues' = InQueues \cup {<<t, feed[t] + 1>>}
          /\ <<t, feed[t] + 1>> \notin InQueues
      <3>1. \A u \in Subscribers, n \in 1..FeedCapacity :
               n <= feed'[u] <=> n <= feed[u] \/ (u = t /\ n = feed[t] + 1)
        BY <1>1, <2>4
      <3>2. <<t, feed[t] + 1>> \in Subscribers \X (1..FeedCapacity) /\ ~(feed[t] + 1 <= feed[t])
        BY <2>4
      <3> QED
        BY <3>1, <3>2 DEF InQueues
    <2>9. Cardinality(InQueues') = Cardinality(InQueues) + 1
      BY <2>8, CountsFinite, FS_AddElement
    <2>10. HubAccounts'
      BY <1>1, <2>3, <2>7, <2>9, CountsFinite DEF HubInv, HubAccounts
    <2> QED
      BY <2>5, <2>6, <2>10 DEF HubInv
  <1>9. CASE /\ feed[t] = FeedCapacity
             /\ pub' = [pub EXCEPT ![p].targets = @ \ {t}, ![p].drops = @ + 1]
             /\ UNCHANGED feed
    <2>1. pub' = [pub EXCEPT ![p] = lost]
      BY <1>1, <1>9
    <2>2. /\ lost \in Publications /\ lost.targets = left
          /\ lost.drops = pub[p].drops + 1
      <3>1. pub[p].drops + 1 \in Nat
        BY <1>2
      <3> QED
        BY <1>2, <1>3, <3>1, PublicationGoesOn DEF Publications
    <2> HIDE DEF lost, left
    <2>3. /\ pub' \in [Publishers -> Publications \cup {Nothing}]
          /\ pub'[p] = lost /\ \A q \in Publishers : q # p => pub'[q] = pub[q]
          /\ InFlight' = InFlight
          /\ Cardinality(ToBePut') = Cardinality(ToBePut) - 1
      BY <1>6, <2>1, <2>2
    <2>4. HubTypes'
      BY <1>1, <1>9, <2>3 DEF HubInv, HubTypes
    <2>5. DropsInv'
      BY <1>2, <1>7, <2>2, <2>3 DEF HubInv, DropsInv, InFlight
    <2>6. /\ DropsInFlight' = DropsInFlight \cup {<<p, pub[p].drops + 1>>}
          /\ <<p, pub[p].drops + 1>> \notin DropsInFlight
      <3>1. pub[p].drops + 1 \in 1..Cardinality(Subscribers)
        BY <1>2, <1>3, <1>5, MonitorConstants
      <3>2. \A q \in InFlight, n \in 1..Cardinality(Subscribers) :
               n <= pub'[q].drops <=> n <= pub[q].drops \/ (q = p /\ n = pub[p].drops + 1)
        BY <1>2, <2>2, <2>3, MonitorConstants DEF InFlight
      <3>3. <<p, pub[p].drops + 1>> \in InFlight \X (1..Cardinality(Subscribers))
            /\ ~(pub[p].drops + 1 <= pub[p].drops)
        BY <1>2, <3>1
      <3> QED
        BY <2>3, <3>2, <3>3 DEF DropsInFlight
    <2>7. Cardinality(DropsInFlight') = Cardinality(DropsInFlight) + 1
      BY <2>6, CountsFinite, FS_AddElement
    <2>8. InQueues' = InQueues
      BY <1>9 DEF InQueues
    <2>9. HubAccounts'
      BY <1>1, <2>3, <2>7, <2>8, CountsFinite DEF HubInv, HubAccounts
    <2> QED
      BY <2>4, <2>5, <2>9 DEF HubInv
  <1> QED
    BY <1>4, <1>8, <1>9

\* The last critical section moves a publication's drops into the counter.
LEMMA HubAccount ==
    ASSUME HubInv, NEW p \in Publishers, Account(p)
    PROVE  HubInv'
  <1>1. /\ hub \in [sequence : Nat, published : Nat, drops : Nat]
        /\ pub \in [Publishers -> Publications \cup {Nothing}]
        /\ due \in Nat /\ UNCHANGED <<session, feed, due>>
        /\ pub' = [pub EXCEPT ![p] = Nothing]
        /\ hub' = [hub EXCEPT !.published = @ + 1, !.drops = @ + pub[p].drops]
    BY DEF HubInv, HubTypes, Account
  <1>2. /\ p \in InFlight /\ pub[p] \in Publications /\ pub[p].targets = {}
        /\ pub[p].drops \in Nat
    BY <1>1 DEF Account, InFlight, Publications
  <1>3. /\ hub' \in [sequence : Nat, published : Nat, drops : Nat]
        /\ hub'.sequence = hub.sequence /\ hub'.published = hub.published + 1
        /\ hub'.drops = hub.drops + pub[p].drops
    <2>1. hub.published + 1 \in Nat /\ hub.drops + pub[p].drops \in Nat
      BY <1>1, <1>2
    <2> QED
      BY <1>1, <2>1, HubCounts
  <1>4. InFlight' = InFlight \ {p} /\ \A q \in InFlight' : pub'[q] = pub[q]
    BY <1>1 DEF InFlight
  <1>5. HubTypes'
    BY <1>1, <1>3 DEF HubInv, HubTypes
  <1>6. DropsInv'
    BY <1>4 DEF HubInv, DropsInv
  <1>7. Cardinality(InFlight') = Cardinality(InFlight) - 1
    BY <1>2, <1>4, CountsFinite, FS_RemoveElement
  <1>8. InQueues' = InQueues
    BY <1>1 DEF InQueues
  <1>9. ToBePut' = ToBePut
    BY <1>2, <1>4 DEF ToBePut
  <1> DEFINE gone == {p} \X (1..pub[p].drops)
  <1>10. IsFiniteSet(gone) /\ Cardinality(gone) = pub[p].drops
    <2>1. IsFiniteSet(1..pub[p].drops) /\ Cardinality(1..pub[p].drops) = pub[p].drops
      <3>1. pub[p].drops \in Int /\ 1 \in Int /\ pub[p].drops >= 0
        BY <1>2
      <3>2. /\ IsFiniteSet(1..pub[p].drops)
            /\ Cardinality(1..pub[p].drops)
                  = IF 1 > pub[p].drops THEN 0 ELSE pub[p].drops - 1 + 1
        BY <3>1, FS_Interval
      <3> QED
        BY <3>1, <3>2
    <2> QED
      BY <2>1, PairsOfOne
  <1>11. gone \cap DropsInFlight' = {} /\ DropsInFlight = DropsInFlight' \cup gone
    <2>1. pub[p].drops <= Cardinality(Subscribers)
      <3>1. Cardinality(pub[p].targets) = 0
        BY <1>2, FS_EmptySet
      <3>2. pub[p].drops + Cardinality(pub[p].targets) <= Cardinality(Subscribers)
        BY <1>2 DEF HubInv, DropsInv
      <3> QED
        BY <1>2, <3>1, <3>2
    <2>2. \A n \in 1..Cardinality(Subscribers) : n <= pub[p].drops <=> n \in 1..pub[p].drops
      BY <1>2, MonitorConstants
    <2>3. 1..pub[p].drops \subseteq 1..Cardinality(Subscribers)
      BY <1>2, <2>1, MonitorConstants
    <2> QED
      BY <1>2, <1>4, <2>2, <2>3 DEF DropsInFlight
  <1>12. IsFiniteSet(DropsInFlight') /\ Cardinality(DropsInFlight') \in Nat
    BY CountsFinite, <1>11, FS_Subset, FS_CardinalityType
  <1> HIDE DEF gone
  <1>13. Cardinality(DropsInFlight) = Cardinality(DropsInFlight') + pub[p].drops
    BY <1>10, <1>11, <1>12, DisjointUnion
  <1>14. HubAccounts'
    BY <1>1, <1>2, <1>3, <1>7, <1>8, <1>9, <1>12, <1>13, CountsFinite
       DEF HubInv, HubAccounts
  <1> QED
    BY <1>5, <1>6, <1>14 DEF HubInv

\* Subscribing owes nothing yet; a delivery takes one payload off a queue.
LEMMA HubClients ==
    ASSUME HubInv, NEW t \in Subscribers, Subscribe(t) \/ Deliver(t)
    PROVE  HubInv'
  <1>1. /\ hub \in [sequence : Nat, published : Nat, drops : Nat]
        /\ feed \in [Subscribers -> 0..FeedCapacity]
        /\ session \in [Subscribers -> {"new", "open", "closed"}]
        /\ due \in Nat /\ UNCHANGED <<hub, pub>>
    BY DEF HubInv, HubTypes, Subscribe, Deliver
  <1>2. /\ InFlight' = InFlight /\ ToBePut' = ToBePut /\ DropsInFlight' = DropsInFlight
        /\ DropsInv'
    BY <1>1 DEF InFlight, ToBePut, DropsInFlight, HubInv, DropsInv
  <1>3. session' \in [Subscribers -> {"new", "open", "closed"}]
    BY <1>1 DEF Subscribe, Deliver
  <1>4. CASE Subscribe(t)
    <2>1. UNCHANGED <<feed, due>>
      BY <1>4 DEF Subscribe
    <2>2. InQueues' = InQueues
      BY <2>1 DEF InQueues
    <2> QED
      BY <1>1, <1>2, <1>3, <2>1, <2>2 DEF HubInv, HubTypes, HubAccounts
  <1>5. CASE Deliver(t)
    <2>1. feed[t] > 0 /\ feed' = [feed EXCEPT ![t] = @ - 1] /\ due' = due - 1
      BY <1>5 DEF Deliver
    <2>2. /\ feed' \in [Subscribers -> 0..FeedCapacity] /\ feed[t] \in 1..FeedCapacity
          /\ \A u \in Subscribers : feed'[u] = IF u = t THEN feed[t] - 1 ELSE feed[u]
      BY <1>1, <2>1, MonitorConstants
    <2>3. InQueues' = InQueues \ {<<t, feed[t]>>} /\ <<t, feed[t]>> \in InQueues
      <3>1. \A u \in Subscribers, n \in 1..FeedCapacity :
               n <= feed'[u] <=> n <= feed[u] /\ ~(u = t /\ n = feed[t])
        BY <1>1, <2>2
      <3>2. <<t, feed[t]>> \in Subscribers \X (1..FeedCapacity) /\ feed[t] <= feed[t]
        BY <2>2
      <3> QED
        BY <3>1, <3>2 DEF InQueues
    <2>4. Cardinality(InQueues') = Cardinality(InQueues) - 1 /\ Cardinality(InQueues) > 0
      <3>1. IsFiniteSet(InQueues) /\ Cardinality(InQueues) \in Nat
        BY CountsFinite
      <3>2. Cardinality(InQueues') = Cardinality(InQueues) - 1
        BY <2>3, <3>1, FS_RemoveElement
      <3>3. Cardinality(InQueues) # 0
        BY <2>3, <3>1, FS_EmptySet
      <3> QED
        BY <3>1, <3>2, <3>3
    <2>5. due' \in Nat /\ HubAccounts'
      BY <1>1, <1>2, <2>1, <2>4, CountsFinite DEF HubInv, HubAccounts
    <2> QED
      BY <1>1, <1>2, <1>3, <2>2, <2>5 DEF HubInv, HubTypes
  <1> QED
    BY <1>4, <1>5

-----------------------------------------------------------------------------
(***************************************************************************)
(* The path: ids, the worker and the tracker                               *)
(***************************************************************************)

PathTypes ==
    /\ enabled \in BOOLEAN
    /\ conn \in [Connections -> [pc : ConnectionStates, id : Nat]]
    /\ worker \in [pc : WorkerStates, id : Nat, record : Nat, failing : BOOLEAN]
    /\ queue \in Seq([id : Nat \ {0}, seen : BOOLEAN])
    /\ Len(queue) <= QueueCapacity
    /\ admitted \in Nat
    /\ tracker \in [pending : Seq(Nat \ {0}), current : Nat]
    /\ bounds \in [messages : 0..MaxMessages, frames : 0..MaxFrames]

\* The requests that have left the queue.
Left == admitted - Len(queue)

\* Ids are given in the order of admission, and the worker is about the head
\* of the queue, or about the request it has just taken off.
IdsInv ==
    /\ Len(queue) <= admitted
    /\ \A i \in 1..Len(queue) : queue[i].id = Left + i
    /\ worker.pc \in {"observing", "ready", "lifecycle", "dispatched", "released"}
          => queue # <<>> /\ worker.id = Left + 1
    /\ worker.pc \in {"expired", "ending"} => Left > 0 /\ worker.id = Left

\* Every id was a DATA message, and so is every frame about to be enqueued.
Entering == {c \in Connections : conn[c].pc = "entering"}
MessagesInv == admitted + Cardinality(Entering) <= bounds.messages

\* An id is given to the tracker once.
Tracking == {c \in Connections : conn[c].pc = "tracking"}
TrackerInv ==
    /\ IsInjective(tracker.pending)
    /\ \A i \in DOMAIN tracker.pending : tracker.pending[i] <= admitted
    /\ \A c \in Tracking : /\ conn[c].id \in 1..admitted
                           /\ conn[c].id \notin Range(tracker.pending)
    /\ \A c, d \in Tracking : conn[c].id = conn[d].id => c = d

PathInv == PathTypes /\ IdsInv /\ MessagesInv /\ TrackerInv

LEMMA EnteringFinite == IsFiniteSet(Entering) /\ Cardinality(Entering) \in Nat
  BY MonitorConstants, FS_Subset, FS_CardinalityType DEF Entering

\* The ids that are around are those of DATA messages.
LEMMA IdsBounded ==
    ASSUME PathInv
    PROVE  /\ admitted <= MaxMessages /\ Left \in Nat /\ Len(queue) \in Nat
           /\ worker.pc \notin {"loop", "failed"} => worker.id \in 1..MaxMessages
           /\ \A c \in Connections :
                 conn[c].pc = "entering" => admitted < bounds.messages
  <1>1. /\ admitted \in Nat /\ Len(queue) \in Nat /\ bounds.messages \in 0..MaxMessages
        /\ worker.pc \in WorkerStates
        /\ Len(queue) <= admitted /\ admitted + Cardinality(Entering) <= bounds.messages
    BY DEF PathInv, PathTypes, IdsInv, MessagesInv
  <1>2. admitted <= MaxMessages /\ Left \in Nat /\ Left <= admitted
    BY <1>1, EnteringFinite, MonitorConstants DEF Left
  <1>3. queue # <<>> => Len(queue) > 0
    BY <1>1, EmptySeq DEF PathInv, PathTypes
  <1>4. queue # <<>> => Left + 1 \in 1..MaxMessages
    BY <1>1, <1>2, <1>3, MonitorConstants DEF Left
  <1>5. worker.pc \notin {"loop", "failed"} => worker.id \in 1..MaxMessages
    BY <1>1, <1>2, <1>4, MonitorConstants DEF WorkerStates, PathInv, IdsInv
  <1>6. ASSUME NEW c \in Connections, conn[c].pc = "entering"
        PROVE  admitted < bounds.messages
    <2>1. Cardinality(Entering) # 0
      BY <1>6, EnteringFinite, FS_EmptySet DEF Entering
    <2> QED
      BY <1>1, <2>1, EnteringFinite
  <1> QED
    BY <1>1, <1>2, <1>5, <1>6

\* A handler's step that leaves the queue and the tracker alone, and takes its
\* connection to a state of its own.
LEMMA HandlerMoves ==
    ASSUME PathInv, NEW c \in Connections, NEW pc \in {"idle", "queued", "rejected"},
           NEW h \in [pc : ConnectionStates, id : Nat], h.pc = pc,
           conn' = [conn EXCEPT ![c] = h],
           UNCHANGED <<enabled, worker, queue, admitted>>
    PROVE  /\ conn' \in [Connections -> [pc : ConnectionStates, id : Nat]]
           /\ Tracking' = Tracking \ {c} /\ \A d \in Tracking' : conn'[d] = conn[d]
           /\ Entering' = Entering \ {c}
           /\ IdsInv'
  <1>1. conn \in [Connections -> [pc : ConnectionStates, id : Nat]]
    BY DEF PathInv, PathTypes
  <1>2. /\ conn' \in [Connections -> [pc : ConnectionStates, id : Nat]]
        /\ conn'[c] = h /\ \A d \in Connections : d # c => conn'[d] = conn[d]
    BY <1>1
  <1> QED
    BY <1>2 DEF Tracking, Entering, PathInv, IdsInv, Left

LEMMA SubmittedPath ==
    ASSUME PathInv, NEW c \in Connections, Submitted(c)
    PROVE  PathInv'
  <1> DEFINE h == [conn[c] EXCEPT !.pc = IF enabled THEN "entering" ELSE "rejected"]
             b == [bounds EXCEPT !.messages = @ + 1]
  <1>1. /\ conn \in [Connections -> [pc : ConnectionStates, id : Nat]]
        /\ bounds \in [messages : 0..MaxMessages, frames : 0..MaxFrames]
        /\ admitted \in Nat
    BY DEF PathInv, PathTypes
  <1>2. /\ conn[c].pc = "idle" /\ bounds.messages < MaxMessages
        /\ conn' = [conn EXCEPT ![c] = h] /\ bounds' = b
        /\ UNCHANGED <<enabled, worker, queue, admitted, tracker>>
    BY <1>1 DEF Submitted
  <1>3. h \in [pc : ConnectionStates, id : Nat] /\ h.pc \in {"entering", "rejected"}
    BY <1>1 DEF ConnectionStates
  <1>4. /\ b \in [messages : 0..MaxMessages, frames : 0..MaxFrames]
        /\ b.messages = bounds.messages + 1
    BY <1>1, <1>2, MonitorConstants
  <1> HIDE DEF h, b
  <1>5. /\ conn' \in [Connections -> [pc : ConnectionStates, id : Nat]]
        /\ conn'[c] = h /\ \A d \in Connections : d # c => conn'[d] = conn[d]
    BY <1>1, <1>2, <1>3
  <1>6. PathTypes'
    BY <1>2, <1>4, <1>5 DEF PathInv, PathTypes
  <1>7. IdsInv'
    BY <1>2 DEF PathInv, IdsInv, Left
  <1>8. MessagesInv'
    <2>1. Entering' \in {Entering, Entering \cup {c}} /\ c \notin Entering
      BY <1>2, <1>3, <1>5 DEF Entering
    <2>2. Cardinality(Entering') \in {Cardinality(Entering), Cardinality(Entering) + 1}
      BY <2>1, EnteringFinite, FS_AddElement
    <2> QED
      BY <1>1, <1>2, <1>4, <2>2, EnteringFinite DEF PathInv, MessagesInv
  <1>9. Tracking' = Tracking /\ \A d \in Tracking : conn'[d] = conn[d]
    BY <1>2, <1>3, <1>5 DEF Tracking
  <1>10. TrackerInv'
    BY <1>2, <1>9 DEF PathInv, TrackerInv
  <1> QED
    BY <1>6, <1>7, <1>8, <1>10 DEF PathInv

LEMMA EnqueuePath ==
    ASSUME PathInv, NEW c \in Connections, Enqueue(c)
    PROVE  PathInv'
  <1>1. /\ conn \in [Connections -> [pc : ConnectionStates, id : Nat]]
        /\ queue \in Seq([id : Nat \ {0}, seen : BOOLEAN]) /\ Len(queue) \in Nat
        /\ admitted \in Nat /\ Len(queue) <= admitted /\ Len(queue) <= QueueCapacity
        /\ tracker.pending \in Seq(Nat \ {0})
    BY DEF PathInv, PathTypes, IdsInv
  <1>2. conn[c].pc = "entering" /\ UNCHANGED <<enabled, worker, tracker, bounds>>
        /\ c \notin Tracking /\ c \in Entering
    BY DEF Enqueue, Tracking, Entering
  <1>3. Cardinality(Entering \ {c}) = Cardinality(Entering) - 1
    BY <1>2, EnteringFinite, FS_RemoveElement
  <1>4. CASE /\ conn' = [conn EXCEPT ![c].pc = "rejected"] /\ UNCHANGED <<queue, admitted>>
    <2> DEFINE h == [conn[c] EXCEPT !.pc = "rejected"]
    <2>1. conn' = [conn EXCEPT ![c] = h]
      BY <1>1, <1>4
    <2>2. h \in [pc : ConnectionStates, id : Nat] /\ h.pc = "rejected"
      BY <1>1 DEF ConnectionStates
    <2> HIDE DEF h
    <2>3. /\ conn' \in [Connections -> [pc : ConnectionStates, id : Nat]]
          /\ Tracking' = Tracking \ {c} /\ \A d \in Tracking' : conn'[d] = conn[d]
          /\ Entering' = Entering \ {c} /\ IdsInv'
      BY <1>2, <1>4, <2>1, <2>2, HandlerMoves
    <2>4. PathTypes'
      BY <1>2, <1>4, <2>3 DEF PathInv, PathTypes
    <2>5. MessagesInv'
      BY <1>1, <1>2, <1>3, <1>4, <2>3, EnteringFinite DEF PathInv, MessagesInv, PathTypes
    <2>6. TrackerInv'
      BY <1>2, <1>4, <2>3 DEF PathInv, TrackerInv
    <2> QED
      BY <2>3, <2>4, <2>5, <2>6 DEF PathInv
  <1>5. CASE /\ Len(queue) < QueueCapacity
             /\ admitted' = admitted + 1
             /\ queue' = Append(queue, [id |-> admitted + 1, seen |-> FALSE])
             /\ conn' = [conn EXCEPT ![c] = [pc |-> "tracking", id |-> admitted + 1]]
    <2> DEFINE n == [id |-> admitted + 1, seen |-> FALSE]
               h == [pc |-> "tracking", id |-> admitted + 1]
    <2>1. /\ n \in [id : Nat \ {0}, seen : BOOLEAN] /\ n.id = admitted + 1
          /\ h \in [pc : ConnectionStates, id : Nat] /\ h.pc = "tracking"
          /\ h.id = admitted + 1
      BY <1>1 DEF ConnectionStates
    <2> HIDE DEF n, h
    <2>2. /\ queue' = Append(queue, n) /\ conn' = [conn EXCEPT ![c] = h]
          /\ admitted' = admitted + 1
      BY <1>5 DEF n, h
    <2>3. /\ queue' \in Seq([id : Nat \ {0}, seen : BOOLEAN])
          /\ Len(queue') = Len(queue) + 1
          /\ \A i \in 1..Len(queue) : queue'[i] = queue[i]
          /\ queue'[Len(queue) + 1] = n
      BY <1>1, <2>1, <2>2, AppendProperties
    <2>4. /\ conn' \in [Connections -> [pc : ConnectionStates, id : Nat]]
          /\ conn'[c] = h /\ \A d \in Connections : d # c => conn'[d] = conn[d]
      BY <1>1, <2>1, <2>2
    <2>5. Left' = Left
      BY <1>1, <2>2, <2>3 DEF Left
    <2>6. PathTypes'
      BY <1>1, <1>2, <1>5, <2>2, <2>3, <2>4, MonitorConstants DEF PathInv, PathTypes
    <2>7. IdsInv'
      <3>1. \A i \in 1..Len(queue') : queue'[i].id = Left + i
        <4> SUFFICES ASSUME NEW i \in 1..Len(queue') PROVE queue'[i].id = Left + i
          OBVIOUS
        <4>1. CASE i \in 1..Len(queue)
          BY <2>3, <4>1 DEF PathInv, IdsInv
        <4>2. CASE i = Len(queue) + 1
          BY <1>1, <2>1, <2>3, <4>2 DEF Left
        <4> QED
          BY <1>1, <2>3, <4>1, <4>2
      <3>2. queue' # <<>> /\ Len(queue') <= admitted'
        BY <1>1, <2>2, <2>3
      <3> QED
        BY <1>2, <2>5, <3>1, <3>2 DEF PathInv, IdsInv
    <2>8. MessagesInv'
      <3>1. Entering' = Entering \ {c}
        BY <2>1, <2>4 DEF Entering
      <3> QED
        BY <1>1, <1>2, <1>3, <2>2, <3>1, EnteringFinite DEF PathInv, MessagesInv
    <2>9. Tracking' = Tracking \cup {c} /\ \A d \in Tracking : d # c /\ conn'[d] = conn[d]
      BY <1>2, <2>1, <2>4 DEF Tracking
    <2>10. TrackerInv'
      <3>1. \A x \in Range(tracker.pending) : x \in Nat /\ x <= admitted
        BY <1>1 DEF Range, PathInv, TrackerInv
      <3>2. \A d \in Tracking : conn[d].id \in 1..admitted
        BY DEF PathInv, TrackerInv
      <3>3. \A d \in Tracking' : /\ conn'[d].id \in 1..admitted'
                                 /\ conn'[d].id \notin Range(tracker.pending)
        BY <1>1, <2>1, <2>2, <2>4, <2>9, <3>1, <3>2 DEF PathInv, TrackerInv
      <3>4. \A d, e \in Tracking' : conn'[d].id = conn'[e].id => d = e
        BY <1>1, <2>1, <2>4, <2>9, <3>2 DEF PathInv, TrackerInv
      <3>5. \A i \in DOMAIN tracker.pending : tracker.pending[i] <= admitted'
        BY <1>1, <2>2 DEF PathInv, TrackerInv
      <3> QED
        BY <1>2, <3>3, <3>4, <3>5 DEF PathInv, TrackerInv
    <2> QED
      BY <2>6, <2>7, <2>8, <2>10 DEF PathInv
  <1> QED
    BY <1>4, <1>5 DEF Enqueue

\* A new element at the end of a sequence.
LEMMA AppendFresh ==
    ASSUME NEW S, NEW s \in Seq(S), NEW x \in S
    PROVE  /\ Append(s, x) \in Seq(S)
           /\ Range(Append(s, x)) = Range(s) \cup {x}
           /\ IsInjective(s) /\ x \notin Range(s) => IsInjective(Append(s, x))
  <1>1. /\ Len(s) \in Nat /\ Append(s, x) \in Seq(S) /\ Len(Append(s, x)) = Len(s) + 1
        /\ \A i \in 1..Len(s) : Append(s, x)[i] = s[i]
        /\ Append(s, x)[Len(s) + 1] = x
    BY AppendProperties, LenProperties
  <1>2. DOMAIN s = 1..Len(s) /\ DOMAIN Append(s, x) = 1..Len(s) + 1
    BY <1>1, LenProperties
  <1> DEFINE a == Append(s, x)
             n == Len(s)
  <1>3. /\ n \in Nat /\ DOMAIN s = 1..n /\ DOMAIN a = 1..n + 1
        /\ \A i \in 1..n : a[i] = s[i] /\ a[n + 1] = x
    BY <1>1, <1>2
  <1>4. a[n + 1] = x
    BY <1>1
  <1> HIDE DEF a, n
  <1>5. Range(a) = Range(s) \cup {x}
    <2>1. \A i \in 1..n + 1 : i \in 1..n \/ i = n + 1
      BY <1>3
    <2>2. 1..n \subseteq 1..n + 1 /\ n + 1 \in 1..n + 1
      BY <1>3
    <2> QED
      BY <1>3, <1>4, <2>1, <2>2 DEF Range
  <1>6. IsInjective(s) /\ x \notin Range(s) => IsInjective(a)
    <2>1. \A i \in 1..n + 1 : i \in 1..n \/ i = n + 1
      BY <1>3
    <2> QED
      BY <1>3, <1>4, <2>1 DEF Range, IsInjective
  <1> QED
    BY <1>1, <1>5, <1>6 DEF a

LEMMA TrackerRecord ==
    ASSUME NEW P, NEW C, NEW t \in [pending : P, current : C], NEW p \in P, NEW c \in C
    PROVE  /\ [t EXCEPT !.pending = p] \in [pending : P, current : C]
           /\ [t EXCEPT !.pending = p].pending = p
           /\ [t EXCEPT !.current = c] \in [pending : P, current : C]
           /\ [t EXCEPT !.current = c].pending = t.pending
           /\ [pending |-> p, current |-> c] \in [pending : P, current : C]
  OBVIOUS

LEMMA AddPath ==
    ASSUME PathInv, NEW c \in Connections, Add(c)
    PROVE  PathInv'
  <1> DEFINE h == [conn[c] EXCEPT !.pc = "queued"]
             t == [tracker EXCEPT !.pending = Append(@, conn[c].id)]
  <1>1. /\ conn \in [Connections -> [pc : ConnectionStates, id : Nat]]
        /\ tracker \in [pending : Seq(Nat \ {0}), current : Nat]
        /\ admitted \in Nat
    BY DEF PathInv, PathTypes
  <1>2. /\ conn[c].pc = "tracking" /\ c \in Tracking
        /\ conn' = [conn EXCEPT ![c] = h] /\ tracker' = t
        /\ UNCHANGED <<enabled, worker, queue, admitted, bounds>>
    BY <1>1 DEF Add, Tracking
  <1>3. conn[c].id \in 1..admitted /\ conn[c].id \notin Range(tracker.pending)
    BY <1>2 DEF PathInv, TrackerInv
  <1>4. h \in [pc : ConnectionStates, id : Nat] /\ h.pc = "queued"
    BY <1>1 DEF ConnectionStates
  <1> HIDE DEF h
  <1>5. /\ conn' \in [Connections -> [pc : ConnectionStates, id : Nat]]
        /\ Tracking' = Tracking \ {c} /\ \A d \in Tracking' : conn'[d] = conn[d]
        /\ Entering' = Entering \ {c} /\ IdsInv'
    BY <1>2, <1>4, HandlerMoves
  <1>6. /\ t \in [pending : Seq(Nat \ {0}), current : Nat]
        /\ t.pending = Append(tracker.pending, conn[c].id)
    <2>1. tracker.pending \in Seq(Nat \ {0}) /\ conn[c].id \in Nat \ {0}
      BY <1>1, <1>3
    <2>2. Append(tracker.pending, conn[c].id) \in Seq(Nat \ {0})
      BY <2>1, AppendFresh
    <2> QED
      BY <1>1, <2>2, TrackerRecord
  <1> HIDE DEF t
  <1>7. PathTypes'
    BY <1>2, <1>5, <1>6 DEF PathInv, PathTypes
  <1>8. MessagesInv'
    <2>1. Entering' = Entering
      BY <1>2, <1>5 DEF Entering
    <2> QED
      BY <1>2, <2>1 DEF PathInv, MessagesInv
  <1>9. TrackerInv'
    <2>1. tracker.pending \in Seq(Nat \ {0}) /\ conn[c].id \in Nat \ {0}
      BY <1>1, <1>3
    <2>2. /\ Range(tracker'.pending) = Range(tracker.pending) \cup {conn[c].id}
          /\ IsInjective(tracker'.pending)
      BY <1>2, <1>3, <1>6, <2>1, AppendFresh DEF PathInv, TrackerInv
    <2>3. \A x \in Range(tracker'.pending) : x <= admitted
      <3>1. \A x \in Range(tracker.pending) : x <= admitted
        BY DEF Range, PathInv, TrackerInv
      <3>2. conn[c].id <= admitted
        BY <1>3
      <3> QED
        BY <2>2, <3>1, <3>2
    <2>4. \A i \in DOMAIN tracker'.pending : tracker'.pending[i] <= admitted
      BY <2>3 DEF Range
    <2>5. \A d \in Tracking' : /\ conn'[d].id \in 1..admitted
                               /\ conn'[d].id \notin Range(tracker'.pending)
      BY <1>2, <1>5, <2>2 DEF PathInv, TrackerInv
    <2>6. \A d, e \in Tracking' : conn'[d].id = conn'[e].id => d = e
      BY <1>5 DEF PathInv, TrackerInv
    <2> QED
      BY <1>2, <2>2, <2>4, <2>5, <2>6 DEF TrackerInv
  <1> QED
    BY <1>5, <1>7, <1>8, <1>9 DEF PathInv

LEMMA HandlerEndsPath ==
    ASSUME PathInv, NEW c \in Connections, Queued(c) \/ Rejected(c)
    PROVE  PathInv'
  <1>1. /\ conn \in [Connections -> [pc : ConnectionStates, id : Nat]]
        /\ UNCHANGED <<enabled, worker, queue, admitted, tracker, bounds>>
        /\ conn[c].pc \in {"queued", "rejected"}
    BY DEF PathInv, PathTypes, Queued, Rejected
  <1>2. PICK h \in [pc : ConnectionStates, id : Nat] :
            h.pc = "idle" /\ conn' = [conn EXCEPT ![c] = h]
    <2>1. CASE Queued(c)
      BY <2>1 DEF Queued, ConnectionStates, NoRequest
    <2>2. CASE Rejected(c)
      <3> DEFINE h == [conn[c] EXCEPT !.pc = "idle"]
      <3>1. h \in [pc : ConnectionStates, id : Nat] /\ h.pc = "idle"
        BY <1>1 DEF ConnectionStates
      <3>2. conn' = [conn EXCEPT ![c] = h]
        BY <1>1, <2>2 DEF Rejected
      <3> HIDE DEF h
      <3> QED
        BY <3>1, <3>2
    <2> QED
      BY <2>1, <2>2
  <1>3. /\ conn' \in [Connections -> [pc : ConnectionStates, id : Nat]]
        /\ Tracking' = Tracking \ {c} /\ \A d \in Tracking' : conn'[d] = conn[d]
        /\ Entering' = Entering \ {c} /\ IdsInv'
    BY <1>1, <1>2, HandlerMoves
  <1>4. Entering' = Entering
    BY <1>1, <1>3 DEF Entering
  <1>5. MessagesInv'
    BY <1>1, <1>4 DEF PathInv, MessagesInv
  <1>6. TrackerInv'
    BY <1>1, <1>3 DEF PathInv, TrackerInv
  <1>7. PathTypes'
    BY <1>1, <1>3 DEF PathInv, PathTypes
  <1> QED
    BY <1>3, <1>5, <1>6, <1>7 DEF PathInv

\* What the worker's steps do not touch: the handlers, and but for Finish the
\* tracker's pending requests.
LEMMA WorkerMoves ==
    ASSUME PathInv, UNCHANGED <<enabled, conn, admitted>>,
           tracker' \in [pending : Seq(Nat \ {0}), current : Nat],
           IsInjective(tracker'.pending),
           Range(tracker'.pending) \subseteq Range(tracker.pending),
           bounds' \in [messages : 0..MaxMessages, frames : 0..MaxFrames],
           bounds'.messages = bounds.messages
    PROVE  MessagesInv' /\ TrackerInv'
  <1>1. Entering' = Entering /\ Tracking' = Tracking
    BY DEF Entering, Tracking
  <1>2. MessagesInv'
    BY <1>1 DEF PathInv, MessagesInv
  <1>3. \A x \in Range(tracker'.pending) : x <= admitted
    <2>1. \A x \in Range(tracker.pending) : x <= admitted
      BY DEF Range, PathInv, TrackerInv
    <2> QED
      BY <2>1
  <1>4. \A i \in DOMAIN tracker'.pending : tracker'.pending[i] <= admitted
    BY <1>3 DEF Range
  <1>5. TrackerInv'
    BY <1>1, <1>4 DEF PathInv, TrackerInv
  <1> QED
    BY <1>2, <1>5

LEMMA TrackerKept ==
    ASSUME PathInv, \/ UNCHANGED tracker
                    \/ \E r \in Nat : tracker' = [tracker EXCEPT !.current = r]
    PROVE  /\ tracker' \in [pending : Seq(Nat \ {0}), current : Nat]
           /\ tracker'.pending = tracker.pending
           /\ IsInjective(tracker'.pending)
           /\ Range(tracker'.pending) \subseteq Range(tracker.pending)
  <1>1. tracker \in [pending : Seq(Nat \ {0}), current : Nat]
    BY DEF PathInv, PathTypes
  <1>2. /\ tracker' \in [pending : Seq(Nat \ {0}), current : Nat]
        /\ tracker'.pending = tracker.pending
    BY <1>1, TrackerRecord
  <1> QED
    BY <1>2 DEF PathInv, TrackerInv

Workers == [pc : WorkerStates, id : Nat, record : Nat, failing : BOOLEAN]

LEMMA Rests ==
    ASSUME NEW pc \in WorkerStates
    PROVE  Resting(pc) \in Workers /\ Resting(pc).pc = pc
  BY DEF Resting, Workers, NoRequest

\* A step that leaves the queue alone: the worker stays with its request, rests,
\* or begins with the head.
LEMMA SameQueue ==
    ASSUME PathInv, UNCHANGED <<enabled, conn, admitted, queue>>,
           worker' \in Workers,
           \/ worker'.pc \in {"loop", "failed"}
           \/ worker.pc \in {"observing", "ready", "lifecycle", "dispatched"}
              /\ worker'.pc \in {"ready", "lifecycle", "dispatched", "released"}
              /\ worker'.id = worker.id
           \/ worker.pc = "expired" /\ worker'.pc = "ending" /\ worker'.id = worker.id
           \/ worker'.pc = "observing" /\ queue # <<>> /\ worker'.id = Head(queue).id,
           tracker' \in [pending : Seq(Nat \ {0}), current : Nat],
           IsInjective(tracker'.pending),
           Range(tracker'.pending) \subseteq Range(tracker.pending),
           bounds' \in [messages : 0..MaxMessages, frames : 0..MaxFrames],
           bounds'.messages = bounds.messages
    PROVE  PathInv'
  <1>1. MessagesInv' /\ TrackerInv'
    BY WorkerMoves
  <1>2. PathTypes'
    BY DEF PathInv, PathTypes, Workers
  <1>3. queue \in Seq([id : Nat \ {0}, seen : BOOLEAN])
    BY DEF PathInv, PathTypes
  <1>4. queue # <<>> => Head(queue).id = Left + 1
    <2>1. queue # <<>> => Len(queue) \in Nat \ {0} /\ Head(queue) = queue[1]
      BY <1>3, EmptySeq
    <2> QED
      BY <2>1 DEF PathInv, IdsInv
  <1>5. Left' = Left
    BY DEF Left
  <1>6. IdsInv'
    BY <1>4, <1>5 DEF PathInv, IdsInv
  <1> QED
    BY <1>1, <1>2, <1>6 DEF PathInv

\* The head leaves the queue, and the worker is still about it.
LEMMA HeadLeaves ==
    ASSUME PathInv, UNCHANGED <<enabled, conn, admitted, tracker, bounds>>,
           worker.pc \in {"observing", "released"},
           worker' \in Workers, worker'.pc \in {"expired", "ending"},
           worker'.id = worker.id,
           queue' = Tail(queue)
    PROVE  PathInv'
  <1>1. /\ queue \in Seq([id : Nat \ {0}, seen : BOOLEAN]) /\ queue # <<>>
        /\ admitted \in Nat /\ Len(queue) \in Nat /\ Len(queue) <= admitted
        /\ worker.id = Left + 1 /\ Len(queue) <= QueueCapacity
    BY DEF PathInv, PathTypes, IdsInv
  <1>2. /\ queue' \in Seq([id : Nat \ {0}, seen : BOOLEAN])
        /\ Len(queue') = Len(queue) - 1 /\ Len(queue') \in Nat /\ Len(queue) > 0
        /\ \A i \in 1..Len(queue') : queue'[i] = queue[i + 1]
    <2>1. Len(queue) # 0
      BY <1>1, EmptySeq
    <2> QED
      BY <1>1, <2>1, HeadTailProperties
  <1>3. Left' = Left + 1 /\ Left' > 0
    BY <1>1, <1>2 DEF Left
  <1>4. /\ tracker' \in [pending : Seq(Nat \ {0}), current : Nat]
        /\ IsInjective(tracker'.pending)
        /\ bounds \in [messages : 0..MaxMessages, frames : 0..MaxFrames]
    BY TrackerKept DEF PathInv, PathTypes
  <1>5. MessagesInv' /\ TrackerInv'
    BY <1>4, WorkerMoves
  <1>6. PathTypes'
    BY <1>1, <1>2, <1>4, MonitorConstants DEF PathInv, PathTypes, Workers
  <1>7. \A i \in 1..Len(queue') : queue'[i].id = Left' + i
    <2> SUFFICES ASSUME NEW i \in 1..Len(queue') PROVE queue'[i].id = Left' + i
      OBVIOUS
    <2>1. i + 1 \in 1..Len(queue) /\ queue'[i] = queue[i + 1]
      BY <1>2
    <2>2. queue[i + 1].id = Left + (i + 1)
      BY <2>1 DEF PathInv, IdsInv
    <2> QED
      BY <1>1, <1>3, <2>1, <2>2 DEF Left
  <1>8. IdsInv'
    BY <1>1, <1>2, <1>3, <1>7 DEF IdsInv
  <1> QED
    BY <1>5, <1>6, <1>8 DEF PathInv

LEMMA AfterPosition ==
    ASSUME NEW n \in Nat, NEW k \in 1..n
    PROVE  \/ k + 1 <= n /\ n - (k + 1) + 1 = n - k
           \/ ~(k + 1 <= n) /\ 0 = n - k
  OBVIOUS

\* deque.remove on a sequence without repetitions.
LEMMA FirstRemoved ==
    ASSUME NEW S, NEW s \in Seq(S), NEW e, IsInjective(s)
    PROVE  /\ RemoveFirst(s, e) \in Seq(S) /\ IsInjective(RemoveFirst(s, e))
           /\ Range(RemoveFirst(s, e)) \subseteq Range(s)
  <1>1. Len(s) \in Nat /\ DOMAIN s = 1..Len(s)
    BY LenProperties
  <1>2. CASE ~ \E i \in 1..Len(s) : s[i] = e
    BY <1>2 DEF RemoveFirst
  <1>3. CASE \E i \in 1..Len(s) : s[i] = e
    <2>1. PICK k \in 1..Len(s) : s[k] = e
      BY <1>3
    <2>2. {i \in 1..Len(s) : s[i] = e} = {k}
      BY <1>1, <2>1 DEF IsInjective
    <2>3. SelectInSeq(s, LAMBDA v : v = e) = Min({k})
      BY <2>2 DEF SelectInSeq
    <2>4. Min({k}) = k
      BY <1>1, <2>1 DEF Min
    <2>5. RemoveFirst(s, e) = RemoveAt(s, k)
      BY <1>3, <2>3, <2>4 DEF RemoveFirst
    <2> DEFINE a == SubSeq(s, 1, k - 1)
               b == SubSeq(s, k + 1, Len(s))
               t == a \o b
    <2>6. /\ k \in Int /\ 1 <= k /\ k <= Len(s)
          /\ \A i \in 1..Len(s) : s[i] \in S
      BY <1>1, <2>1, ElementOfSeq
    <2>7. /\ a \in Seq(S) /\ Len(a) = k - 1
          /\ \A i \in 1..k - 1 : a[i] = s[i]
      <3>1. \A i \in 1..k - 1 : s[i] \in S
        BY <1>1, <2>6
      <3>2. Len(a) = IF 1 <= k - 1 THEN (k - 1) - 1 + 1 ELSE 0
        BY <1>1, <2>6, SubSeqProperties
      <3> QED
        BY <1>1, <2>6, <3>1, <3>2, SubSeqProperties
    <2>8. /\ b \in Seq(S) /\ Len(b) = Len(s) - k
          /\ \A i \in 1..Len(s) - k : b[i] = s[k + i]
      <3>1. \A i \in k + 1..Len(s) : s[i] \in S
        BY <1>1, <2>6
      <3>2. k + 1 \in Nat /\ k + 1 >= 1 /\ Len(s) \in 0..Len(s)
        BY <1>1, <2>6
      <3>3. b \in Seq(S) /\ Len(b) = IF k + 1 <= Len(s) THEN Len(s) - (k + 1) + 1 ELSE 0
        BY <1>1, <2>6, <3>1, <3>2, SubSeqProperties
      <3>4. \A i \in 1..Len(s) - k : b[i] = s[(k + 1) + i - 1]
        BY <1>1, <2>6, <3>1, <3>2, SubSeqProperties
      <3>5. \A i \in 1..Len(s) - k : (k + 1) + i - 1 = k + i
        BY <1>1, <2>6
      <3>6. \/ k + 1 <= Len(s) /\ Len(s) - (k + 1) + 1 = Len(s) - k
            \/ ~(k + 1 <= Len(s)) /\ 0 = Len(s) - k
        BY <1>1, <2>1, AfterPosition
      <3>7. Len(b) = Len(s) - k
        BY <3>3, <3>6
      <3>8. \A i \in 1..Len(s) - k : b[i] = s[k + i]
        BY <3>4, <3>5
      <3> QED
        BY <3>3, <3>7, <3>8
    <2> HIDE DEF a, b
    <2> DEFINE at(i) == IF i < k THEN i ELSE i + 1
    <2>9. /\ t \in Seq(S) /\ Len(t) = Len(s) - 1
          /\ \A i \in 1..Len(s) - 1 : t[i] = s[at(i)]
      <3>1. /\ t \in Seq(S) /\ Len(t) = Len(a) + Len(b)
            /\ \A i \in 1..Len(a) + Len(b) :
                  t[i] = IF i <= Len(a) THEN a[i] ELSE b[i - Len(a)]
        BY <2>7, <2>8, ConcatProperties
      <3>2. Len(t) = Len(s) - 1 /\ Len(a) + Len(b) = Len(s) - 1
        BY <1>1, <2>6, <2>7, <2>8, <3>1
      <3>3. ASSUME NEW i \in 1..Len(s) - 1 PROVE t[i] = s[at(i)]
        <4>1. CASE i < k
          <5>1. i \in 1..k - 1 /\ i <= Len(a)
            BY <1>1, <2>6, <2>7, <4>1
          <5>2. t[i] = a[i] /\ a[i] = s[i]
            BY <2>7, <3>1, <3>2, <5>1
          <5> QED
            BY <4>1, <5>2
        <4>2. CASE i >= k
          <5>1. i - (k - 1) \in 1..Len(s) - k /\ k + (i - (k - 1)) = i + 1
                /\ ~(i <= Len(a))
            BY <1>1, <2>6, <2>7, <2>8, <4>2
          <5>2. t[i] = b[i - (k - 1)]
            BY <2>7, <3>1, <3>2, <5>1
          <5>3. b[i - (k - 1)] = s[i + 1]
            BY <2>8, <5>1
          <5> QED
            BY <1>1, <2>6, <4>2, <5>2, <5>3
        <4>3. i < k \/ i >= k
          BY <1>1, <2>6
        <4> QED
          BY <4>1, <4>2, <4>3
      <3> QED
        BY <3>1, <3>2, <3>3
    <2>10. DOMAIN t = 1..Len(s) - 1
      BY <2>9, LenProperties
    <2>11. \A i \in 1..Len(s) - 1 : at(i) \in 1..Len(s)
      BY <1>1, <2>6
    <2>12. \A i, j \in 1..Len(s) - 1 : at(i) = at(j) => i = j
      BY <1>1, <2>6
    <2> HIDE DEF t, at
    <2>13. IsInjective(t)
      <3> SUFFICES ASSUME NEW i \in 1..Len(s) - 1, NEW j \in 1..Len(s) - 1, t[i] = t[j]
                   PROVE  i = j
        BY <2>10 DEF IsInjective
      <3>1. s[at(i)] = s[at(j)] /\ at(i) \in DOMAIN s /\ at(j) \in DOMAIN s
        BY <1>1, <2>9, <2>11
      <3>2. at(i) = at(j)
        BY <3>1 DEF IsInjective
      <3> QED
        BY <2>12, <3>2
    <2>14. Range(t) \subseteq Range(s)
      BY <1>1, <2>9, <2>10, <2>11 DEF Range
    <2> QED
      BY <2>5, <2>9, <2>13, <2>14 DEF t, a, b, RemoveAt
  <1> QED
    BY <1>2, <1>3

LEMMA BoundsRecord ==
    ASSUME NEW M, NEW F, NEW b \in [messages : M, frames : F], NEW f \in F
    PROVE  /\ [b EXCEPT !.frames = f] \in [messages : M, frames : F]
           /\ [b EXCEPT !.frames = f].messages = b.messages
  OBVIOUS

LEMMA WorkerPath ==
    ASSUME PathInv, Worker
    PROVE  PathInv'
  <1>1. /\ worker \in Workers /\ bounds \in [messages : 0..MaxMessages, frames : 0..MaxFrames]
        /\ tracker \in [pending : Seq(Nat \ {0}), current : Nat]
        /\ queue \in Seq([id : Nat \ {0}, seen : BOOLEAN])
    BY DEF PathInv, PathTypes, Workers
  <1>2. CASE RxFrame
    <2>1. /\ worker.pc = "loop" /\ bounds' = [bounds EXCEPT !.frames = @ + 1]
          /\ bounds.frames < MaxFrames
          /\ UNCHANGED <<enabled, conn, worker, queue, admitted, tracker>>
      BY <1>2 DEF RxFrame
    <2>2. /\ bounds' \in [messages : 0..MaxMessages, frames : 0..MaxFrames]
          /\ bounds'.messages = bounds.messages
      <3>1. bounds.frames + 1 \in 0..MaxFrames
        BY <1>1, <2>1, MonitorConstants
      <3> QED
        BY <1>1, <2>1, <3>1, BoundsRecord
    <2> QED
      BY <1>1, <2>1, <2>2, TrackerKept, SameQueue
  <1>3. CASE BeginObservation
    <2>1. PICK record : /\ record = IF tracker.pending = <<>> THEN NoRequest ELSE Head(tracker.pending)
                        /\ tracker' = [tracker EXCEPT !.current = record]
                        /\ worker' = [pc |-> "observing", id |-> Head(queue).id,
                                      record |-> record, failing |-> FALSE]
      BY <1>3 DEF BeginObservation
    <2>2. queue # <<>> /\ UNCHANGED <<enabled, conn, queue, admitted, bounds>>
      BY <1>3 DEF BeginObservation
    <2>3. record \in Nat
      <3>1. tracker.pending # <<>> => Head(tracker.pending) \in Nat \ {0}
        BY <1>1, HeadTailProperties
      <3> QED
        BY <2>1, <3>1 DEF NoRequest
    <2>4. Head(queue).id \in Nat
      <3>1. Head(queue) \in [id : Nat \ {0}, seen : BOOLEAN]
        BY <1>1, <2>2, HeadTailProperties
      <3> QED
        BY <3>1
    <2>5. worker' \in Workers /\ worker'.pc = "observing" /\ worker'.id = Head(queue).id
      BY <2>1, <2>3, <2>4 DEF Workers, WorkerStates
    <2> QED
      BY <1>1, <2>1, <2>2, <2>3, <2>5, TrackerKept, SameQueue
  <1>4. CASE Waits
    <2>1. /\ worker.pc = "observing" /\ queue' = [queue EXCEPT ![1].seen = TRUE]
          /\ worker' = Resting("loop") /\ tracker' = [tracker EXCEPT !.current = NoRequest]
          /\ UNCHANGED <<enabled, conn, admitted, bounds>> /\ queue # <<>>
      BY <1>4 DEF Waits, PathInv, IdsInv
    <2>2. worker' \in Workers /\ worker'.pc = "loop"
      BY <2>1, Rests DEF WorkerStates
    <2>3. Len(queue) \in Nat /\ Len(queue) > 0
      BY <1>1, <2>1, EmptySeq
    <2> DEFINE h == [queue[1] EXCEPT !.seen = TRUE]
    <2>4. queue[1] \in [id : Nat \ {0}, seen : BOOLEAN]
      <3>1. 1 \in 1..Len(queue)
        BY <2>3
      <3> QED
        BY <1>1, <3>1, ElementOfSeq
    <2>5. h \in [id : Nat \ {0}, seen : BOOLEAN] /\ h.id = queue[1].id
      BY <2>4
    <2>6. queue' = [queue EXCEPT ![1] = h]
      BY <1>1, <2>1
    <2> HIDE DEF h
    <2>7. /\ queue' \in Seq([id : Nat \ {0}, seen : BOOLEAN]) /\ Len(queue') = Len(queue)
          /\ \A i \in 1..Len(queue) : queue'[i] = IF i = 1 THEN h ELSE queue[i]
      BY <1>1, <2>3, <2>5, <2>6, ExceptSeq
    <2>8. \A i \in 1..Len(queue) : queue'[i].id = queue[i].id
      BY <2>5, <2>7
    <2>9. Left' = Left
      BY <2>1, <2>7 DEF Left
    <2>10. IdsInv'
      BY <2>1, <2>2, <2>7, <2>8, <2>9 DEF PathInv, IdsInv
    <2>11. /\ tracker' \in [pending : Seq(Nat \ {0}), current : Nat]
           /\ IsInjective(tracker'.pending)
           /\ Range(tracker'.pending) \subseteq Range(tracker.pending)
      BY <2>1, TrackerKept DEF NoRequest
    <2>12. MessagesInv' /\ TrackerInv'
      BY <1>1, <2>1, <2>11, WorkerMoves
    <2>13. PathTypes'
      BY <2>1, <2>2, <2>7, <2>11 DEF PathInv, PathTypes, Workers
    <2> QED
      BY <2>10, <2>12, <2>13 DEF PathInv
  <1>5. CASE Expires \/ Released
    <2>1. PICK pc \in {"expired", "ending"} : worker' = [worker EXCEPT !.pc = pc]
      BY <1>5 DEF Expires, Released
    <2>2. /\ worker.pc \in {"observing", "released"} /\ queue' = Tail(queue)
          /\ UNCHANGED <<enabled, conn, admitted, tracker, bounds>>
      BY <1>5 DEF Expires, Released
    <2>3. worker' \in Workers /\ worker'.pc = pc /\ worker'.id = worker.id
      BY <1>1, <2>1 DEF Workers, WorkerStates
    <2> QED
      BY <2>2, <2>3, HeadLeaves
  <1>6. CASE TimedOut \/ ChannelClear \/ Dispatched \/ Completed
    <2>1. PICK pc \in {"ending", "lifecycle", "dispatched", "released"} :
             /\ worker' = [worker EXCEPT !.pc = pc]
             /\ \/ worker.pc = "expired" /\ pc = "ending"
                \/ worker.pc \in {"ready", "lifecycle", "dispatched"} /\ pc # "ending"
      BY <1>6 DEF TimedOut, ChannelClear, Dispatched, Completed
    <2>2. UNCHANGED <<enabled, conn, queue, admitted, tracker, bounds>>
      BY <1>6 DEF TimedOut, ChannelClear, Dispatched, Completed
    <2>3. worker' \in Workers /\ worker'.pc = pc /\ worker'.id = worker.id
      BY <1>1, <2>1 DEF Workers, WorkerStates
    <2> QED
      BY <1>1, <2>1, <2>2, <2>3, TrackerKept, SameQueue
  <1>7. CASE Ready
    <2>1. /\ worker.pc = "observing" /\ worker' = [worker EXCEPT !.pc = "ready", !.record = Current]
          /\ UNCHANGED <<enabled, conn, queue, admitted, tracker, bounds>>
      BY <1>7 DEF Ready
    <2>2. Current \in Nat
      BY <1>1 DEF Current, NoRequest
    <2>3. worker' \in Workers /\ worker'.pc = "ready" /\ worker'.id = worker.id
      BY <1>1, <2>1, <2>2 DEF Workers, WorkerStates
    <2> QED
      BY <1>1, <2>1, <2>3, TrackerKept, SameQueue
  <1>8. CASE Failed
    <2>1. /\ worker.pc \in {"lifecycle", "dispatched"}
          /\ worker' = [worker EXCEPT !.pc = "released", !.failing = TRUE]
          /\ UNCHANGED <<enabled, conn, queue, admitted, tracker, bounds>>
      BY <1>8 DEF Failed
    <2>2. worker' \in Workers /\ worker'.pc = "released" /\ worker'.id = worker.id
      BY <1>1, <2>1 DEF Workers, WorkerStates
    <2> QED
      BY <1>1, <2>1, <2>2, TrackerKept, SameQueue
  <1>9. CASE Finish
    <2>1. /\ tracker' = [pending |-> RemoveFirst(tracker.pending, worker.id),
                         current |-> NoRequest]
          /\ UNCHANGED <<enabled, conn, queue, admitted, bounds>>
      BY <1>9 DEF Finish
    <2>2. worker' \in Workers /\ worker'.pc \in {"loop", "failed"}
      BY <1>9, Rests DEF Finish, WorkerStates
    <2>3. tracker.pending \in Seq(Nat \ {0}) /\ IsInjective(tracker.pending)
      BY <1>1 DEF PathInv, TrackerInv
    <2> DEFINE p == RemoveFirst(tracker.pending, worker.id)
    <2>4. /\ p \in Seq(Nat \ {0}) /\ IsInjective(p) /\ Range(p) \subseteq Range(tracker.pending)
      BY <2>3, FirstRemoved
    <2>5. tracker' = [pending |-> p, current |-> 0]
      BY <2>1 DEF NoRequest
    <2> HIDE DEF p
    <2>6. /\ tracker' \in [pending : Seq(Nat \ {0}), current : Nat]
          /\ tracker'.pending = p
      BY <2>4, <2>5
    <2> QED
      BY <1>1, <2>1, <2>2, <2>4, <2>6, SameQueue
  <1>10. CASE WorkerFails
    <2>1. /\ worker' = Resting("failed") /\ tracker' = [tracker EXCEPT !.current = NoRequest]
          /\ UNCHANGED <<enabled, conn, queue, admitted, bounds>>
      BY <1>10 DEF WorkerFails
    <2>2. worker' \in Workers /\ worker'.pc = "failed"
      BY <2>1, Rests DEF WorkerStates
    <2>3. NoRequest \in Nat
      BY DEF NoRequest
    <2> QED
      BY <1>1, <2>1, <2>2, <2>3, TrackerKept, SameQueue
  <1> QED
    BY <1>2, <1>3, <1>4, <1>5, <1>6, <1>7, <1>8, <1>9, <1>10 DEF Worker

-----------------------------------------------------------------------------
(***************************************************************************)
(* The stages of a request                                                 *)
(***************************************************************************)

\* Where a thread does not ask whether its last publication is over, it is.
FreeInv ==
    /\ worker.pc \in {"observing", "expired", "ready"} => Free("worker")
    /\ \A c \in Connections : conn[c].pc \in {"tracking", "queued"} => Free(c)

\* The last stage the worker has announced of its request, at most.
Reached(pc) == IF pc = "lifecycle" THEN 1
               ELSE IF pc = "dispatched" THEN 2
               ELSE IF pc = "expired" THEN 0 ELSE 3

AfterClear == {"lifecycle", "dispatched", "released"}

\* A stage in flight is the worker's, about its request, and the one it has
\* just reached; who has yet to get it has an earlier one.
Announced(p) ==
    /\ p = "worker" /\ worker.pc \in AfterClear \cup {"ending"}
    /\ pub[p].payload.about = worker.id
    /\ StageRank(pub[p].payload.event) = Reached(worker.pc)
    /\ \A t \in pub[p].targets : stage[t][worker.id] < Reached(worker.pc)

\* A request behind the head has no stage, and the head none before it was
\* found clear.
NoStageYet ==
    \A t \in Subscribers, r \in 1..MaxMessages :
        /\ r > Left + 1 => stage[t][r] = 0
        /\ r = Left + 1 /\ worker.pc \notin AfterClear => stage[t][r] = 0

StagesReached ==
    \A t \in Subscribers :
        worker.id \in 1..MaxMessages => stage[t][worker.id] <= Reached(worker.pc)

InFlightStages ==
    \A p \in InFlight : pub[p].payload.event \in Stages => Announced(p)

StageInv ==
    /\ stage \in [Subscribers -> [1..MaxMessages -> 0..3]]
    /\ NoStageYet /\ StagesReached /\ InFlightStages

MonitorInv == PathInv /\ HubInv /\ FreeInv /\ StageInv

LEMMA StageNumbers ==
    ASSUME stage \in [Subscribers -> [1..MaxMessages -> 0..3]]
    PROVE  /\ \A t \in Subscribers, r \in 1..MaxMessages : stage[t][r] \in 0..3
           /\ \A t \in Subscribers, r \in 1..MaxMessages : stage[t][r] \in Int
           /\ \A pc : Reached(pc) \in 0..3 /\ Reached(pc) \in Int
  <1>1. \A t \in Subscribers, r \in 1..MaxMessages : stage[t][r] \in 0..3
    OBVIOUS
  <1>2. \A x \in 0..3 : x \in Int
    OBVIOUS
  <1>3. \A pc : Reached(pc) \in 0..3
    BY DEF Reached
  <1> QED
    BY <1>1, <1>2, <1>3

LEMMA OrderFromInv ==
    ASSUME MonitorInv
    PROVE  StagesInOrder
  <1> SUFFICES ASSUME NEW p \in InFlight, NEW t \in pub[p].targets,
                      pub[p].payload.event \in Stages
               PROVE  StageRank(pub[p].payload.event) > stage[t][pub[p].payload.about]
    BY DEF StagesInOrder
  <1>1. Announced(p)
    BY DEF MonitorInv, StageInv, InFlightStages
  <1>2. /\ StageRank(pub[p].payload.event) = Reached(worker.pc)
        /\ pub[p].payload.about = worker.id
        /\ stage[t][worker.id] < Reached(worker.pc)
    BY <1>1 DEF Announced
  <1>3. t \in Subscribers /\ worker.id \in 1..MaxMessages
    <2>1. pub[p] \in Publications
      BY DEF MonitorInv, HubInv, HubTypes, InFlight
    <2>2. worker.pc \notin {"loop", "failed"}
      BY <1>1 DEF Announced, AfterClear
    <2> QED
      BY <2>1, <2>2, IdsBounded DEF Publications, MonitorInv
  <1>4. stage[t][worker.id] \in Int /\ Reached(worker.pc) \in Int
    BY <1>3, StageNumbers DEF MonitorInv, StageInv
  <1> QED
    BY <1>2, <1>4

LEMMA HubSame == ASSUME HubInv, UNCHANGED <<hub, pub, session, feed, due>> PROVE HubInv'
  BY DEF HubInv, HubTypes, DropsInv, HubAccounts, InFlight, InQueues, ToBePut, DropsInFlight

\* What a publication is, for whom it is new.
LEMMA Announces ==
    ASSUME MonitorInv, NEW p \in Publishers, NEW e \in Events, NEW a \in Nat,
           NEW l \in Nat, Free(p), Publish(p, e, a, l)
    PROVE  /\ HubInv' /\ UNCHANGED stage
           /\ InFlight' = InFlight \cup {p}
           /\ \A q \in Publishers : q # p => pub'[q] = pub[q]
           /\ pub'[p].payload.event = e /\ pub'[p].payload.about = a
           /\ pub'[p].targets \subseteq Subscribers
  <1>1. pub \in [Publishers -> Publications \cup {Nothing}]
    BY DEF MonitorInv, HubInv, HubTypes
  <1> DEFINE record == [payload |-> [seq |-> hub.sequence + 1, event |-> e,
                                     about |-> a, label |-> l, by |-> p],
                        targets |-> Open, drops |-> 0]
  <1>2. pub' = [pub EXCEPT ![p] = record] /\ UNCHANGED stage
    BY DEF Publish
  <1>3. /\ record.payload.event = e /\ record.payload.about = a
        /\ record.targets \subseteq Subscribers /\ record # Nothing
    BY DEF Open, Nothing
  <1> HIDE DEF record
  <1>4. pub'[p] = record /\ \A q \in Publishers : q # p => pub'[q] = pub[q]
    BY <1>1, <1>2
  <1>5. InFlight' = InFlight \cup {p}
    BY <1>3, <1>4 DEF InFlight
  <1>6. HubInv'
    BY HubPublish DEF MonitorInv
  <1> QED
    BY <1>2, <1>3, <1>4, <1>5, <1>6

\* While the worker publishes nothing, no stage is in flight.
LEMMA NoStageInFlight ==
    ASSUME MonitorInv, Free("worker")
    PROVE  \A p \in InFlight : p # "worker" /\ pub[p].payload.event \notin Stages
  BY DEF MonitorInv, StageInv, InFlightStages, Announced, InFlight, Free

\* A handler's publication is about no stage.
LEMMA HandlerStages ==
    ASSUME MonitorInv, NEW c \in Connections, Handler(c)
    PROVE  HubInv' /\ FreeInv' /\ StageInv' /\ PathInv'
  <1>1. PathInv'
    BY SubmittedPath, EnqueuePath, AddPath, HandlerEndsPath DEF Handler, MonitorInv
  <1>2. /\ UNCHANGED worker /\ Left' = Left
    <2>1. UNCHANGED worker
      BY DEF Handler, Submitted, Enqueue, Add, Queued, Rejected
    <2>2. CASE Enqueue(c)
      <3>1. queue \in Seq([id : Nat \ {0}, seen : BOOLEAN]) /\ admitted \in Nat
        BY DEF MonitorInv, PathInv, PathTypes
      <3>2. [id |-> admitted + 1, seen |-> FALSE] \in [id : Nat \ {0}, seen : BOOLEAN]
        BY <3>1
      <3>3. Len(Append(queue, [id |-> admitted + 1, seen |-> FALSE])) = Len(queue) + 1
            /\ Len(queue) \in Nat
        BY <3>1, <3>2, AppendProperties
      <3> QED
        BY <2>2, <3>1, <3>3 DEF Enqueue, Left
    <2>3. CASE ~Enqueue(c)
      BY <2>3 DEF Handler, Submitted, Add, Queued, Rejected, Left
    <2> QED
      BY <2>1, <2>2, <2>3
  <1>3. c \in Publishers /\ c # "worker"
    BY MonitorConstants DEF Publishers
  <1>4. /\ conn \in [Connections -> [pc : ConnectionStates, id : Nat]]
    BY DEF MonitorInv, PathInv, PathTypes
  <1>5. CASE Enqueue(c) \/ Add(c)
    <2>1. UNCHANGED hubVars
      BY <1>5 DEF Enqueue, Add
    <2>2. HubInv'
      BY <2>1, HubSame DEF MonitorInv, hubVars
    <2>3. Free(c)
      BY <1>5 DEF Enqueue, Add, MonitorInv, FreeInv
    <2>4. \A d \in Connections : d # c => conn'[d] = conn[d]
      BY <1>4, <1>5 DEF Enqueue, Add
    <2>5. FreeInv'
      BY <1>2, <2>1, <2>3, <2>4 DEF hubVars, Free, MonitorInv, FreeInv
    <2>6. StageInv'
      BY <1>2, <2>1 DEF hubVars, MonitorInv, StageInv, NoStageYet, StagesReached,
                        InFlightStages, InFlight, Announced
    <2> QED
      BY <1>1, <2>2, <2>5, <2>6
  <1>6. CASE Submitted(c) \/ Queued(c) \/ Rejected(c)
    <2>1. PICK e \in {"tx.submitted", "tx.queued", "tx.rejected"}, a \in Nat :
              Publish(c, e, a, a)
      BY <1>4, <1>6 DEF Submitted, Queued, Rejected, NoRequest
    <2>2. e \in Events /\ e \notin Stages
      BY DEF Events, Stages
    <2>3. Free(c)
      BY <1>6 DEF Submitted, Queued, Rejected, MonitorInv, FreeInv
    <2>4. /\ HubInv' /\ UNCHANGED stage /\ InFlight' = InFlight \cup {c}
          /\ \A q \in Publishers : q # c => pub'[q] = pub[q]
          /\ pub'[c].payload.event = e
      BY <1>3, <2>1, <2>2, <2>3, Announces
    <2>5. conn'[c].pc \in {"entering", "rejected", "idle"}
          /\ \A d \in Connections : d # c => conn'[d] = conn[d]
      BY <1>4, <1>6 DEF Submitted, Queued, Rejected
    <2>6. FreeInv'
      BY <1>2, <1>3, <2>4, <2>5 DEF Free, MonitorInv, FreeInv, Publishers
    <2>7. InFlightStages'
      BY <1>2, <1>3, <2>2, <2>4 DEF MonitorInv, StageInv, InFlightStages, Announced, InFlight
    <2>8. StageInv'
      BY <1>2, <2>4, <2>7 DEF MonitorInv, StageInv, NoStageYet, StagesReached
    <2> QED
      BY <1>1, <2>4, <2>6, <2>8
  <1> QED
    BY <1>5, <1>6 DEF Handler

\* A step of the worker without a publication.
LEMMA WorkerSilent ==
    ASSUME MonitorInv, PathInv', Free("worker"), UNCHANGED <<hubVars, conn>>,
           NoStageYet', StagesReached'
    PROVE  HubInv' /\ FreeInv' /\ StageInv'
  <1>1. HubInv'
    BY HubSame DEF MonitorInv, hubVars
  <1>2. FreeInv'
    BY DEF MonitorInv, FreeInv, hubVars, Free
  <1>3. InFlightStages'
    BY NoStageInFlight DEF InFlightStages, hubVars, InFlight
  <1> QED
    BY <1>1, <1>2, <1>3 DEF MonitorInv, StageInv, hubVars

\* A step of the worker that announces the stage it reaches.
LEMMA WorkerSpeaks ==
    ASSUME MonitorInv, Free("worker"), NEW e \in Events, NEW l \in Nat,
           Publish("worker", e, worker.id, l),
           UNCHANGED <<conn, queue, admitted>>, worker' \in Workers,
           worker'.id = worker.id, worker.pc \notin {"loop", "failed"},
           worker'.pc \in AfterClear \cup {"ending"},
           worker'.pc \notin AfterClear => worker.pc \notin AfterClear,
           StageRank(e) = Reached(worker'.pc),
           \A t \in Subscribers : stage[t][worker.id] < Reached(worker'.pc)
    PROVE  HubInv' /\ FreeInv' /\ StageInv'
  <1>1. "worker" \in Publishers /\ worker.id \in Nat
    BY DEF Publishers, MonitorInv, PathInv, PathTypes
  <1>2. /\ HubInv' /\ UNCHANGED stage
        /\ InFlight' = InFlight \cup {"worker"}
        /\ \A q \in Publishers : q # "worker" => pub'[q] = pub[q]
        /\ pub'["worker"].payload.event = e /\ pub'["worker"].payload.about = worker.id
        /\ pub'["worker"].targets \subseteq Subscribers
    BY <1>1, Announces
  <1>3. Left' = Left
    BY DEF Left
  <1>4. FreeInv'
    BY <1>2, MonitorConstants DEF MonitorInv, FreeInv, Free, Publishers, AfterClear
  <1>5. worker.id \in 1..MaxMessages
    BY IdsBounded DEF MonitorInv
  <1>6. stage \in [Subscribers -> [1..MaxMessages -> 0..3]]
    BY DEF MonitorInv, StageInv
  <1>7. StagesReached'
    <2> SUFFICES ASSUME NEW t \in Subscribers
                 PROVE  stage[t][worker.id] <= Reached(worker'.pc)
      BY <1>2 DEF StagesReached
    <2>1. stage[t][worker.id] \in Int /\ Reached(worker'.pc) \in Int
      BY <1>5, <1>6, StageNumbers
    <2> QED
      BY <2>1
  <1>8. NoStageYet'
    BY <1>2, <1>3 DEF MonitorInv, StageInv, NoStageYet
  <1>9. Announced("worker")'
    BY <1>2 DEF Announced
  <1>10. InFlightStages'
    BY <1>2, <1>9, NoStageInFlight DEF InFlightStages, InFlight
  <1> QED
    BY <1>2, <1>4, <1>6, <1>7, <1>8, <1>10 DEF StageInv

\* Before a request's head was found clear it has no stage; what it has then
\* is what the worker has reached.
LEMMA StagesSoFar ==
    ASSUME MonitorInv, NEW t \in Subscribers
    PROVE  /\ worker.pc \in {"observing", "ready"} => stage[t][worker.id] = 0
           /\ worker.pc \notin {"loop", "failed"}
                 => /\ stage[t][worker.id] \in 0..3
                    /\ stage[t][worker.id] <= Reached(worker.pc)
  <1>1. worker.pc \notin {"loop", "failed"} => worker.id \in 1..MaxMessages
    BY IdsBounded DEF MonitorInv
  <1>2. stage \in [Subscribers -> [1..MaxMessages -> 0..3]]
    BY DEF MonitorInv, StageInv
  <1>3. worker.pc \in {"observing", "ready"} => worker.id = Left + 1
    BY DEF MonitorInv, PathInv, IdsInv
  <1>4. worker.pc \in {"observing", "ready"} => stage[t][worker.id] = 0
    BY <1>1, <1>3 DEF MonitorInv, StageInv, NoStageYet, AfterClear
  <1>5. worker.pc \notin {"loop", "failed"} => stage[t][worker.id] \in 0..3
    BY <1>1, <1>2, StageNumbers
  <1> QED
    BY <1>1, <1>4, <1>5 DEF MonitorInv, StageInv, StagesReached

LEMMA WorkerStages ==
    ASSUME MonitorInv, Worker
    PROVE  HubInv' /\ FreeInv' /\ StageInv' /\ PathInv'
  <1>1. PathInv'
    BY WorkerPath DEF MonitorInv
  <1>2. /\ worker \in Workers /\ worker' \in Workers
        /\ UNCHANGED <<conn, admitted>>
    BY <1>1 DEF MonitorInv, PathInv, PathTypes, Workers, Worker, RxFrame, BeginObservation,
               Waits, Expires, TimedOut, Ready, ChannelClear, Dispatched, Completed, Failed,
               Released, Finish, WorkerFails
  <1>3. /\ queue \in Seq([id : Nat \ {0}, seen : BOOLEAN]) /\ admitted \in Nat
        /\ Len(queue) \in Nat /\ Len(queue) <= admitted
        /\ stage \in [Subscribers -> [1..MaxMessages -> 0..3]]
    BY DEF MonitorInv, PathInv, PathTypes, IdsInv, StageInv
  <1>4. CASE RxFrame
    <2>1. /\ Free("worker") /\ Publish("worker", "rx.frame", 0, 0)
          /\ UNCHANGED <<worker, queue>> /\ worker.pc = "loop"
      BY <1>4 DEF RxFrame, NoRequest
    <2>2. /\ "rx.frame" \in Events /\ "rx.frame" \notin Stages /\ "worker" \in Publishers
      BY DEF Events, Stages, Publishers
    <2>3. /\ HubInv' /\ UNCHANGED stage /\ InFlight' = InFlight \cup {"worker"}
          /\ \A q \in Publishers : q # "worker" => pub'[q] = pub[q]
          /\ pub'["worker"].payload.event = "rx.frame"
      BY <2>1, <2>2, Announces
    <2>4. FreeInv'
      BY <1>2, <2>1, <2>3, MonitorConstants DEF MonitorInv, FreeInv, Free, Publishers
    <2>5. InFlightStages'
      BY <2>1, <2>2, <2>3, NoStageInFlight DEF InFlightStages, InFlight
    <2>6. StageInv'
      BY <1>2, <2>1, <2>3, <2>5
         DEF MonitorInv, StageInv, NoStageYet, StagesReached, Left
    <2> QED
      BY <1>1, <2>3, <2>4, <2>6
  <1>5. CASE BeginObservation \/ Waits \/ Ready \/ Finish \/ WorkerFails
    <2>1. /\ UNCHANGED hubVars /\ Len(queue') = Len(queue)
      <3>1. CASE Waits
        BY <1>3, <3>1 DEF Waits
      <3> QED
        BY <1>5, <3>1 DEF BeginObservation, Ready, Finish, WorkerFails
    <2>2. Free("worker")
      BY <1>5 DEF BeginObservation, Waits, Ready, Finish, WorkerFails, MonitorInv, FreeInv
    <2>3. worker.pc \notin AfterClear
      BY <1>5 DEF BeginObservation, Waits, Ready, Finish, WorkerFails, AfterClear
    <2>4. Left' = Left
      BY <1>2, <2>1 DEF Left
    <2>5. NoStageYet'
      BY <2>1, <2>3, <2>4 DEF MonitorInv, StageInv, NoStageYet, hubVars
    <2>6. worker'.pc # "expired" /\ worker'.pc \notin AfterClear
      <3>1. CASE Ready
        BY <1>2, <3>1 DEF Ready, AfterClear, Workers
      <3>2. CASE ~Ready
        BY <1>5, <3>2 DEF BeginObservation, Waits, Finish, WorkerFails, AfterClear, Resting
      <3> QED
        BY <3>1, <3>2
    <2>7. StagesReached'
      <3>1. Reached(worker'.pc) = 3
        BY <2>6 DEF Reached, AfterClear
      <3>2. \A t \in Subscribers, r \in 1..MaxMessages : stage[t][r] <= 3
        BY <1>3, StageNumbers
      <3> QED
        BY <2>1, <3>1, <3>2 DEF StagesReached, hubVars
    <2> QED
      BY <1>1, <1>2, <2>1, <2>2, <2>5, <2>7, WorkerSilent
  <1>6. CASE Expires \/ Released
    <2>1. /\ UNCHANGED hubVars /\ Free("worker") /\ queue' = Tail(queue)
          /\ worker.pc \in {"observing", "released"}
      BY <1>6 DEF Expires, Released, MonitorInv, FreeInv
    <2>2. queue # <<>> /\ worker.id = Left + 1
      BY <2>1 DEF MonitorInv, PathInv, IdsInv
    <2>3. Len(queue') = Len(queue) - 1
      BY <1>3, <2>1, <2>2, HeadTailProperties
    <2>4. Left' = Left + 1 /\ Left \in Nat
      BY <1>2, <1>3, <2>3 DEF Left
    <2>5. NoStageYet'
      <3>1. \A r \in 1..MaxMessages : r > Left' + 1 \/ r = Left' + 1 => r > Left + 1
        BY <2>4
      <3> QED
        BY <2>1, <3>1 DEF MonitorInv, StageInv, NoStageYet, hubVars
    <2>6. \/ worker.pc = "observing" /\ worker'.pc = "expired" /\ worker'.id = worker.id
          \/ worker'.pc = "ending"
      BY <1>2, <1>6 DEF Expires, Released, Workers
    <2>7. StagesReached'
      <3>1. CASE worker'.pc = "ending"
        <4>1. Reached(worker'.pc) = 3
          BY <3>1 DEF Reached
        <4>2. \A t \in Subscribers, r \in 1..MaxMessages : stage[t][r] <= 3
          BY <1>3, StageNumbers
        <4> QED
          BY <2>1, <4>1, <4>2 DEF StagesReached, hubVars
      <3>2. CASE worker.pc = "observing" /\ worker'.pc = "expired" /\ worker'.id = worker.id
        <4>1. Reached(worker'.pc) = 0
          BY <3>2 DEF Reached
        <4>2. \A t \in Subscribers : stage[t][worker.id] = 0
          BY <3>2, StagesSoFar
        <4> QED
          BY <2>1, <3>2, <4>1, <4>2 DEF StagesReached, hubVars
      <3> QED
        BY <2>6, <3>1, <3>2
    <2> QED
      BY <1>1, <1>2, <2>1, <2>5, <2>7, WorkerSilent
  <1>7. CASE TimedOut \/ ChannelClear \/ Dispatched \/ Completed \/ Failed
    <2>1. PICK e \in Stages, l \in Nat : Publish("worker", e, worker.id, l)
                /\ \/ worker.pc = "expired" /\ e = "tx.timeout" /\ worker'.pc = "ending"
                   \/ worker.pc = "ready" /\ e = "tx.channel_clear" /\ worker'.pc = "lifecycle"
                   \/ worker.pc = "lifecycle" /\ e = "tx.dispatched" /\ worker'.pc = "dispatched"
                   \/ worker.pc \in {"lifecycle", "dispatched"}
                      /\ e \in {"tx.complete", "tx.failed"} /\ worker'.pc = "released"
      <3>1. Current \in Nat /\ worker.record \in Nat
        BY <1>2 DEF Current, NoRequest, Workers, MonitorInv, PathInv, PathTypes
      <3>2. CASE TimedOut
        BY <1>2, <3>1, <3>2 DEF TimedOut, Workers, Stages
      <3>3. CASE ChannelClear
        BY <1>2, <3>1, <3>3 DEF ChannelClear, Workers, Stages
      <3>4. CASE Dispatched
        BY <1>2, <3>1, <3>4 DEF Dispatched, Workers, Stages
      <3>5. CASE Completed
        BY <1>2, <3>1, <3>5 DEF Completed, Workers, Stages
      <3>6. CASE Failed
        BY <1>2, <3>1, <3>6 DEF Failed, Workers, Stages
      <3> QED
        BY <1>7, <3>2, <3>3, <3>4, <3>5, <3>6
    <2>2. /\ Free("worker") /\ UNCHANGED queue
      BY <1>7 DEF TimedOut, ChannelClear, Dispatched, Completed, Failed, MonitorInv, FreeInv
    <2>3. worker'.id = worker.id
      BY <1>2, <1>7 DEF TimedOut, ChannelClear, Dispatched, Completed, Failed, Workers
    <2>4. StageRank(e) = Reached(worker'.pc) /\ e \in Events
      BY <2>1 DEF StageRank, Reached, Events
    <2>5. /\ worker.pc \notin {"loop", "failed"}
          /\ worker'.pc \in AfterClear \cup {"ending"}
          /\ worker'.pc \notin AfterClear => worker.pc \notin AfterClear
      BY <2>1 DEF AfterClear
    <2>6. ASSUME NEW t \in Subscribers PROVE stage[t][worker.id] < Reached(worker'.pc)
      BY <2>1, <2>5, StagesSoFar DEF Reached
    <2> QED
      BY <1>1, <1>2, <2>1, <2>2, <2>3, <2>4, <2>5, <2>6, WorkerSpeaks
  <1> QED
    BY <1>4, <1>5, <1>6, <1>7 DEF Worker

\* A queue that takes a stage has not had it before; a full one changes nothing.
LEMMA PutStages ==
    ASSUME MonitorInv, NEW p \in Publishers, NEW u \in Subscribers, Put(p, u)
    PROVE  FreeInv' /\ StageInv'
  <1>1. pub \in [Publishers -> Publications \cup {Nothing}]
    BY DEF MonitorInv, HubInv, HubTypes
  <1>2. /\ p \in InFlight /\ pub[p] \in Publications /\ u \in pub[p].targets
        /\ pub[p].targets \in SUBSET Subscribers /\ UNCHANGED pathVars
    BY <1>1 DEF Put, InFlight, Publications
  <1>3. PICK record \in Publications :
            /\ pub' = [pub EXCEPT ![p] = record]
            /\ record.payload = pub[p].payload /\ record.targets = pub[p].targets \ {u}
    <2>1. CASE Accepts(p, u)
      <3> DEFINE sent == [pub[p] EXCEPT !.targets = pub[p].targets \ {u}]
      <3>1. /\ sent \in Publications /\ sent.payload = pub[p].payload
            /\ sent.targets = pub[p].targets \ {u}
        BY <1>2 DEF Publications
      <3>2. pub' = [pub EXCEPT ![p] = sent]
        BY <1>1, <2>1 DEF Accepts
      <3> HIDE DEF sent
      <3> QED
        BY <3>1, <3>2
    <2>2. CASE pub' = [pub EXCEPT ![p].targets = @ \ {u}, ![p].drops = @ + 1]
      <3> DEFINE lost == [pub[p] EXCEPT !.targets = pub[p].targets \ {u},
                                        !.drops = pub[p].drops + 1]
      <3>1. pub[p].targets \ {u} \in SUBSET Subscribers /\ pub[p].drops + 1 \in Nat
        BY <1>2 DEF Publications
      <3>2. /\ lost \in Publications /\ lost.payload = pub[p].payload
            /\ lost.targets = pub[p].targets \ {u}
        BY <1>2, <3>1, PublicationGoesOn DEF Publications
      <3>3. pub' = [pub EXCEPT ![p] = lost]
        BY <1>1, <2>2
      <3> HIDE DEF lost
      <3> QED
        BY <3>2, <3>3
    <2> QED
      BY <2>1, <2>2 DEF Put
  <1>4. record # Nothing
    BY DEF Nothing, Publications
  <1>5. pub'[p] = record /\ \A q \in Publishers : q # p => pub'[q] = pub[q]
    BY <1>1, <1>3
  <1>6. InFlight' = InFlight /\ \A q \in InFlight : /\ pub'[q].payload = pub[q].payload
                                                   /\ pub'[q].targets \subseteq pub[q].targets
    BY <1>2, <1>3, <1>4, <1>5 DEF InFlight
  <1>7. FreeInv'
    BY <1>2, <1>4, <1>5, <1>6 DEF MonitorInv, FreeInv, Free, InFlight, pathVars, Publishers
  <1>8. Left' = Left /\ UNCHANGED worker
    BY <1>2 DEF pathVars, Left
  <1>9. CASE UNCHANGED stage
    BY <1>6, <1>7, <1>8, <1>9 DEF MonitorInv, StageInv, NoStageYet, StagesReached, InFlightStages,
                           Announced
  <1>10. CASE /\ pub[p].payload.event \in Stages
              /\ stage' = [stage EXCEPT ![u][pub[p].payload.about] =
                              StageRank(pub[p].payload.event)]
    <2>1. Announced(p)
      BY <1>2, <1>10 DEF MonitorInv, StageInv, InFlightStages
    <2>2. /\ p = "worker" /\ worker.pc \in AfterClear \cup {"ending"}
          /\ pub[p].payload.about = worker.id
          /\ StageRank(pub[p].payload.event) = Reached(worker.pc)
          /\ \A t \in pub[p].targets : stage[t][worker.id] < Reached(worker.pc)
      BY <2>1 DEF Announced
    <2>3. worker.id \in 1..MaxMessages /\ worker.id \in Nat
      BY <2>2, IdsBounded, MonitorConstants DEF AfterClear, MonitorInv
    <2>4. stage \in [Subscribers -> [1..MaxMessages -> 0..3]] /\ Reached(worker.pc) \in 0..3
      BY StageNumbers DEF MonitorInv, StageInv
    <2>5. /\ stage' \in [Subscribers -> [1..MaxMessages -> 0..3]]
          /\ stage'[u][worker.id] = Reached(worker.pc)
          /\ \A t \in Subscribers, r \in 1..MaxMessages :
                t # u \/ r # worker.id => stage'[t][r] = stage[t][r]
      BY <1>10, <2>2, <2>3, <2>4
    <2>6. NoStageYet'
      <3>1. worker.id <= Left + 1 /\ (worker.pc \notin AfterClear => worker.id < Left + 1)
        BY <2>2, IdsBounded DEF MonitorInv, PathInv, IdsInv, AfterClear
      <3>2. ASSUME NEW t \in Subscribers, NEW r \in 1..MaxMessages,
                   r > Left + 1 \/ (r = Left + 1 /\ worker.pc \notin AfterClear)
            PROVE  stage'[t][r] = 0
        <4>1. r # worker.id
          BY <2>3, <3>1, <3>2, IdsBounded DEF MonitorInv
        <4> QED
          BY <2>5, <3>2, <4>1 DEF MonitorInv, StageInv, NoStageYet
      <3> QED
        BY <1>8, <3>2 DEF NoStageYet
    <2>7. StagesReached'
      <3> SUFFICES ASSUME NEW t \in Subscribers
                   PROVE  stage'[t][worker.id] <= Reached(worker.pc)
        BY <1>8 DEF StagesReached
      <3>1. CASE t = u
        BY <2>4, <2>5, <3>1
      <3>2. CASE t # u
        BY <2>3, <2>5, <3>2 DEF MonitorInv, StageInv, StagesReached
      <3> QED
        BY <3>1, <3>2
    <2>8. Announced(p)'
      <3>1. pub'[p].payload = pub[p].payload /\ u \notin pub'[p].targets
            /\ pub'[p].targets \subseteq pub[p].targets
        BY <1>3, <1>5
      <3>2. \A t \in pub'[p].targets : stage'[t][worker.id] = stage[t][worker.id]
        BY <1>2, <2>3, <2>5, <3>1
      <3> QED
        BY <1>8, <2>2, <3>1, <3>2 DEF Announced
    <2>9. InFlightStages'
      <3>1. \A q \in InFlight : pub[q].payload.event \in Stages => q = p
        BY <2>2 DEF MonitorInv, StageInv, InFlightStages, Announced
      <3> QED
        BY <1>6, <2>8, <3>1 DEF InFlightStages
    <2> QED
      BY <1>7, <2>5, <2>6, <2>7, <2>9 DEF StageInv
  <1> QED
    BY <1>7, <1>9, <1>10 DEF Put, Accepts

LEMMA PublicationStages ==
    ASSUME MonitorInv, NEW p \in Publishers, Publication(p)
    PROVE  HubInv' /\ FreeInv' /\ StageInv' /\ PathInv'
  <1>1. UNCHANGED pathVars
    BY DEF Publication, Account, Put
  <1>2. PathInv'
    BY <1>1 DEF pathVars, MonitorInv, PathInv, PathTypes, IdsInv, MessagesInv, TrackerInv,
                Left, Entering, Tracking
  <1>3. CASE Account(p)
    <2>1. HubInv'
      BY <1>3, HubAccount DEF MonitorInv
    <2>2. /\ pub \in [Publishers -> Publications \cup {Nothing}]
          /\ pub' = [pub EXCEPT ![p] = Nothing] /\ UNCHANGED stage
      BY <1>3 DEF Account, MonitorInv, HubInv, HubTypes
    <2>3. InFlight' = InFlight \ {p} /\ \A q \in InFlight' : pub'[q] = pub[q]
      BY <2>2 DEF InFlight
    <2>4. \A q \in Publishers : Free(q) => Free(q)'
      BY <2>2 DEF Free
    <2>5. FreeInv'
      BY <1>1, <2>4 DEF pathVars, MonitorInv, FreeInv, Publishers
    <2>6. StageInv'
      BY <1>1, <2>2, <2>3 DEF pathVars, MonitorInv, StageInv, NoStageYet, StagesReached,
                              InFlightStages, Announced, Left
    <2> QED
      BY <1>2, <2>1, <2>5, <2>6
  <1>4. ASSUME NEW t \in Subscribers, Put(p, t)
        PROVE  HubInv' /\ FreeInv' /\ StageInv' /\ PathInv'
    BY <1>2, <1>4, HubPut, PutStages DEF MonitorInv
  <1> QED
    BY <1>3, <1>4 DEF Publication

LEMMA ClientStages ==
    ASSUME MonitorInv, NEW t \in Subscribers, Subscribe(t) \/ Deliver(t)
    PROVE  HubInv' /\ FreeInv' /\ StageInv' /\ PathInv'
  <1>1. UNCHANGED <<pathVars, pub, stage>>
    BY DEF Subscribe, Deliver
  <1>2. PathInv'
    BY <1>1 DEF pathVars, MonitorInv, PathInv, PathTypes, IdsInv, MessagesInv, TrackerInv,
                Left, Entering, Tracking
  <1>3. FreeInv' /\ StageInv'
    BY <1>1 DEF pathVars, MonitorInv, FreeInv, Free, StageInv, NoStageYet, StagesReached,
                InFlightStages, InFlight, Announced, Left
  <1> QED
    BY <1>2, <1>3, HubClients DEF MonitorInv

LEMMA MonitorInitial == Init => MonitorInv
  <1> SUFFICES ASSUME Init PROVE MonitorInv
    OBVIOUS
  <1>1. PathTypes
    <2>1. worker \in [pc : WorkerStates, id : Nat, record : Nat, failing : BOOLEAN]
      BY Rests DEF Init, WorkerStates, Workers
    <2>2. conn \in [Connections -> [pc : ConnectionStates, id : Nat]]
      BY DEF Init, ConnectionStates, NoRequest
    <2>3. tracker \in [pending : Seq(Nat \ {0}), current : Nat]
      BY DEF Init, NoRequest
    <2>4. bounds \in [messages : 0..MaxMessages, frames : 0..MaxFrames]
      BY MonitorConstants DEF Init
    <2>5. queue \in Seq([id : Nat \ {0}, seen : BOOLEAN]) /\ Len(queue) <= QueueCapacity
      BY MonitorConstants DEF Init
    <2> QED
      BY <2>1, <2>2, <2>3, <2>4, <2>5 DEF Init, PathTypes
  <1>2. worker.pc = "loop"
    BY DEF Init, Resting
  <1>3. queue = <<>> /\ admitted = 0 /\ Len(queue) = 0 /\ Left = 0
    <2>1. queue = <<>>
      BY DEF Init
    <2>2. admitted = 0
      BY DEF Init
    <2>3. Len(queue) = 0
      BY <2>1
    <2>4. Left = 0
      BY <2>2, <2>3 DEF Left
    <2> QED
      BY <2>1, <2>2, <2>3, <2>4
  <1>4. IdsInv
    BY <1>2, <1>3 DEF IdsInv
  <1>5. MessagesInv
    <2>1. Entering = {}
      BY DEF Init, Entering
    <2> QED
      BY <2>1, FS_EmptySet DEF Init, MessagesInv
  <1>6. TrackerInv
    <2>1. Tracking = {} /\ tracker.pending = <<>>
      BY DEF Init, Tracking
    <2> QED
      BY <2>1 DEF TrackerInv, IsInjective
  <1>7. InFlight = {}
    BY DEF Init, InFlight
  <1>8. HubTypes
    <2>1. feed \in [Subscribers -> 0..FeedCapacity]
      BY MonitorConstants DEF Init
    <2> QED
      BY <2>1 DEF Init, HubTypes
  <1>9. HubAccounts
    <2>1. ToBePut = {} /\ DropsInFlight = {}
      BY <1>7 DEF ToBePut, DropsInFlight
    <2>2. InQueues = {}
      BY DEF Init, InQueues
    <2> QED
      BY <1>7, <2>1, <2>2, FS_EmptySet DEF Init, HubAccounts
  <1>10. StageInv
    <2>1. stage \in [Subscribers -> [1..MaxMessages -> 0..3]]
          /\ \A t \in Subscribers, r \in 1..MaxMessages : stage[t][r] = 0
      BY DEF Init
    <2>2. NoStageYet
      BY <2>1 DEF NoStageYet
    <2>3. StagesReached
      BY <2>1, StageNumbers DEF StagesReached
    <2>4. InFlightStages
      BY <1>7 DEF InFlightStages
    <2> QED
      BY <2>1, <2>2, <2>3, <2>4 DEF StageInv
  <1>11. FreeInv
    BY <1>2 DEF Init, FreeInv
  <1>12. DropsInv
    BY <1>7 DEF DropsInv
  <1> QED
    BY <1>1, <1>4, <1>5, <1>6, <1>8, <1>9, <1>10, <1>11, <1>12
       DEF MonitorInv, PathInv, HubInv

LEMMA MonitorNext == MonitorInv /\ [Next]_vars => MonitorInv'
  <1> SUFFICES ASSUME MonitorInv, [Next]_vars PROVE MonitorInv'
    OBVIOUS
  <1>1. ASSUME NEW c \in Connections, Handler(c) PROVE MonitorInv'
    BY <1>1, HandlerStages DEF MonitorInv
  <1>2. CASE Worker
    BY <1>2, WorkerStages DEF MonitorInv
  <1>3. ASSUME NEW p \in Publishers, Publication(p) PROVE MonitorInv'
    BY <1>3, PublicationStages DEF MonitorInv
  <1>4. ASSUME NEW t \in Subscribers, Subscribe(t) \/ Deliver(t) PROVE MonitorInv'
    BY <1>4, ClientStages DEF MonitorInv
  <1>5. CASE UNCHANGED vars
    <2>1. UNCHANGED <<hub, pub, session, feed, due, stage>> /\ UNCHANGED pathVars
      BY <1>5 DEF vars, hubVars
    <2>2. HubInv'
      BY <2>1, HubSame DEF MonitorInv
    <2>3. PathInv'
      BY <2>1 DEF pathVars, MonitorInv, PathInv, PathTypes, IdsInv, MessagesInv, TrackerInv,
                  Left, Entering, Tracking
    <2>4. FreeInv' /\ StageInv'
      BY <2>1 DEF pathVars, MonitorInv, FreeInv, Free, StageInv, NoStageYet, StagesReached,
                  InFlightStages, InFlight, Announced, Left
    <2> QED
      BY <2>2, <2>3, <2>4 DEF MonitorInv
  <1> QED
    BY <1>1, <1>2, <1>3, <1>4, <1>5 DEF Next

\* The invariant of the monitor stream: the hub's counts, the ids of the
\* requests, and how far each request's stages have come.
THEOREM MonitorInvariant == Spec => []MonitorInv
  <1>1. Init => MonitorInv
    BY MonitorInitial
  <1>2. MonitorInv /\ [Next]_vars => MonitorInv'
    BY MonitorNext
  <1> QED
    BY <1>1, <1>2, PTL DEF Spec

\* The types of the path, the tracker and the hub; the tracker never holds an
\* id twice although requests are added outside the queue's lock.
THEOREM MonitorTypeCorrect == Spec => []TypeOK
  <1>1. MonitorInv => TypeOK
    BY DEF MonitorInv, PathInv, PathTypes, TrackerInv, HubInv, HubTypes, StageInv, TypeOK
  <1> QED
    BY <1>1, MonitorInvariant, PTL

\* HubAccounts: the counters MonitorEventHub.publish writes after the payloads
\* were put never lose an update, whatever the threads interleave.
THEOREM HubAlwaysAccounts == Spec => []HubAccounts
  <1>1. MonitorInv => HubAccounts
    BY DEF MonitorInv, HubInv
  <1> QED
    BY <1>1, MonitorInvariant, PTL

\* StagesInOrder: the stages of one request reach a subscriber's queue in
\* order, none twice and none after its end.
THEOREM StagesAlwaysInOrder == Spec => []StagesInOrder
  <1>1. MonitorInv => StagesInOrder
    BY OrderFromInv
  <1> QED
    BY <1>1, MonitorInvariant, PTL

-----------------------------------------------------------------------------
(***************************************************************************)
(* Observers: the lines on their way                                       *)
(***************************************************************************)

\* Event f is later than e: of a later life of the daemon, or of the same
\* life with a higher number.
Before(e, f) == e.run < f.run \/ (e.run = f.run /\ e.seq < f.seq)

\* The daemon has numbered it by now.
Numbered(e, d) == e.run < d.run \/ (e.run = d.run /\ e.seq <= d.seq)

Lines == LineEvents \cup {Fragment}
Daemons == [up : BOOLEAN, run : 1..MaxRuns, seq : 0..MaxSeq]
Links == [pipe : Seq(Lines), open : BOOLEAN]

\* A connection delivers events of one life of the daemon, in order; while the
\* daemon holds it open, of the present one and no fragment.
LinkOK(l, d) ==
    /\ l \in Links
    /\ Len(l.pipe) <= PipeCapacity
    /\ \A i \in 1..Len(l.pipe) : Numbered(l.pipe[i], d)
    /\ \A i, j \in 1..Len(l.pipe) :
          i < j /\ l.pipe[i] # Fragment /\ l.pipe[j] # Fragment
              => l.pipe[i].run = l.pipe[j].run /\ l.pipe[i].seq < l.pipe[j].seq
    /\ l.open =>
          /\ d.up
          /\ \A i \in 1..Len(l.pipe) : l.pipe[i] # Fragment /\ l.pipe[i].run = d.run

\* Event e is numbered, and whatever the connection still delivers is later.
Passed(e, l, d) ==
    /\ Numbered(e, d)
    /\ \A i \in 1..Len(l.pipe) : l.pipe[i] # Fragment => Before(e, l.pipe[i])

\* Event e came over this connection.
CameOver(e, l, d) ==
    /\ \A i \in 1..Len(l.pipe) :
          l.pipe[i] # Fragment => e.run = l.pipe[i].run /\ e.seq < l.pipe[i].seq
    /\ l.open => e.run = d.run /\ e.seq <= d.seq

\* A step of the path between the daemon and an observer.
PathStep(l, d, k, c) ==
    /\ LinkOK(k, c)
    /\ \A e \in LineEvents : Passed(e, l, d) => Passed(e, k, c)
    /\ \A e \in LineEvents : CameOver(e, l, d) => CameOver(e, k, c)

LinesInv ==
    /\ daemon \in Daemons
    /\ link \in [ObserverNames -> Links]
    /\ \A o \in ObserverNames : LinkOK(link[o], daemon)
    /\ mishaps \in [faults : 0..MaxFaults, cuts : 0..MaxCuts]

\* The logger has taken events of ever later number, none that is still to come.
TakenInv(l, d) ==
    /\ \A m \in 1..Len(taken) : Passed(taken[m], l, d)
    /\ \A m, n \in 1..Len(taken) : m < n => Before(taken[m], taken[n])

\* The JSON file has taken events in order, each with its readable line.
FilesInv ==
    /\ \A i \in 1..Len(files.json) :
          /\ \E m \in 1..Len(taken) : files.json[i].event = taken[m]
          /\ files.json[i].event \in LinesOf(files.human)
    /\ \A i, j \in 1..Len(files.json) :
          i < j => Before(files.json[i].event, files.json[j].event)

\* The event in hand is the last one taken, and not in the JSON file yet.
HandInv ==
    /\ logger.pc \in {"human", "json"} =>
          /\ logger.event \in LineEvents
          /\ Len(taken) > 0 /\ logger.event = taken[Len(taken)]
          /\ \A i \in 1..Len(files.json) : Before(files.json[i].event, logger.event)
    /\ logger.pc = "json" => logger.event \in LinesOf(files.human)

\* The next line appended to it begins a line.
EndsWhole(f) == Len(f) = 0 \/ f[Len(f)].form = "whole"

\* What an unfinished last line of the file will have cost when the next line
\* is appended to it: its own event, if that was listed so far, and the next.
Debt(f) ==
    IF EndsWhole(f) THEN 0
    ELSE IF Listed(f, Len(f)) THEN 2 ELSE 1

CountInv ==
    Len(taken) + Debt(files.json)
        <= Cardinality(HistoryLines) + InHand + 2 * mishaps.faults

LoggerTypes ==
    /\ logger \in [pc : LoggerStates, event : Lines]
    /\ files \in [human : Seq(Entries), json : Seq(Entries)]
    /\ taken \in Seq(LineEvents)

LoggerInv == /\ LoggerTypes /\ TakenInv(link["logger"], daemon)
             /\ FilesInv /\ HandInv /\ CountInv

WebTypes ==
    /\ reader \in [pc : ReaderStates, socket : BOOLEAN,
                   targets : SUBSET Browsers, record : Records \cup {NoRecord}]
    /\ reader.pc = "fanout" => reader.record \in Records
    /\ stop \in BOOLEAN
    /\ live \in [generation : Nat, recent : Seq(Records), badJson : Nat,
                 status : {"connecting", "connected", "reconnecting"}]
    /\ Len(live.recent) <= RecentCapacity
    /\ browser \in [Browsers -> [pc : {"off", "open", "writing", "gone"},
                                 queue : Seq(Records)]]
    /\ \A b \in Browsers : Len(browser[b].queue) <= SseCapacity

\* The recent events rise in generation and, within one, in number.
RecentInv ==
    /\ \A i \in 1..Len(live.recent) : live.recent[i].generation <= live.generation
    /\ \A i, j \in 1..Len(live.recent) : i < j =>
          \/ live.recent[i].generation < live.recent[j].generation
          \/ /\ live.recent[i].generation = live.recent[j].generation
             /\ live.recent[i].event.seq < live.recent[j].event.seq

\* Those of the present generation came over the present connection.
CurrentInv(l, d) ==
    reader.pc \in {"reading", "fanout"} =>
        \A i \in 1..Len(live.recent) :
            live.recent[i].generation = live.generation
                => CameOver(live.recent[i].event, l, d)

WebInv == WebTypes /\ RecentInv /\ CurrentInv(link["web"], daemon)

ObserversInv == LinesInv /\ LoggerInv /\ WebInv

LEMMA ObserverConstants ==
    /\ PipeCapacity \in Nat /\ PipeCapacity > 0
    /\ SseCapacity \in Nat /\ SseCapacity > 0
    /\ RecentCapacity \in Nat /\ RecentCapacity > 0
    /\ MaxRuns \in Nat /\ MaxRuns > 0
    /\ MaxSeq \in Nat /\ MaxFaults \in Nat /\ MaxCuts \in Nat
  BY ObserversAssumption

LEMMA FragmentApart ==
    /\ Fragment \notin LineEvents /\ Fragment \in Lines
    /\ Fragment.run = 0 /\ Fragment.seq = 0
    /\ \A e \in Lines : e.run \in Nat /\ e.seq \in Nat
    /\ \A e \in Lines : e # Fragment => e \in LineEvents
    /\ \A d \in Daemons : d.run \in Nat /\ d.run > 0 /\ d.seq \in Nat
                             /\ Numbered(Fragment, d)
  BY ObserverConstants DEF Fragment, LineEvents, Lines, Daemons, Numbered

\* What a connection holds.
LEMMA OnLink ==
    ASSUME NEW d, NEW l, LinkOK(l, d)
    PROVE  /\ l.pipe \in Seq(Lines) /\ Len(l.pipe) \in Nat /\ l.open \in BOOLEAN
           /\ \A i \in 1..Len(l.pipe) : l.pipe[i] \in Lines
  BY LenProperties, ElementOfSeq DEF LinkOK, Links

LEMMA LinkStays ==
    ASSUME NEW d, NEW l, LinkOK(l, d)
    PROVE  PathStep(l, d, l, d)
  BY DEF PathStep

\* A fresh connection, and none.
LEMMA LinkFresh ==
    ASSUME NEW d \in Daemons, NEW b \in BOOLEAN, b => d.up
    PROVE  /\ LinkOK([pipe |-> <<>>, open |-> b], d)
           /\ \A e \in LineEvents : Numbered(e, d)
                 => Passed(e, [pipe |-> <<>>, open |-> b], d)
  <1>1. <<>> \in Seq(Lines) /\ Len(<<>>) = 0
    BY EmptySeq
  <1>2. [pipe |-> <<>>, open |-> b] \in Links
    BY <1>1 DEF Links
  <1> QED
    BY <1>1, <1>2, ObserverConstants DEF LinkOK, Passed

LEMMA LinkGone ==
    ASSUME NEW d \in Daemons, NEW l, LinkOK(l, d)
    PROVE  PathStep(l, d, NoLink, d)
  <1>1. LinkOK(NoLink, d)
    BY LinkFresh DEF NoLink
  <1>2. Len(NoLink.pipe) = 0 /\ ~NoLink.open
    BY EmptySeq DEF NoLink
  <1> QED
    BY <1>1, <1>2 DEF PathStep, Passed, CameOver

\* The observer takes the first line.
LEMMA LinkRead ==
    ASSUME NEW d \in Daemons, NEW l, LinkOK(l, d), l.pipe # <<>>
    PROVE  /\ PathStep(l, d, [l EXCEPT !.pipe = Tail(@)], d)
           /\ Head(l.pipe) \in Lines /\ Head(l.pipe) = l.pipe[1]
           /\ Head(l.pipe) # Fragment =>
                 /\ Head(l.pipe) \in LineEvents
                 /\ Passed(Head(l.pipe), [l EXCEPT !.pipe = Tail(@)], d)
                 /\ CameOver(Head(l.pipe), [l EXCEPT !.pipe = Tail(@)], d)
  <1> DEFINE k == [l EXCEPT !.pipe = Tail(@)]
  <1>1. /\ l.pipe \in Seq(Lines) /\ Len(l.pipe) \in Nat /\ l.open \in BOOLEAN
        /\ \A i \in 1..Len(l.pipe) : l.pipe[i] \in Lines
    BY OnLink
  <1>2. /\ Tail(l.pipe) \in Seq(Lines) /\ Len(Tail(l.pipe)) = Len(l.pipe) - 1
        /\ \A i \in 1..Len(l.pipe) - 1 : Tail(l.pipe)[i] = l.pipe[i + 1]
        /\ Len(l.pipe) > 0
    BY <1>1, HeadTailProperties, EmptySeq
  <1>3. Head(l.pipe) = l.pipe[1] /\ l.pipe[1] \in Lines
    BY <1>1, <1>2
  <1>4. k \in Links /\ k.pipe = Tail(l.pipe) /\ k.open = l.open
    BY <1>1, <1>2 DEF LinkOK, Links
  <1> HIDE DEF k
  <1>5. /\ Len(k.pipe) = Len(l.pipe) - 1
        /\ \A i \in 1..Len(k.pipe) : i + 1 \in 1..Len(l.pipe) /\ k.pipe[i] = l.pipe[i + 1]
        /\ 1 \in 1..Len(l.pipe)
    BY <1>1, <1>2, <1>4
  <1>6. LinkOK(k, d)
    <2>1. Len(k.pipe) <= PipeCapacity
      BY <1>1, <1>5, ObserverConstants DEF LinkOK
    <2>2. \A i, j \in 1..Len(k.pipe) : i < j => i + 1 < j + 1
      OBVIOUS
    <2> QED
      BY <1>4, <1>5, <2>1, <2>2 DEF LinkOK
  <1>7. PathStep(l, d, k, d)
    BY <1>4, <1>5, <1>6 DEF PathStep, Passed, CameOver
  <1>8. ASSUME l.pipe[1] # Fragment
        PROVE  /\ l.pipe[1] \in LineEvents
               /\ Passed(l.pipe[1], k, d) /\ CameOver(l.pipe[1], k, d)
    <2>1. l.pipe[1] \in LineEvents
      BY <1>3, <1>8, FragmentApart
    <2>2. Numbered(l.pipe[1], d)
      BY <1>5 DEF LinkOK
    <2>3. \A i \in 1..Len(k.pipe) : k.pipe[i] # Fragment
             => l.pipe[1].run = k.pipe[i].run /\ l.pipe[1].seq < k.pipe[i].seq
      <3>1. \A i \in 1..Len(k.pipe) : 1 < i + 1
        OBVIOUS
      <3> QED
        BY <1>5, <1>8, <3>1 DEF LinkOK
    <2>4. k.open => l.pipe[1].run = d.run
      BY <1>4, <1>5 DEF LinkOK
    <2>5. k.open => l.pipe[1].seq <= d.seq
      BY <2>2, <2>4, <1>3, FragmentApart DEF Numbered
    <2> QED
      BY <2>1, <2>2, <2>3, <2>4, <2>5 DEF Passed, CameOver, Before
  <1> QED
    BY <1>3, <1>7, <1>8 DEF k

\* The hub publishes: the connection gets the event if it has room.
LEMMA LinkPublished ==
    ASSUME NEW d \in Daemons, d.up, d.seq < MaxSeq, NEW l, LinkOK(l, d),
           NEW c, c = [d EXCEPT !.seq = @ + 1],
           NEW k, \/ k = l
                  \/ /\ l.open /\ Len(l.pipe) < PipeCapacity
                     /\ k = [l EXCEPT !.pipe =
                               Append(@, [run |-> d.run, seq |-> d.seq + 1])]
    PROVE  PathStep(l, d, k, c)
  <1> DEFINE event == [run |-> d.run, seq |-> d.seq + 1]
  <1>1. /\ l.pipe \in Seq(Lines) /\ Len(l.pipe) \in Nat /\ l.open \in BOOLEAN
        /\ \A i \in 1..Len(l.pipe) : l.pipe[i] \in Lines
    BY OnLink
  <1>2. /\ d.run \in 1..MaxRuns /\ d.seq \in Nat /\ d.seq + 1 \in 1..MaxSeq
        /\ c.run = d.run /\ c.seq = d.seq + 1 /\ c.up
    BY ObserverConstants DEF Daemons
  <1>3. event \in LineEvents /\ event.run = d.run /\ event.seq = d.seq + 1
    BY <1>2 DEF LineEvents
  <1>4. event \in Lines /\ event # Fragment
    BY <1>3, FragmentApart DEF Lines
  <1> HIDE DEF event
  <1>5. \A e \in Lines : Numbered(e, d) => Numbered(e, c)
    BY <1>2, FragmentApart DEF Numbered
  <1>6. \A e \in Lines : Numbered(e, d) => Before(e, event)
    BY <1>2, <1>3, FragmentApart DEF Numbered, Before
  <1>7. CASE k = l
    <2>1. LinkOK(l, c)
      BY <1>1, <1>2, <1>5 DEF LinkOK
    <2>2. \A e \in LineEvents : Passed(e, l, d) => Passed(e, l, c)
      BY <1>5 DEF Passed, Lines
    <2>3. \A e \in LineEvents : CameOver(e, l, d) => CameOver(e, l, c)
      BY <1>2, FragmentApart DEF CameOver, Lines
    <2> QED
      BY <1>7, <2>1, <2>2, <2>3 DEF PathStep
  <1>8. CASE /\ l.open /\ Len(l.pipe) < PipeCapacity
             /\ k = [l EXCEPT !.pipe = Append(@, event)]
    <2>1. /\ Append(l.pipe, event) \in Seq(Lines)
          /\ Len(Append(l.pipe, event)) = Len(l.pipe) + 1
          /\ \A i \in 1..Len(l.pipe) : Append(l.pipe, event)[i] = l.pipe[i]
          /\ Append(l.pipe, event)[Len(l.pipe) + 1] = event
      BY <1>1, <1>4, AppendProperties
    <2>2. k \in Links /\ k.pipe = Append(l.pipe, event) /\ k.open
      BY <1>1, <1>8, <2>1 DEF LinkOK, Links
    <2>3. Len(k.pipe) = Len(l.pipe) + 1
      BY <2>1, <2>2
    <2>4. \A i \in 1..Len(k.pipe) :
             \/ i \in 1..Len(l.pipe) /\ k.pipe[i] = l.pipe[i]
             \/ i = Len(l.pipe) + 1 /\ k.pipe[i] = event
      BY <1>1, <2>1, <2>2, <2>3
    <2>5. \A i \in 1..Len(l.pipe) : /\ l.pipe[i] # Fragment /\ l.pipe[i].run = d.run
                                    /\ Numbered(l.pipe[i], d)
      BY <1>8 DEF LinkOK
    <2>6. \A i \in 1..Len(l.pipe) : l.pipe[i].run = event.run /\ l.pipe[i].seq < event.seq
      BY <1>1, <1>2, <1>3, <2>5, FragmentApart DEF Numbered
    <2>7. \A i \in 1..Len(k.pipe) : Numbered(k.pipe[i], c) /\ k.pipe[i] # Fragment
                                      /\ k.pipe[i].run = c.run
      <3>1. Numbered(event, c)
        BY <1>2, <1>3 DEF Numbered
      <3> QED
        BY <1>1, <1>2, <1>3, <1>4, <1>5, <2>4, <2>5, <3>1
    <2>8. ASSUME NEW i \in 1..Len(k.pipe), NEW j \in 1..Len(k.pipe), i < j
          PROVE  k.pipe[i].run = k.pipe[j].run /\ k.pipe[i].seq < k.pipe[j].seq
      <3>1. i \in 1..Len(l.pipe) /\ k.pipe[i] = l.pipe[i]
        BY <1>1, <2>3, <2>4, <2>8
      <3>2. CASE j \in 1..Len(l.pipe) /\ k.pipe[j] = l.pipe[j]
        BY <2>5, <2>8, <3>1, <3>2 DEF LinkOK
      <3>3. CASE k.pipe[j] = event
        BY <2>6, <3>1, <3>3
      <3> QED
        BY <2>4, <3>2, <3>3
    <2>9. LinkOK(k, c)
      <3>1. Len(k.pipe) <= PipeCapacity
        BY <1>1, <1>8, <2>3, ObserverConstants
      <3> QED
        BY <1>2, <2>2, <2>7, <2>8, <3>1 DEF LinkOK
    <2>10. \A e \in LineEvents : Passed(e, l, d) => Passed(e, k, c)
      BY <1>5, <1>6, <2>4 DEF Passed, Lines
    <2>11. \A e \in LineEvents : CameOver(e, l, d) => CameOver(e, k, c)
      <3>1. \A e \in LineEvents : CameOver(e, l, d) => e.run = d.run /\ e.seq <= d.seq
        BY <1>8 DEF CameOver
      <3>2. \A e \in LineEvents : e.seq \in Nat
        BY FragmentApart DEF Lines
      <3>3. \A e \in LineEvents : CameOver(e, l, d) =>
               e.run = c.run /\ e.seq <= c.seq /\ e.run = event.run /\ e.seq < event.seq
        BY <1>2, <1>3, <3>1, <3>2
      <3> QED
        BY <2>4, <3>3 DEF CameOver
    <2> QED
      BY <2>9, <2>10, <2>11 DEF PathStep
  <1> QED
    BY <1>7, <1>8 DEF event

\* The daemon closes a connection, perhaps inside a line.
LEMMA LinkClosed ==
    ASSUME NEW d \in Daemons, NEW l, LinkOK(l, d), NEW k \in Closed(l)
    PROVE  PathStep(l, d, k, d) /\ ~k.open
  <1>1. /\ l.pipe \in Seq(Lines) /\ Len(l.pipe) \in Nat /\ l.open \in BOOLEAN
        /\ \A i \in 1..Len(l.pipe) : l.pipe[i] \in Lines
    BY OnLink
  <1>2. CASE ~l.open
    BY <1>2, LinkStays DEF Closed
  <1>3. CASE l.open
    <2>1. k.pipe \in Cuttings(l.pipe) /\ k.open = FALSE
      BY <1>3 DEF Closed
    <2>2. ASSUME NEW n \in 0..Len(l.pipe)
          PROVE  /\ SubSeq(l.pipe, 1, n) \in Seq(Lines)
                 /\ Len(SubSeq(l.pipe, 1, n)) = n
                 /\ \A i \in 1..n : SubSeq(l.pipe, 1, n)[i] = l.pipe[i]
      <3>1. \A i \in 1..n : l.pipe[i] \in Lines
        BY <1>1
      <3>2. 1 \in Int /\ n \in Int
        OBVIOUS
      <3>3. /\ SubSeq(l.pipe, 1, n) \in Seq(Lines)
            /\ Len(SubSeq(l.pipe, 1, n)) = IF 1 <= n THEN n - 1 + 1 ELSE 0
            /\ \A i \in 1..n - 1 + 1 : SubSeq(l.pipe, 1, n)[i] = l.pipe[1 + i - 1]
        BY <3>1, <3>2, SubSeqProperties
      <3> QED
        BY <3>3
    <2>3. /\ k.pipe \in Seq(Lines) /\ Len(k.pipe) \in 0..Len(l.pipe)
          /\ \A i \in 1..Len(k.pipe) : k.pipe[i] = Fragment \/ k.pipe[i] = l.pipe[i]
      <3>1. CASE \E n \in 0..Len(l.pipe) : k.pipe = SubSeq(l.pipe, 1, n)
        BY <2>2, <3>1
      <3>2. CASE \E n \in 0..Len(l.pipe) - 1 :
                    k.pipe = Append(SubSeq(l.pipe, 1, n), Fragment)
        <4>1. PICK n \in 0..Len(l.pipe) - 1 :
                 k.pipe = Append(SubSeq(l.pipe, 1, n), Fragment)
          BY <3>2
        <4>2. n \in 0..Len(l.pipe)
          BY <1>1
        <4> DEFINE s == SubSeq(l.pipe, 1, n)
        <4>3. s \in Seq(Lines) /\ Len(s) = n /\ \A i \in 1..n : s[i] = l.pipe[i]
          BY <2>2, <4>2
        <4> HIDE DEF s
        <4>4. /\ Append(s, Fragment) \in Seq(Lines) /\ Len(Append(s, Fragment)) = Len(s) + 1
              /\ \A i \in 1..Len(s) : Append(s, Fragment)[i] = s[i]
              /\ Append(s, Fragment)[Len(s) + 1] = Fragment
          BY <4>3, FragmentApart, AppendProperties
        <4>5. k.pipe = Append(s, Fragment)
          BY <4>1 DEF s
        <4> QED
          BY <1>1, <4>3, <4>4, <4>5
      <3> QED
        BY <2>1, <3>1, <3>2 DEF Cuttings
    <2>4. k \in Links
      <3>1. k \in [pipe : Cuttings(l.pipe), open : {FALSE}]
        BY <1>3 DEF Closed
      <3>2. k = [pipe |-> k.pipe, open |-> k.open]
        BY <3>1
      <3> QED
        BY <2>1, <2>3, <3>2 DEF Links
    <2>5. \A i \in 1..Len(k.pipe) : i \in 1..Len(l.pipe)
      BY <1>1, <2>3
    <2>6. LinkOK(k, d)
      <3>1. Len(k.pipe) <= PipeCapacity
        BY <1>1, <2>3, ObserverConstants DEF LinkOK
      <3>2. \A i \in 1..Len(k.pipe) : Numbered(k.pipe[i], d)
        BY <2>3, <2>5, FragmentApart DEF LinkOK
      <3> QED
        BY <2>1, <2>3, <2>4, <2>5, <3>1, <3>2 DEF LinkOK
    <2> QED
      BY <2>1, <2>3, <2>5, <2>6 DEF PathStep, Passed, CameOver
  <1> QED
    BY <1>1, <1>2, <1>3

\* A connection the daemon has closed does not notice what it does next.
LEMMA LinkOutlives ==
    ASSUME NEW d \in Daemons, NEW c \in Daemons, NEW l, LinkOK(l, d), ~l.open,
           \/ c.run = d.run /\ c.seq = d.seq
           \/ c.run > d.run
    PROVE  PathStep(l, d, l, c)
  <1>1. /\ l.pipe \in Seq(Lines) /\ Len(l.pipe) \in Nat /\ l.open \in BOOLEAN
        /\ \A i \in 1..Len(l.pipe) : l.pipe[i] \in Lines
    BY OnLink
  <1>2. \A e \in Lines : Numbered(e, d) => Numbered(e, c)
    BY FragmentApart DEF Numbered
  <1>3. LinkOK(l, c)
    BY <1>1, <1>2 DEF LinkOK
  <1> QED
    BY <1>2, <1>3 DEF PathStep, Passed, CameOver, Lines

\* Two steps of the path make one.
LEMMA PathSteps ==
    ASSUME NEW l, NEW d, NEW k, NEW c, NEW m, NEW b,
           PathStep(l, d, k, c), PathStep(k, c, m, b)
    PROVE  PathStep(l, d, m, b)
  BY DEF PathStep

\* What a step of the path leaves true of an observer that does nothing.
LEMMA LoggerKept ==
    ASSUME LoggerInv, UNCHANGED logVars, mishaps'.faults = mishaps.faults,
           PathStep(link["logger"], daemon, link'["logger"], daemon')
    PROVE  LoggerInv'
  <1>1. /\ LoggerTypes' /\ FilesInv' /\ HandInv' /\ CountInv'
    BY DEF LoggerInv, LoggerTypes, FilesInv, HandInv, CountInv, InHand, HistoryLines,
           logVars
  <1>2. \A m \in 1..Len(taken) : taken[m] \in LineEvents
    BY ElementOfSeq DEF LoggerInv, LoggerTypes
  <1>3. TakenInv(link["logger"], daemon)'
    BY <1>2 DEF LoggerInv, TakenInv, PathStep, logVars
  <1> QED
    BY <1>1, <1>3 DEF LoggerInv

LEMMA RecentTypes ==
    ASSUME WebTypes
    PROVE  /\ live.recent \in Seq(Records) /\ Len(live.recent) \in Nat
           /\ live.generation \in Nat
           /\ \A i \in 1..Len(live.recent) :
                 /\ live.recent[i] \in Records
                 /\ live.recent[i].generation \in Nat
                 /\ live.recent[i].event \in LineEvents
                 /\ live.recent[i].event.seq \in Nat
  <1>1. live.recent \in Seq(Records) /\ live.generation \in Nat
    BY DEF WebTypes
  <1>2. Len(live.recent) \in Nat /\ \A i \in 1..Len(live.recent) : live.recent[i] \in Records
    BY <1>1, LenProperties, ElementOfSeq
  <1> QED
    BY <1>1, <1>2 DEF Records, LineEvents

LEMMA WebKept ==
    ASSUME WebInv, UNCHANGED webVars,
           PathStep(link["web"], daemon, link'["web"], daemon')
    PROVE  WebInv'
  <1>1. WebTypes' /\ RecentInv'
    BY DEF WebInv, WebTypes, RecentInv, webVars
  <1>2. CurrentInv(link["web"], daemon)'
    BY RecentTypes DEF WebInv, CurrentInv, PathStep, webVars
  <1> QED
    BY <1>1, <1>2 DEF WebInv

LEMMA FaultCounted ==
    ASSUME NEW r \in [faults : 0..MaxFaults, cuts : 0..MaxCuts]
    PROVE  /\ r.cuts < MaxCuts =>
                 /\ [r EXCEPT !.cuts = @ + 1] \in [faults : 0..MaxFaults, cuts : 0..MaxCuts]
                 /\ [r EXCEPT !.cuts = @ + 1].faults = r.faults
           /\ r.faults < MaxFaults =>
                 /\ [r EXCEPT !.faults = @ + 1] \in [faults : 0..MaxFaults, cuts : 0..MaxCuts]
                 /\ [r EXCEPT !.faults = @ + 1].faults = r.faults + 1
  BY ObserverConstants

\* A step of the path that neither observer takes part in.
LEMMA PathAlone ==
    ASSUME ObserversInv, UNCHANGED <<logVars, webVars>>,
           daemon' \in Daemons, link' \in [ObserverNames -> Links],
           mishaps' \in [faults : 0..MaxFaults, cuts : 0..MaxCuts],
           mishaps'.faults = mishaps.faults,
           \A o \in ObserverNames : PathStep(link[o], daemon, link'[o], daemon')
    PROVE  ObserversInv'
  <1>1. "logger" \in ObserverNames /\ "web" \in ObserverNames
    BY DEF ObserverNames
  <1>2. LinesInv'
    BY DEF LinesInv, PathStep
  <1>3. LoggerInv'
    BY <1>1, LoggerKept DEF ObserversInv
  <1>4. WebInv'
    BY <1>1, WebKept DEF ObserversInv
  <1> QED
    BY <1>2, <1>3, <1>4 DEF ObserversInv

LEMMA PublishEventStep ==
    ASSUME ObserversInv, PublishEvent
    PROVE  ObserversInv'
  <1> DEFINE event == [run |-> daemon.run, seq |-> daemon.seq + 1]
             Room(o) == link[o].open /\ Len(link[o].pipe) < PipeCapacity
             Got(o) == [link[o] EXCEPT !.pipe = IF Room(o) THEN Append(@, event) ELSE @]
  <1>1. /\ daemon \in Daemons /\ daemon.up /\ daemon.seq < MaxSeq
        /\ link \in [ObserverNames -> Links]
        /\ \A o \in ObserverNames : LinkOK(link[o], daemon) /\ link[o] \in Links
        /\ mishaps \in [faults : 0..MaxFaults, cuts : 0..MaxCuts]
    BY DEF ObserversInv, LinesInv, PublishEvent
  <1>2. /\ link' = [o \in ObserverNames |-> Got(o)]
        /\ daemon' = [daemon EXCEPT !.seq = @ + 1]
        /\ UNCHANGED <<logVars, webVars, mishaps>>
    BY DEF PublishEvent
  <1>3. daemon' \in Daemons
    BY <1>1, <1>2, ObserverConstants DEF Daemons
  <1>4. ASSUME NEW o \in ObserverNames
        PROVE  \/ Got(o) = link[o]
               \/ /\ link[o].open /\ Len(link[o].pipe) < PipeCapacity
                  /\ Got(o) = [link[o] EXCEPT !.pipe = Append(@, event)]
    BY <1>1 DEF Links
  <1>5. ASSUME NEW o \in ObserverNames
        PROVE  PathStep(link[o], daemon, link'[o], daemon')
    <2>1. link'[o] = Got(o)
      BY <1>2
    <2> HIDE DEF Got
    <2> QED
      BY <1>1, <1>2, <1>4, <2>1, LinkPublished
  <1>6. link' \in [ObserverNames -> Links]
    <2> HIDE DEF Got
    <2>1. \A o \in ObserverNames : link'[o] \in Links
      BY <1>5 DEF PathStep, LinkOK
    <2> QED
      BY <1>2, <2>1
  <1> HIDE DEF Got
  <1> QED
    BY <1>1, <1>2, <1>3, <1>5, <1>6, PathAlone

LEMMA DaemonDiesStep ==
    ASSUME ObserversInv, DaemonDies
    PROVE  ObserversInv'
  <1>1. /\ daemon \in Daemons
        /\ link \in [ObserverNames -> Links]
        /\ \A o \in ObserverNames : LinkOK(link[o], daemon)
        /\ mishaps \in [faults : 0..MaxFaults, cuts : 0..MaxCuts]
    BY DEF ObserversInv, LinesInv
  <1>2. /\ daemon' \in Daemons /\ daemon'.run = daemon.run /\ daemon'.seq = daemon.seq
        /\ UNCHANGED <<logVars, webVars, mishaps>>
    BY <1>1 DEF DaemonDies, Daemons
  <1>3. PICK l \in Closed(link["logger"]), w \in Closed(link["web"]) :
           link' = [link EXCEPT !["logger"] = l, !["web"] = w]
    BY DEF DaemonDies
  <1>4. DOMAIN link' = ObserverNames /\ link'["logger"] = l /\ link'["web"] = w
    BY <1>1, <1>3 DEF ObserverNames
  <1>5. \A o \in ObserverNames : link'[o] \in Closed(link[o])
    BY <1>4 DEF ObserverNames
  <1>6. \A o \in ObserverNames :
           PathStep(link[o], daemon, link'[o], daemon) /\ ~link'[o].open
    BY <1>1, <1>5, LinkClosed
  <1>7. \A o \in ObserverNames : LinkOK(link'[o], daemon)
    BY <1>6 DEF PathStep
  <1>8. \A o \in ObserverNames : PathStep(link'[o], daemon, link'[o], daemon')
    BY <1>1, <1>2, <1>6, <1>7, LinkOutlives
  <1>9. \A o \in ObserverNames : PathStep(link[o], daemon, link'[o], daemon')
    BY <1>6, <1>8, PathSteps
  <1>10. link' \in [ObserverNames -> Links]
    <2>1. \A o \in ObserverNames : link'[o] \in Links
      BY <1>7 DEF LinkOK
    <2>2. link' = [o \in ObserverNames |-> link'[o]]
      BY <1>1, <1>3
    <2> QED
      BY <2>1, <2>2
  <1> QED
    BY <1>1, <1>2, <1>9, <1>10, PathAlone

LEMMA DaemonStartsStep ==
    ASSUME ObserversInv, DaemonStarts
    PROVE  ObserversInv'
  <1>1. /\ daemon \in Daemons /\ ~daemon.up
        /\ link \in [ObserverNames -> Links]
        /\ \A o \in ObserverNames : LinkOK(link[o], daemon) /\ ~link[o].open
        /\ mishaps \in [faults : 0..MaxFaults, cuts : 0..MaxCuts]
    BY DEF ObserversInv, LinesInv, DaemonStarts, LinkOK
  <1>2. /\ daemon' \in Daemons /\ daemon'.run > daemon.run
        /\ UNCHANGED <<link, logVars, webVars, mishaps>>
    BY <1>1, ObserverConstants DEF DaemonStarts, Daemons
  <1>3. \A o \in ObserverNames : PathStep(link[o], daemon, link'[o], daemon')
    BY <1>1, <1>2, LinkOutlives
  <1> QED
    BY <1>1, <1>2, <1>3, PathAlone

LEMMA HandlerTimesOutStep ==
    ASSUME ObserversInv, NEW o \in ObserverNames, HandlerTimesOut(o)
    PROVE  ObserversInv'
  <1>1. /\ daemon \in Daemons
        /\ link \in [ObserverNames -> Links]
        /\ \A q \in ObserverNames : LinkOK(link[q], daemon)
        /\ mishaps \in [faults : 0..MaxFaults, cuts : 0..MaxCuts]
    BY DEF ObserversInv, LinesInv
  <1>2. PICK l \in Closed(link[o]) : link' = [link EXCEPT ![o] = l]
    BY DEF HandlerTimesOut
  <1>3. UNCHANGED <<daemon, logVars, webVars>>
    BY DEF HandlerTimesOut
  <1>4. /\ mishaps' \in [faults : 0..MaxFaults, cuts : 0..MaxCuts]
        /\ mishaps'.faults = mishaps.faults
    BY <1>1, FaultCounted DEF HandlerTimesOut
  <1>5. PathStep(link[o], daemon, l, daemon)
    BY <1>1, LinkClosed
  <1>6. \A q \in ObserverNames : PathStep(link[q], daemon, link'[q], daemon')
    BY <1>1, <1>2, <1>3, <1>5, LinkStays
  <1>7. link' \in [ObserverNames -> Links]
    BY <1>1, <1>2, <1>5 DEF PathStep, LinkOK
  <1> QED
    BY <1>1, <1>3, <1>4, <1>6, <1>7, PathAlone

\* A step of one observer changes its own connection only.
LEMMA OneLink ==
    ASSUME LinesInv, NEW o \in ObserverNames, NEW k, LinkOK(k, daemon),
           link' = [link EXCEPT ![o] = k], UNCHANGED daemon,
           mishaps' \in [faults : 0..MaxFaults, cuts : 0..MaxCuts]
    PROVE  /\ LinesInv' /\ link'[o] = k
           /\ \A q \in ObserverNames : q # o => link'[q] = link[q]
  BY DEF LinesInv, LinkOK

LEMMA WebLooksOn ==
    ASSUME LinesInv, WebInv, UNCHANGED <<daemon, webVars>>, link'["web"] = link["web"]
    PROVE  WebInv'
  <1>1. LinkOK(link["web"], daemon)
    BY DEF LinesInv, ObserverNames
  <1>2. PathStep(link["web"], daemon, link'["web"], daemon')
    BY <1>1, LinkStays
  <1> QED
    BY <1>2, WebKept

LEMMA LoggerLooksOn ==
    ASSUME LinesInv, LoggerInv, UNCHANGED <<daemon, logVars, mishaps>>,
           link'["logger"] = link["logger"]
    PROVE  LoggerInv'
  <1>1. LinkOK(link["logger"], daemon)
    BY DEF LinesInv, ObserverNames
  <1>2. PathStep(link["logger"], daemon, link'["logger"], daemon')
    BY <1>1, LinkStays
  <1> QED
    BY <1>2, LoggerKept

-----------------------------------------------------------------------------
(***************************************************************************)
(* Observers: the logger                                                   *)
(***************************************************************************)

\* The logger moves on without an event in hand.
LEMMA LoggerMoves ==
    ASSUME LinesInv, LoggerInv, UNCHANGED <<files, taken>>,
           mishaps'.faults = mishaps.faults, ~(logger.pc \in {"human", "json"}),
           logger' \in [pc : LoggerStates, event : Lines],
           ~(logger'.pc \in {"human", "json"}),
           \A e \in LineEvents : Passed(e, link["logger"], daemon)
               => Passed(e, link'["logger"], daemon')
    PROVE  LoggerInv'
  <1>1. LoggerTypes' /\ FilesInv' /\ HandInv'
    BY DEF LoggerInv, LoggerTypes, FilesInv, HandInv
  <1>2. InHand' = InHand /\ HistoryLines' = HistoryLines
    BY DEF InHand, HistoryLines
  <1>3. CountInv'
    BY <1>2 DEF LoggerInv, CountInv
  <1>4. \A m \in 1..Len(taken) : taken[m] \in LineEvents
    BY ElementOfSeq DEF LoggerInv, LoggerTypes
  <1>5. TakenInv(link["logger"], daemon)'
    BY <1>4 DEF LoggerInv, TakenInv
  <1> QED
    BY <1>1, <1>3, <1>5 DEF LoggerInv

LEMMA LoggerConnectsStep ==
    ASSUME ObserversInv, LoggerConnects
    PROVE  ObserversInv'
  <1> DEFINE k == [pipe |-> <<>>, open |-> TRUE]
  <1>1. /\ LinesInv /\ LoggerInv /\ WebInv /\ daemon \in Daemons /\ daemon.up
        /\ mishaps \in [faults : 0..MaxFaults, cuts : 0..MaxCuts]
    BY DEF ObserversInv, LinesInv, LoggerConnects
  <1>2. /\ link' = [link EXCEPT !["logger"] = k]
        /\ UNCHANGED <<daemon, files, taken, webVars, mishaps>>
    BY DEF LoggerConnects, Connected
  <1>3. /\ LinkOK(k, daemon)
        /\ \A e \in LineEvents : Numbered(e, daemon) => Passed(e, k, daemon)
    BY <1>1, LinkFresh
  <1> HIDE DEF k
  <1>4. "logger" \in ObserverNames /\ "web" \in ObserverNames /\ "web" # "logger"
    BY DEF ObserverNames
  <1>5. LinesInv' /\ link'["logger"] = k /\ link'["web"] = link["web"]
    BY <1>1, <1>2, <1>3, <1>4, OneLink
  <1>6. /\ logger' \in [pc : LoggerStates, event : Lines]
        /\ logger'.pc = "reading" /\ logger.pc = "connecting"
    BY <1>1 DEF LoggerConnects, LoggerInv, LoggerTypes, LoggerStates
  <1>7. LoggerInv'
    BY <1>1, <1>2, <1>3, <1>5, <1>6, LoggerMoves DEF Passed
  <1>8. WebInv'
    BY <1>1, <1>2, <1>5, WebLooksOn
  <1> QED
    BY <1>5, <1>7, <1>8 DEF ObserversInv

LEMMA LoggerReconnectsStep ==
    ASSUME ObserversInv, LoggerReconnects
    PROVE  ObserversInv'
  <1>1. /\ LinesInv /\ LoggerInv /\ WebInv /\ daemon \in Daemons
        /\ mishaps \in [faults : 0..MaxFaults, cuts : 0..MaxCuts]
    BY DEF ObserversInv, LinesInv
  <1>2. /\ link' = [link EXCEPT !["logger"] = NoLink]
        /\ UNCHANGED <<daemon, files, taken, webVars, mishaps>>
    BY DEF LoggerReconnects, Disconnected
  <1>3. "logger" \in ObserverNames /\ "web" \in ObserverNames /\ "web" # "logger"
    BY DEF ObserverNames
  <1>4. LinkOK(link["logger"], daemon)
    BY <1>1, <1>3 DEF LinesInv
  <1>5. PathStep(link["logger"], daemon, NoLink, daemon)
    BY <1>1, <1>4, LinkGone
  <1>6. LinesInv' /\ link'["logger"] = NoLink /\ link'["web"] = link["web"]
    BY <1>1, <1>2, <1>3, <1>5, OneLink DEF PathStep
  <1>7. /\ logger' \in [pc : LoggerStates, event : Lines]
        /\ logger'.pc = "waiting" /\ logger.pc \in {"connecting", "reading"}
    BY <1>1 DEF LoggerReconnects, LoggerInv, LoggerTypes, LoggerStates
  <1>8. LoggerInv'
    BY <1>1, <1>2, <1>5, <1>6, <1>7, LoggerMoves DEF PathStep
  <1>9. WebInv'
    BY <1>1, <1>2, <1>6, WebLooksOn
  <1> QED
    BY <1>6, <1>8, <1>9 DEF ObserversInv

LEMMA LoggerIdleStep ==
    ASSUME ObserversInv, LoggerWaited \/ LoggerStarts
    PROVE  ObserversInv'
  <1>1. LinesInv /\ LoggerInv /\ WebInv
    BY DEF ObserversInv
  <1>2. UNCHANGED <<daemon, link, files, taken, webVars, mishaps>>
    BY DEF LoggerWaited, LoggerStarts
  <1>3. LinesInv'
    BY <1>1, <1>2 DEF LinesInv
  <1>4. /\ logger' \in [pc : LoggerStates, event : Lines]
        /\ logger'.pc = "connecting" /\ logger.pc \in {"waiting", "down"}
    BY <1>1 DEF LoggerWaited, LoggerStarts, LoggerInv, LoggerTypes, LoggerStates
  <1>5. LoggerInv'
    BY <1>1, <1>2, <1>4, LoggerMoves
  <1>6. WebInv'
    BY <1>1, <1>2, WebLooksOn
  <1> QED
    BY <1>3, <1>5, <1>6 DEF ObserversInv

\* The lines of a file that the history lists.
ListedOf(f) == {i \in DOMAIN f : Listed(f, i)}

LEMMA ListedFinite ==
    ASSUME NEW f \in Seq(Entries)
    PROVE  /\ ListedOf(f) \subseteq 1..Len(f) /\ Len(f) \in Nat
           /\ IsFiniteSet(ListedOf(f)) /\ Cardinality(ListedOf(f)) \in Nat
           /\ Debt(f) \in 0..2
  <1>1. DOMAIN f = 1..Len(f) /\ Len(f) \in Nat
    BY LenProperties
  <1>2. 1 \in Int /\ Len(f) \in Int
    BY <1>1
  <1>3. IsFiniteSet(1..Len(f))
    BY <1>2, FS_Interval
  <1>4. ListedOf(f) \in SUBSET (1..Len(f))
    BY <1>1 DEF ListedOf
  <1>5. IsFiniteSet(ListedOf(f))
    BY <1>3, <1>4, FS_Subset
  <1>6. Debt(f) \in 0..2
    BY DEF Debt
  <1> QED
    BY <1>1, <1>4, <1>5, <1>6, FS_CardinalityType

\* The listing of a file after an append: a line of its own behind a whole
\* line, otherwise one with what it is appended to.
LEMMA ListedAfterAppend ==
    ASSUME NEW f \in Seq(Entries), NEW e \in Entries
    PROVE  /\ \A i \in 1..Len(f) : i \in ListedOf(Append(f, e))
                 <=> i \in ListedOf(f) /\ (i = Len(f) => EndsWhole(f))
           /\ Len(f) + 1 \in ListedOf(Append(f, e)) <=> EndsWhole(f) /\ e.form # "torn"
           /\ ListedOf(Append(f, e)) \subseteq 1..Len(f) + 1
  <1> DEFINE n == Len(f)
             g == Append(f, e)
  <1>1. /\ g \in Seq(Entries) /\ Len(g) = n + 1 /\ n \in Nat
        /\ \A i \in 1..n : g[i] = f[i]
        /\ g[n + 1] = e
        /\ DOMAIN g = 1..n + 1 /\ DOMAIN f = 1..n
    BY AppendProperties, LenProperties
  <1> HIDE DEF g
  <1>2. ASSUME NEW i \in 1..n
        PROVE  BeginsLine(g, i) <=> BeginsLine(f, i)
    <2>1. i = 1 \/ i - 1 \in 1..n
      BY <1>1
    <2> QED
      BY <1>1, <2>1 DEF BeginsLine
  <1>3. ASSUME NEW i \in 1..n
        PROVE  Listed(g, i) <=> Listed(f, i) /\ (i = n => EndsWhole(f))
    <2>1. i # Len(g) /\ (i = Len(f) <=> i = n) /\ n # 0
      BY <1>1
    <2> QED
      BY <1>1, <1>2, <2>1 DEF Listed, ReadableAt, EndsWhole
  <1>4. Listed(g, n + 1) <=> EndsWhole(f) /\ e.form # "torn"
    <2>1. BeginsLine(g, n + 1) <=> EndsWhole(f)
      <3>1. n + 1 = 1 <=> n = 0
        BY <1>1
      <3>2. n # 0 => n + 1 - 1 = n /\ g[n] = f[n]
        BY <1>1
      <3> QED
        BY <3>1, <3>2 DEF BeginsLine, EndsWhole
    <2>2. e.form \in Forms
      BY DEF Entries
    <2> QED
      BY <1>1, <2>1, <2>2 DEF Listed, ReadableAt, Forms
  <1>5. /\ \A i \in 1..n : i \in DOMAIN g /\ i \in DOMAIN f
        /\ n + 1 \in DOMAIN g
    BY <1>1
  <1>6. \A i \in 1..n : i \in ListedOf(g) <=> i \in ListedOf(f) /\ (i = n => EndsWhole(f))
    BY <1>3, <1>5 DEF ListedOf
  <1>7. n + 1 \in ListedOf(g) <=> EndsWhole(f) /\ e.form # "torn"
    BY <1>4, <1>5 DEF ListedOf
  <1>8. ListedOf(g) \subseteq 1..n + 1
    BY <1>1 DEF ListedOf
  <1> QED
    BY <1>6, <1>7, <1>8 DEF g

LEMMA ListedBehindWhole ==
    ASSUME NEW f \in Seq(Entries), NEW e \in Entries, EndsWhole(f)
    PROVE  /\ e.form = "torn" => ListedOf(Append(f, e)) = ListedOf(f)
           /\ e.form # "torn" => ListedOf(Append(f, e)) = ListedOf(f) \cup {Len(f) + 1}
  <1>1. Len(f) \in Nat /\ ListedOf(f) \subseteq 1..Len(f)
    BY ListedFinite
  <1>2. \A i : i \in 1..Len(f) + 1 <=> i \in 1..Len(f) \/ i = Len(f) + 1
    BY <1>1
  <1>3. \A i : i \in ListedOf(Append(f, e))
                  <=> i \in ListedOf(f) \/ (i = Len(f) + 1 /\ e.form # "torn")
    <2>1. Len(f) + 1 \notin 1..Len(f)
      BY <1>1
    <2> QED
      BY <1>1, <1>2, <2>1, ListedAfterAppend
  <1>4. e.form = "torn" => ListedOf(Append(f, e)) = ListedOf(f)
    BY <1>3
  <1>5. e.form # "torn" => ListedOf(Append(f, e)) = ListedOf(f) \cup {Len(f) + 1}
    BY <1>3
  <1> QED
    BY <1>4, <1>5

LEMMA ListedBehindPart ==
    ASSUME NEW f \in Seq(Entries), NEW e \in Entries, ~EndsWhole(f)
    PROVE  /\ ListedOf(Append(f, e)) = ListedOf(f) \ {Len(f)}
           /\ Len(f) + 1 \notin ListedOf(Append(f, e))
  <1>1. Len(f) \in Nat /\ ListedOf(f) \subseteq 1..Len(f)
    BY ListedFinite
  <1>2. \A i : i \in 1..Len(f) + 1 <=> i \in 1..Len(f) \/ i = Len(f) + 1
    BY <1>1
  <1>3. Len(f) + 1 \notin ListedOf(Append(f, e))
    BY ListedAfterAppend
  <1>4. \A i : i \in ListedOf(Append(f, e)) <=> i \in ListedOf(f) /\ i # Len(f)
    BY <1>1, <1>2, <1>3, ListedAfterAppend
  <1> QED
    BY <1>3, <1>4

\* The count of listed lines against the debt of the file's end.
LEMMA CountAfterAppend ==
    ASSUME NEW f \in Seq(Entries), NEW e \in Entries, NEW g, g = Append(f, e)
    PROVE  /\ e.form = "whole" =>
                 /\ Debt(g) = 0
                 /\ Cardinality(ListedOf(g)) + Debt(f) = Cardinality(ListedOf(f)) + 1
           /\ Cardinality(ListedOf(g)) + Debt(f) + 1
                 >= Cardinality(ListedOf(f)) + Debt(g)
  <1> DEFINE n == Len(f)
             cf == Cardinality(ListedOf(f))
             cg == Cardinality(ListedOf(g))
  <1>1. /\ g \in Seq(Entries) /\ Len(g) = n + 1 /\ n \in Nat /\ g[n + 1] = e
        /\ Len(g) # 0
    BY AppendProperties, LenProperties
  <1>2. /\ IsFiniteSet(ListedOf(f)) /\ cf \in Nat /\ cg \in Nat
        /\ n + 1 \notin ListedOf(f)
    <2>1. n + 1 \notin 1..n
      BY <1>1
    <2> QED
      BY <1>1, <2>1, ListedFinite
  <1>3. /\ e.form = "whole" => Debt(g) = 0
        /\ e.form # "whole" /\ n + 1 \in ListedOf(g) => Debt(g) = 2
        /\ e.form # "whole" /\ n + 1 \notin ListedOf(g) => Debt(g) = 1
    <2>1. DOMAIN g = 1..n + 1 /\ n + 1 \in 1..n + 1
      BY <1>1, LenProperties
    <2> QED
      BY <1>1, <2>1 DEF Debt, EndsWhole, ListedOf
  <1>4. CASE EndsWhole(f)
    <2>1. Debt(f) = 0
      BY <1>4 DEF Debt
    <2>2. CASE e.form = "torn"
      <3>1. ListedOf(g) = ListedOf(f)
        BY <1>4, <2>2, ListedBehindWhole
      <3>2. cg = cf /\ Debt(g) = 1
        BY <1>2, <1>3, <2>2, <3>1
      <3> QED
        BY <1>2, <2>1, <2>2, <3>2
    <2>3. CASE e.form # "torn"
      <3>1. ListedOf(g) = ListedOf(f) \cup {n + 1}
        BY <1>4, <2>3, ListedBehindWhole
      <3>2. cg = cf + 1
        BY <1>2, <3>1, FS_AddElement
      <3>3. Debt(g) \in {0, 2} /\ (e.form = "whole" => Debt(g) = 0)
        BY <1>3, <3>1
      <3> QED
        BY <1>2, <2>1, <3>2, <3>3
    <2> QED
      BY <2>2, <2>3
  <1>5. CASE ~EndsWhole(f)
    <2>1. ListedOf(g) = ListedOf(f) \ {n} /\ n + 1 \notin ListedOf(g)
      BY <1>5, ListedBehindPart
    <2>2. Debt(g) \in {0, 1} /\ (e.form = "whole" => Debt(g) = 0)
      BY <1>3, <2>1
    <2>3. CASE n \in ListedOf(f)
      <3>1. Debt(f) = 2
        BY <1>5, <2>3 DEF Debt, ListedOf
      <3>2. cg = cf - 1
        BY <1>2, <2>1, <2>3, FS_RemoveElement
      <3> QED
        BY <1>2, <2>2, <3>1, <3>2
    <2>4. CASE n \notin ListedOf(f)
      <3>1. Debt(f) = 1
        <4>1. DOMAIN f = 1..n /\ n \in 1..n
          BY <1>1, <1>5, LenProperties DEF EndsWhole
        <4> QED
          BY <1>5, <2>4, <4>1 DEF Debt, ListedOf
      <3>2. ListedOf(g) = ListedOf(f)
        BY <2>1, <2>4
      <3>3. cg = cf
        BY <3>2
      <3> QED
        BY <1>2, <2>2, <3>1, <3>3
    <2> QED
      BY <2>3, <2>4
  <1> QED
    BY <1>4, <1>5

\* The next event the logger takes is later than all it has written.
LEMMA LoggerReadsStep ==
    ASSUME ObserversInv, LoggerReads
    PROVE  ObserversInv'
  <1> DEFINE l == link["logger"]
             k == [l EXCEPT !.pipe = Tail(@)]
             event == Head(l.pipe)
  <1>1. /\ LinesInv /\ LoggerInv /\ WebInv /\ daemon \in Daemons
        /\ mishaps \in [faults : 0..MaxFaults, cuts : 0..MaxCuts]
        /\ l.pipe # <<>> /\ logger.pc = "reading"
    BY DEF ObserversInv, LinesInv, LoggerReads, NextLine
  <1>2. /\ link' = [link EXCEPT !["logger"] = k]
        /\ UNCHANGED <<daemon, files, webVars, mishaps>>
    BY <1>1 DEF LoggerReads, LineRead, LinesInv, ObserverNames
  <1>3. "logger" \in ObserverNames /\ "web" \in ObserverNames /\ "web" # "logger"
    BY DEF ObserverNames
  <1>4. LinkOK(l, daemon)
    BY <1>1, <1>3 DEF LinesInv
  <1>5. /\ PathStep(l, daemon, k, daemon) /\ event = l.pipe[1] /\ event \in Lines
        /\ event # Fragment =>
              event \in LineEvents /\ Passed(event, k, daemon)
    BY <1>1, <1>4, LinkRead
  <1>6. LinesInv' /\ link'["logger"] = k /\ link'["web"] = link["web"]
    <2> HIDE DEF k
    <2> QED
      BY <1>1, <1>2, <1>3, <1>5, OneLink DEF PathStep
  <1>7. WebInv'
    BY <1>1, <1>2, <1>6, WebLooksOn
  <1>8. /\ event = Fragment => UNCHANGED <<logger, taken>>
        /\ event # Fragment => /\ logger' = [pc |-> "human", event |-> event]
                               /\ taken' = Append(taken, event)
    BY DEF LoggerReads
  <1>9. 1 \in 1..Len(l.pipe)
    <2>1. l.pipe \in Seq(Lines)
      BY <1>4, OnLink
    <2> QED
      BY <1>1, <2>1, EmptySeq
  <1> HIDE DEF k, event
  <1>10. CASE event = Fragment
    <2>1. UNCHANGED logVars
      BY <1>2, <1>8, <1>10 DEF logVars
    <2>2. LoggerInv'
      BY <1>1, <1>2, <1>5, <1>6, <2>1, LoggerKept
    <2> QED
      BY <1>6, <1>7, <2>2 DEF ObserversInv
  <1>11. CASE event # Fragment
    <2>1. /\ taken \in Seq(LineEvents) /\ Len(taken) \in Nat
          /\ \A m \in 1..Len(taken) : taken[m] \in LineEvents
      BY <1>1, LenProperties, ElementOfSeq DEF LoggerInv, LoggerTypes
    <2>2. /\ taken' \in Seq(LineEvents) /\ Len(taken') = Len(taken) + 1
          /\ \A m \in 1..Len(taken) : taken'[m] = taken[m]
          /\ taken'[Len(taken) + 1] = event
      BY <1>5, <1>8, <1>11, <2>1, AppendProperties
    <2>3. \A m \in 1..Len(taken) : /\ Passed(taken[m], k, daemon)
                                   /\ Before(taken[m], event)
      BY <1>1, <1>5, <1>9, <1>11, <2>1 DEF LoggerInv, TakenInv, PathStep, Passed
    <2>4. \A m \in 1..Len(taken') :
             \/ m \in 1..Len(taken) /\ taken'[m] = taken[m]
             \/ m = Len(taken) + 1 /\ taken'[m] = event
      BY <2>1, <2>2
    <2>5. TakenInv(link["logger"], daemon)'
      <3>1. \A m \in 1..Len(taken') : Passed(taken'[m], k, daemon)
        BY <1>5, <1>11, <2>3, <2>4
      <3>2. ASSUME NEW m \in 1..Len(taken'), NEW n \in 1..Len(taken'), m < n
            PROVE  Before(taken'[m], taken'[n])
        <4>1. m \in 1..Len(taken) /\ taken'[m] = taken[m]
          BY <2>1, <2>2, <2>4, <3>2
        <4>2. CASE n \in 1..Len(taken) /\ taken'[n] = taken[n]
          BY <1>1, <3>2, <4>1, <4>2 DEF LoggerInv, TakenInv
        <4>3. CASE taken'[n] = event
          BY <2>3, <4>1, <4>3
        <4> QED
          BY <2>4, <4>2, <4>3
      <3> QED
        BY <1>2, <1>6, <3>1, <3>2 DEF TakenInv
    <2>6. LoggerTypes'
      BY <1>1, <1>2, <1>5, <1>8, <1>11, <2>2 DEF LoggerInv, LoggerTypes, LoggerStates
    <2>7. FilesInv'
      <3>1. \A m \in 1..Len(taken) : m \in 1..Len(taken') /\ taken'[m] = taken[m]
        BY <2>1, <2>2
      <3> QED
        BY <1>1, <1>2, <3>1 DEF LoggerInv, FilesInv
    <2>8. HandInv'
      <3>1. logger'.pc = "human" /\ logger'.event = event
        BY <1>8, <1>11
      <3>2. \A i \in 1..Len(files.json) : Before(files.json[i].event, event)
        BY <1>1, <2>3 DEF LoggerInv, FilesInv
      <3>3. Len(taken') > 0 /\ event = taken'[Len(taken')]
        BY <2>1, <2>2
      <3> QED
        BY <1>2, <1>5, <1>11, <3>1, <3>2, <3>3 DEF HandInv
    <2>9. CountInv'
      <3>1. InHand = 0 /\ InHand' = 1
        BY <1>1, <1>8, <1>11 DEF InHand
      <3>2. HistoryLines' = HistoryLines /\ HistoryLines = ListedOf(files.json)
        BY <1>2 DEF HistoryLines, ListedOf
      <3>3. Cardinality(HistoryLines) \in Nat /\ Debt(files.json) \in Nat
        BY <1>1, <3>2, ListedFinite DEF LoggerInv, LoggerTypes
      <3>4. Len(taken) + Debt(files.json)
               <= Cardinality(HistoryLines) + 0 + 2 * mishaps.faults
        BY <1>1, <3>1 DEF LoggerInv, CountInv
      <3>5. mishaps.faults \in Nat
        BY <1>1
      <3>6. Len(taken) + 1 + Debt(files.json)
               <= Cardinality(HistoryLines) + 1 + 2 * mishaps.faults
        BY <2>1, <3>3, <3>4, <3>5
      <3> QED
        BY <1>2, <2>2, <3>1, <3>2, <3>6 DEF CountInv
    <2> QED
      BY <1>6, <1>7, <2>5, <2>6, <2>7, <2>8, <2>9 DEF LoggerInv, ObserversInv
  <1> QED
    BY <1>10, <1>11

LEMMA LinesAfterAppend ==
    ASSUME NEW f \in Seq(Entries), NEW e \in Entries
    PROVE  /\ LinesOf(f) \subseteq LinesOf(Append(f, e))
           /\ e.form # "torn" => e.event \in LinesOf(Append(f, e))
  <1> DEFINE g == Append(f, e)
  <1>1. /\ Len(f) \in Nat /\ DOMAIN f = 1..Len(f) /\ DOMAIN g = 1..Len(f) + 1
        /\ \A i \in 1..Len(f) : g[i] = f[i]
        /\ g[Len(f) + 1] = e
    BY AppendProperties, LenProperties
  <1> HIDE DEF g
  <1>2. Len(f) + 1 \in DOMAIN g /\ \A i \in DOMAIN f : i \in DOMAIN g /\ g[i] = f[i]
    BY <1>1
  <1>3. LinesOf(f) \subseteq LinesOf(g)
    BY <1>2 DEF LinesOf
  <1>4. e.form # "torn" => e.event \in LinesOf(g)
    BY <1>1, <1>2 DEF LinesOf
  <1> QED
    BY <1>3, <1>4 DEF g

\* An append to either file, whole or in part.
LEMMA EntryWritten ==
    ASSUME LoggerInv, logger.pc \in {"human", "json"}, NEW form \in Forms,
           files' = Appended(logger.pc, form), UNCHANGED taken
    PROVE  /\ files' \in [human : Seq(Entries), json : Seq(Entries)]
           /\ FilesInv'
           /\ logger.pc = "human" =>
                 /\ files'.json = files.json
                 /\ form # "torn" => logger.event \in LinesOf(files'.human)
           /\ logger.pc = "json" => \E e \in Entries :
                 e.form = form /\ files'.json = Append(files.json, e)
  <1> DEFINE e == [event |-> logger.event, form |-> form]
  <1>1. /\ files \in [human : Seq(Entries), json : Seq(Entries)]
        /\ logger.event \in LineEvents
        /\ files.human \in Seq(Entries) /\ files.json \in Seq(Entries)
    BY DEF LoggerInv, LoggerTypes, HandInv
  <1>2. e \in Entries /\ e.form = form /\ e.event = logger.event
    BY <1>1 DEF Entries
  <1> HIDE DEF e
  <1>3. CASE logger.pc = "human"
    <2>1. /\ files'.human = Append(files.human, e) /\ files'.json = files.json
          /\ files' \in [human : Seq(Entries), json : Seq(Entries)]
      BY <1>1, <1>2, <1>3, AppendProperties DEF Appended, e
    <2>2. /\ LinesOf(files.human) \subseteq LinesOf(files'.human)
          /\ form # "torn" => logger.event \in LinesOf(files'.human)
      BY <1>1, <1>2, <2>1, LinesAfterAppend
    <2>3. FilesInv'
      <3>1. /\ \A i \in 1..Len(files.json) :
                  /\ \E m \in 1..Len(taken) : files.json[i].event = taken[m]
                  /\ files.json[i].event \in LinesOf(files'.human)
            /\ \A i, j \in 1..Len(files.json) :
                  i < j => Before(files.json[i].event, files.json[j].event)
        BY <2>2 DEF LoggerInv, FilesInv
      <3>2. files'.json = files.json /\ taken' = taken
        BY <2>1
      <3> QED
        BY <3>1, <3>2 DEF FilesInv
    <2> QED
      BY <1>3, <2>1, <2>2, <2>3
  <1>4. CASE logger.pc = "json"
    <2>1. /\ files'.json = Append(files.json, e) /\ files'.human = files.human
          /\ files' \in [human : Seq(Entries), json : Seq(Entries)]
      BY <1>1, <1>2, <1>4, AppendProperties DEF Appended, e
    <2>2. /\ Len(files'.json) = Len(files.json) + 1 /\ Len(files.json) \in Nat
          /\ \A i \in 1..Len(files.json) : files'.json[i] = files.json[i]
          /\ files'.json[Len(files.json) + 1] = e
      BY <1>1, <1>2, <2>1, AppendProperties, LenProperties
    <2>3. \A i \in 1..Len(files'.json) :
             \/ i \in 1..Len(files.json) /\ files'.json[i] = files.json[i]
             \/ i = Len(files.json) + 1 /\ files'.json[i] = e
      BY <2>2
    <2>4. /\ Len(taken) \in 1..Len(taken) /\ e.event = taken[Len(taken)]
          /\ e.event \in LinesOf(files.human)
          /\ \A i \in 1..Len(files.json) : Before(files.json[i].event, e.event)
      <3>1. Len(taken) \in Nat
        BY LenProperties DEF LoggerInv, LoggerTypes
      <3> QED
        BY <1>2, <1>4, <3>1 DEF LoggerInv, HandInv
    <2>5. \A i \in 1..Len(files'.json) :
             /\ \E m \in 1..Len(taken) : files'.json[i].event = taken[m]
             /\ files'.json[i].event \in LinesOf(files.human)
      BY <2>3, <2>4 DEF LoggerInv, FilesInv
    <2>6. ASSUME NEW i \in 1..Len(files'.json), NEW j \in 1..Len(files'.json), i < j
          PROVE  Before(files'.json[i].event, files'.json[j].event)
      <3>1. i \in 1..Len(files.json) /\ files'.json[i] = files.json[i]
        BY <2>2, <2>3, <2>6
      <3>2. CASE j \in 1..Len(files.json) /\ files'.json[j] = files.json[j]
        BY <2>6, <3>1, <3>2 DEF LoggerInv, FilesInv
      <3>3. CASE files'.json[j] = e
        BY <2>4, <3>1, <3>3
      <3> QED
        BY <2>3, <3>2, <3>3
    <2>7. FilesInv'
      BY <2>1, <2>5, <2>6 DEF FilesInv
    <2> QED
      BY <1>2, <1>4, <2>1, <2>7
  <1> QED
    BY <1>3, <1>4

\* The arithmetic of the count, away from the file.
LEMMA CountGoesOn ==
    ASSUME NEW t \in Nat, NEW b \in Nat, NEW c \in Nat, NEW b2 \in Nat, NEW c2 \in Nat,
           NEW F \in Nat
    PROVE  /\ t + b <= c + 1 + 2 * F /\ b2 = 0 /\ c2 + b = c + 1
                 => t + b2 <= c2 + 0 + 2 * F
           /\ t + b <= c + 1 + 2 * F /\ c2 + b + 1 >= c + b2
                 => t + b2 <= c2 + 0 + 2 * (F + 1)
           /\ t + b <= c + 1 + 2 * F => t + b <= c + 0 + 2 * (F + 1)
           /\ t + b <= c + 0 + 2 * F => t + b <= c + 0 + 2 * (F + 1)
  OBVIOUS

LEMMA CountTypes ==
    ASSUME LoggerTypes, mishaps \in [faults : 0..MaxFaults, cuts : 0..MaxCuts]
    PROVE  /\ Len(taken) \in Nat /\ Debt(files.json) \in Nat
           /\ HistoryLines = ListedOf(files.json)
           /\ Cardinality(ListedOf(files.json)) \in Nat
           /\ mishaps.faults \in Nat
  <1>1. files.json \in Seq(Entries) /\ taken \in Seq(LineEvents)
    BY DEF LoggerTypes
  <1>2. Debt(files.json) \in 0..2 /\ Cardinality(ListedOf(files.json)) \in Nat
    BY <1>1, ListedFinite
  <1> QED
    BY <1>1, <1>2, LenProperties DEF HistoryLines, ListedOf

LEMMA LoggerWritesStep ==
    ASSUME ObserversInv, LoggerWrites
    PROVE  ObserversInv'
  <1>1. /\ LinesInv /\ LoggerInv /\ WebInv /\ LoggerTypes
        /\ mishaps \in [faults : 0..MaxFaults, cuts : 0..MaxCuts]
    BY DEF ObserversInv, LinesInv, LoggerInv
  <1>2. /\ UNCHANGED <<daemon, link, taken, webVars, mishaps>>
        /\ logger.pc \in {"human", "json"} /\ files' = Appended(logger.pc, "whole")
    BY DEF LoggerWrites
  <1>3. LinesInv' /\ WebInv'
    BY <1>1, <1>2, WebLooksOn DEF LinesInv
  <1>4. TakenInv(link["logger"], daemon)'
    BY <1>1, <1>2 DEF LoggerInv, TakenInv
  <1>5. "whole" \in Forms /\ "whole" # "torn"
    BY DEF Forms
  <1>6. /\ files' \in [human : Seq(Entries), json : Seq(Entries)]
        /\ FilesInv'
        /\ logger.pc = "human" =>
              files'.json = files.json /\ logger.event \in LinesOf(files'.human)
        /\ logger.pc = "json" => \E e \in Entries :
              e.form = "whole" /\ files'.json = Append(files.json, e)
    BY <1>1, <1>2, <1>5, EntryWritten
  <1>7. /\ logger \in [pc : LoggerStates, event : Lines]
        /\ Fragment \in Lines
    BY <1>1, FragmentApart DEF LoggerTypes
  <1>8. CASE logger.pc = "human"
    <2>1. logger' \in [pc : LoggerStates, event : Lines] /\ logger'.pc = "json"
          /\ logger'.event = logger.event
      BY <1>7, <1>8 DEF LoggerWrites, LoggerStates
    <2>2. LoggerTypes'
      BY <1>1, <1>2, <1>6, <2>1 DEF LoggerTypes
    <2>3. HandInv'
      BY <1>1, <1>2, <1>6, <1>8, <2>1 DEF LoggerInv, HandInv
    <2>4. CountInv'
      <3>1. InHand' = InHand
        BY <1>8, <2>1 DEF InHand
      <3>2. HistoryLines' = HistoryLines
        BY <1>6, <1>8 DEF HistoryLines
      <3> QED
        BY <1>1, <1>2, <1>6, <1>8, <3>1, <3>2 DEF LoggerInv, CountInv
    <2> QED
      BY <1>3, <1>4, <1>6, <2>2, <2>3, <2>4 DEF LoggerInv, ObserversInv
  <1>9. CASE logger.pc = "json"
    <2>1. logger' \in [pc : LoggerStates, event : Lines] /\ logger'.pc = "reading"
      BY <1>7, <1>9 DEF LoggerWrites, LoggerStates
    <2>2. LoggerTypes'
      BY <1>1, <1>2, <1>6, <2>1 DEF LoggerTypes
    <2>3. HandInv'
      BY <2>1 DEF HandInv
    <2>4. CountInv'
      <3>1. InHand = 1 /\ InHand' = 0
        BY <1>9, <2>1 DEF InHand
      <3>2. PICK e \in Entries : e.form = "whole" /\ files'.json = Append(files.json, e)
        BY <1>6, <1>9
      <3>3. /\ Debt(files'.json) = 0
            /\ Cardinality(ListedOf(files'.json)) + Debt(files.json)
                  = Cardinality(ListedOf(files.json)) + 1
        BY <1>1, <3>2, CountAfterAppend DEF LoggerTypes
      <3>4. /\ Len(taken) \in Nat /\ Debt(files.json) \in Nat
            /\ HistoryLines = ListedOf(files.json)
            /\ Cardinality(ListedOf(files.json)) \in Nat
            /\ mishaps.faults \in Nat
        BY <1>1, CountTypes
      <3>5. /\ HistoryLines' = ListedOf(files'.json)
            /\ Cardinality(ListedOf(files'.json)) \in Nat
        BY <1>6, ListedFinite DEF HistoryLines, ListedOf
      <3>6. Len(taken) + Debt(files.json)
               <= Cardinality(ListedOf(files.json)) + 1 + 2 * mishaps.faults
        BY <1>1, <3>1, <3>4 DEF LoggerInv, CountInv
      <3>7. Len(taken) + Debt(files'.json)
               <= Cardinality(ListedOf(files'.json)) + 0 + 2 * mishaps.faults
        BY <3>3, <3>4, <3>5, <3>6, CountGoesOn
      <3> QED
        BY <1>2, <3>1, <3>5, <3>7 DEF CountInv
    <2> QED
      BY <1>3, <1>4, <1>6, <2>2, <2>3, <2>4 DEF LoggerInv, ObserversInv
  <1> QED
    BY <1>2, <1>8, <1>9

\* A failed write, or a crash: at most two events are lost by it.
LEMMA LoggerFaultStep ==
    ASSUME ObserversInv, LoggerWriteFails \/ LoggerDies
    PROVE  ObserversInv'
  <1>1. /\ LinesInv /\ LoggerInv /\ WebInv /\ LoggerTypes /\ daemon \in Daemons
        /\ mishaps \in [faults : 0..MaxFaults, cuts : 0..MaxCuts]
    BY DEF ObserversInv, LinesInv, LoggerInv
  <1>2. /\ link' = [link EXCEPT !["logger"] = NoLink]
        /\ UNCHANGED <<daemon, taken, webVars>>
        /\ PartOfLine /\ mishaps.faults < MaxFaults
        /\ mishaps' = [mishaps EXCEPT !.faults = @ + 1]
    BY DEF LoggerWriteFails, LoggerDies, Disconnected, Fault
  <1>3. /\ mishaps' \in [faults : 0..MaxFaults, cuts : 0..MaxCuts]
        /\ mishaps'.faults = mishaps.faults + 1
    BY <1>1, <1>2, FaultCounted
  <1>4. "logger" \in ObserverNames /\ "web" \in ObserverNames /\ "web" # "logger"
    BY DEF ObserverNames
  <1>5. PathStep(link["logger"], daemon, NoLink, daemon)
    BY <1>1, <1>4, LinkGone DEF LinesInv
  <1>6. LinesInv' /\ link'["logger"] = NoLink /\ link'["web"] = link["web"]
    BY <1>1, <1>2, <1>3, <1>4, <1>5, OneLink DEF PathStep
  <1>7. WebInv'
    BY <1>1, <1>2, <1>6, WebLooksOn
  <1>8. /\ logger' \in [pc : LoggerStates, event : Lines]
        /\ ~(logger'.pc \in {"human", "json"})
    BY FragmentApart DEF LoggerWriteFails, LoggerDies, LoggerStates
  <1>9. TakenInv(link["logger"], daemon)'
    <2>1. \A m \in 1..Len(taken) : taken[m] \in LineEvents
      BY <1>1, ElementOfSeq DEF LoggerTypes
    <2> QED
      BY <1>1, <1>2, <1>5, <1>6, <2>1 DEF LoggerInv, TakenInv, PathStep
  <1>10. HandInv'
    BY <1>8 DEF HandInv
  <1>11. InHand' = 0 /\ InHand \in {0, 1}
         /\ (InHand = 1 <=> logger.pc \in {"human", "json"})
    BY <1>8 DEF InHand
  <1>12. /\ Len(taken) \in Nat /\ Debt(files.json) \in Nat
         /\ HistoryLines = ListedOf(files.json)
         /\ Cardinality(ListedOf(files.json)) \in Nat
         /\ mishaps.faults \in Nat
    BY <1>1, CountTypes
  <1>13. Len(taken) + Debt(files.json)
            <= Cardinality(ListedOf(files.json)) + InHand + 2 * mishaps.faults
    BY <1>1, <1>12 DEF LoggerInv, CountInv
  <1>14. CASE files'.json = files.json /\ files' \in [human : Seq(Entries), json : Seq(Entries)]
                 /\ FilesInv'
    <2>1. LoggerTypes'
      BY <1>1, <1>2, <1>8, <1>14 DEF LoggerTypes
    <2>2. Len(taken) + Debt(files.json)
             <= Cardinality(ListedOf(files.json)) + 0 + 2 * (mishaps.faults + 1)
      <3>1. CASE InHand = 0
        BY <1>12, <1>13, <3>1, CountGoesOn
      <3>2. CASE InHand = 1
        BY <1>12, <1>13, <3>2, CountGoesOn
      <3> QED
        BY <1>11, <3>1, <3>2
    <2>3. HistoryLines' = HistoryLines
      BY <1>14 DEF HistoryLines
    <2>4. CountInv'
      BY <1>2, <1>3, <1>11, <1>12, <1>14, <2>2, <2>3 DEF CountInv
    <2> QED
      BY <1>6, <1>7, <1>9, <1>10, <1>14, <2>1, <2>4 DEF LoggerInv, ObserversInv
  <1>15. CASE UNCHANGED files
    <2>1. FilesInv' /\ files' \in [human : Seq(Entries), json : Seq(Entries)]
      BY <1>1, <1>2, <1>15 DEF LoggerInv, FilesInv, LoggerTypes
    <2> QED
      BY <1>14, <1>15, <2>1
  <1>16. CASE /\ logger.pc \in {"human", "json"}
              /\ \E form \in {"unended", "torn"} : files' = Appended(logger.pc, form)
    <2>1. PICK form \in {"unended", "torn"} : files' = Appended(logger.pc, form)
      BY <1>16
    <2>2. form \in Forms
      BY DEF Forms
    <2>3. /\ files' \in [human : Seq(Entries), json : Seq(Entries)]
          /\ FilesInv'
          /\ logger.pc = "human" => files'.json = files.json
          /\ logger.pc = "json" => \E e \in Entries :
                e.form = form /\ files'.json = Append(files.json, e)
      BY <1>1, <1>2, <1>16, <2>1, <2>2, EntryWritten
    <2>4. CASE logger.pc = "human"
      BY <1>14, <2>3, <2>4
    <2>5. CASE logger.pc = "json"
      <3>1. PICK e \in Entries : files'.json = Append(files.json, e)
        BY <2>3, <2>5
      <3>2. Cardinality(ListedOf(files'.json)) + Debt(files.json) + 1
               >= Cardinality(ListedOf(files.json)) + Debt(files'.json)
        BY <1>1, <3>1, CountAfterAppend DEF LoggerTypes
      <3>3. /\ HistoryLines' = ListedOf(files'.json)
            /\ Cardinality(ListedOf(files'.json)) \in Nat
            /\ Debt(files'.json) \in 0..2
        BY <2>3, ListedFinite DEF HistoryLines, ListedOf
      <3>4. Debt(files'.json) \in Nat
        BY <3>3
      <3>5. Len(taken) + Debt(files'.json)
               <= Cardinality(ListedOf(files'.json)) + 0 + 2 * (mishaps.faults + 1)
        <4>1. InHand = 1
          BY <1>11, <1>16
        <4> QED
          BY <1>12, <1>13, <3>2, <3>3, <3>4, <4>1, CountGoesOn
      <3>6. CountInv'
        BY <1>2, <1>3, <1>11, <3>3, <3>5 DEF CountInv
      <3>7. LoggerTypes'
        BY <1>1, <1>2, <1>8, <2>3 DEF LoggerTypes
      <3> QED
        BY <1>6, <1>7, <1>9, <1>10, <2>3, <3>6, <3>7 DEF LoggerInv, ObserversInv
    <2> QED
      BY <1>16, <2>4, <2>5
  <1> QED
    BY <1>2, <1>15, <1>16 DEF PartOfLine

-----------------------------------------------------------------------------
(***************************************************************************)
(* Observers: the Web UI                                                   *)
(***************************************************************************)

Readers == [pc : ReaderStates, socket : BOOLEAN, targets : SUBSET Browsers,
            record : Records \cup {NoRecord}]
Statuses == {"connecting", "connected", "reconnecting"}
Lives == [generation : Nat, recent : Seq(Records), badJson : Nat, status : Statuses]

LEMMA StatusSet ==
    ASSUME NEW v \in Lives, NEW s \in Statuses, NEW w, w = [v EXCEPT !.status = s]
    PROVE  w \in Lives /\ w.recent = v.recent /\ w.generation = v.generation
  BY DEF Lives

LEMMA GenerationSet ==
    ASSUME NEW N, NEW R, NEW S,
           NEW v \in [generation : N, recent : R, badJson : N, status : S],
           NEW s \in S, NEW g \in N
    PROVE  /\ [v EXCEPT !.status = s, !.generation = g]
                 \in [generation : N, recent : R, badJson : N, status : S]
           /\ [v EXCEPT !.status = s, !.generation = g].recent = v.recent
           /\ [v EXCEPT !.status = s, !.generation = g].generation = g
  OBVIOUS

LEMMA BadJsonCounted ==
    ASSUME NEW v \in Lives, NEW w, w = [v EXCEPT !.badJson = @ + 1]
    PROVE  w \in Lives /\ w.recent = v.recent /\ w.generation = v.generation
  BY DEF Lives

LEMMA RecentSet ==
    ASSUME NEW v \in Lives, NEW q \in Seq(Records), NEW w, w = [v EXCEPT !.recent = q]
    PROVE  w \in Lives /\ w.recent = q /\ w.generation = v.generation
  BY DEF Lives

\* The live state keeps its events and its generation.
LEMMA WebMoves ==
    ASSUME WebInv, WebTypes', live'.recent = live.recent,
           live'.generation = live.generation,
           \/ ~(reader'.pc \in {"reading", "fanout"})
           \/ /\ reader.pc \in {"reading", "fanout"}
              /\ PathStep(link["web"], daemon, link'["web"], daemon')
    PROVE  WebInv'
  <1>1. RecentInv'
    BY DEF WebInv, RecentInv
  <1>2. CurrentInv(link["web"], daemon)'
    BY RecentTypes DEF WebInv, CurrentInv, PathStep
  <1> QED
    BY <1>1, <1>2 DEF WebInv

LEMMA ReaderConnectsStep ==
    ASSUME ObserversInv, ReaderConnects
    PROVE  ObserversInv'
  <1> DEFINE k == [pipe |-> <<>>, open |-> TRUE]
  <1>1. /\ LinesInv /\ LoggerInv /\ WebInv /\ WebTypes /\ daemon \in Daemons /\ daemon.up
        /\ mishaps \in [faults : 0..MaxFaults, cuts : 0..MaxCuts]
    BY DEF ObserversInv, LinesInv, WebInv, ReaderConnects
  <1>2. /\ link' = [link EXCEPT !["web"] = k]
        /\ UNCHANGED <<daemon, stop, live, browser, logVars, mishaps>>
    BY DEF ReaderConnects, Connected
  <1>3. LinkOK(k, daemon)
    BY <1>1, LinkFresh
  <1> HIDE DEF k
  <1>4. "logger" \in ObserverNames /\ "web" \in ObserverNames /\ "web" # "logger"
    BY DEF ObserverNames
  <1>5. LinesInv' /\ link'["logger"] = link["logger"]
    BY <1>1, <1>2, <1>3, <1>4, OneLink
  <1>6. LoggerInv'
    BY <1>1, <1>2, <1>5, LoggerLooksOn
  <1>7. reader'.pc = "accepted" /\ WebTypes'
    BY <1>1, <1>2 DEF ReaderConnects, ReaderMoves, WebTypes, ReaderStates
  <1>8. WebInv'
    BY <1>1, <1>2, <1>7, WebMoves
  <1> QED
    BY <1>5, <1>6, <1>8 DEF ObserversInv

\* A new connection begins a new generation, which has no events yet.
LEMMA ReaderAcceptedStep ==
    ASSUME ObserversInv, ReaderAccepted
    PROVE  ObserversInv'
  <1>1. /\ LinesInv /\ LoggerInv /\ WebInv /\ WebTypes
    BY DEF ObserversInv, WebInv
  <1>2. /\ UNCHANGED <<daemon, link, stop, browser, logVars, mishaps>>
        /\ live' = [live EXCEPT !.status = "connected", !.generation = @ + 1]
    BY DEF ReaderAccepted, NewGeneration
  <1>3. LinesInv' /\ LoggerInv'
    BY <1>1, <1>2, LoggerLooksOn DEF LinesInv
  <1>4. /\ live \in Lives /\ "connected" \in Statuses
        /\ live.generation + 1 \in Nat
    BY <1>1 DEF WebTypes, Lives, Statuses
  <1>5. live' \in Lives /\ live'.recent = live.recent
        /\ live'.generation = live.generation + 1
    <2> DEFINE g == live.generation + 1
    <2>1. live' = [live EXCEPT !.status = "connected", !.generation = g] /\ g \in Nat
      BY <1>2, <1>4
    <2> HIDE DEF g
    <2>2. live' \in Lives /\ live'.recent = live.recent /\ live'.generation = g
      BY <1>4, <2>1, GenerationSet DEF Lives
    <2> QED
      BY <2>2 DEF g
  <1>6. reader' \in Readers /\ reader'.pc = "reading"
    BY <1>1 DEF ReaderAccepted, WebTypes, Readers, ReaderStates
  <1>7. WebTypes'
    BY <1>1, <1>2, <1>5, <1>6 DEF WebTypes, Readers, Lives, Statuses
  <1>8. \A i \in 1..Len(live.recent) :
           live.recent[i].generation < live.generation + 1
    <2>1. \A i \in 1..Len(live.recent) :
             /\ live.recent[i].generation \in Nat /\ live.generation \in Nat
             /\ live.recent[i].generation <= live.generation
      BY <1>1, RecentTypes DEF WebInv, RecentInv
    <2> QED
      BY <2>1
  <1>9. \A i \in 1..Len(live.recent) :
           /\ live.recent[i].generation # live.generation + 1
           /\ live.recent[i].generation <= live.generation + 1
    BY <1>1, <1>8, RecentTypes
  <1>10. RecentInv'
    BY <1>1, <1>5, <1>9 DEF WebInv, RecentInv
  <1>11. CurrentInv(link["web"], daemon)'
    BY <1>5, <1>9 DEF CurrentInv
  <1> QED
    BY <1>3, <1>7, <1>10, <1>11 DEF WebInv, ObserversInv

LEMMA ReaderFailsStep ==
    ASSUME ObserversInv, ReaderFails
    PROVE  ObserversInv'
  <1>1. /\ LinesInv /\ LoggerInv /\ WebInv /\ WebTypes /\ daemon \in Daemons
        /\ mishaps \in [faults : 0..MaxFaults, cuts : 0..MaxCuts]
    BY DEF ObserversInv, LinesInv, WebInv
  <1>2. /\ link' = [link EXCEPT !["web"] = NoLink]
        /\ UNCHANGED <<daemon, stop, browser, logVars, mishaps>>
    BY DEF ReaderFails, Disconnected
  <1>3. LinkOK(NoLink, daemon)
    BY <1>1, LinkFresh DEF NoLink
  <1>4. "logger" \in ObserverNames /\ "web" \in ObserverNames /\ "web" # "logger"
    BY DEF ObserverNames
  <1>5. LinesInv' /\ link'["logger"] = link["logger"]
    BY <1>1, <1>2, <1>3, <1>4, OneLink
  <1>6. LoggerInv'
    BY <1>1, <1>2, <1>5, LoggerLooksOn
  <1>7. /\ live \in Lives /\ "reconnecting" \in Statuses
    BY <1>1 DEF WebTypes, Lives, Statuses
  <1>8. live' \in Lives /\ live'.recent = live.recent /\ live'.generation = live.generation
    <2>1. live' = live \/ live' = [live EXCEPT !.status = "reconnecting"]
      BY DEF ReaderFails, SetStatus
    <2> QED
      BY <1>7, <2>1, StatusSet
  <1>9. reader' \in Readers /\ reader'.pc \in {"ended", "waiting"}
    BY <1>1 DEF ReaderFails, WebTypes, Readers, ReaderStates
  <1>10. WebTypes'
    BY <1>1, <1>2, <1>8, <1>9 DEF WebTypes, Readers, Lives, Statuses
  <1>11. WebInv'
    BY <1>1, <1>8, <1>9, <1>10, WebMoves
  <1> QED
    BY <1>5, <1>6, <1>11 DEF ObserversInv

LEMMA ReaderWaitedStep ==
    ASSUME ObserversInv, ReaderWaited
    PROVE  ObserversInv'
  <1>1. /\ LinesInv /\ LoggerInv /\ WebInv /\ WebTypes
    BY DEF ObserversInv, WebInv
  <1>2. UNCHANGED <<daemon, link, stop, browser, logVars, mishaps>>
    BY DEF ReaderWaited
  <1>3. LinesInv' /\ LoggerInv'
    BY <1>1, <1>2, LoggerLooksOn DEF LinesInv
  <1>4. /\ live \in Lives /\ "connecting" \in Statuses
    BY <1>1 DEF WebTypes, Lives, Statuses
  <1>5. live' \in Lives /\ live'.recent = live.recent /\ live'.generation = live.generation
    <2>1. live' = live \/ live' = [live EXCEPT !.status = "connecting"]
      BY DEF ReaderWaited, SetStatus
    <2> QED
      BY <1>4, <2>1, StatusSet
  <1>6. reader' \in Readers /\ reader'.pc \in {"ended", "connecting"}
    BY <1>1 DEF ReaderWaited, ReaderMoves, WebTypes, Readers, ReaderStates
  <1>7. WebTypes'
    BY <1>1, <1>2, <1>5, <1>6 DEF WebTypes, Readers, Lives, Statuses
  <1>8. WebInv'
    BY <1>1, <1>5, <1>6, <1>7, WebMoves
  <1> QED
    BY <1>3, <1>8 DEF ObserversInv

\* A record goes to the queues of the browsers.
LEMMA PutRecordStep ==
    ASSUME ObserversInv, NEW b \in Browsers, PutRecord(b)
    PROVE  ObserversInv'
  <1>1. /\ LinesInv /\ LoggerInv /\ WebInv /\ WebTypes
    BY DEF ObserversInv, WebInv
  <1>2. UNCHANGED <<daemon, link, stop, live, logVars, mishaps>>
    BY DEF PutRecord
  <1>3. LinesInv' /\ LoggerInv'
    BY <1>1, <1>2, LoggerLooksOn DEF LinesInv
  <1>4. /\ reader.pc = "fanout" /\ reader.record \in Records
        /\ reader' = [reader EXCEPT !.targets = @ \ {b}]
    BY <1>1 DEF PutRecord, ReaderAt, WebTypes
  <1>5. /\ reader' \in Readers /\ reader'.pc = "fanout" /\ reader'.record = reader.record
    BY <1>1, <1>4 DEF WebTypes, Readers
  <1> DEFINE q == browser[b].queue
             q2 == IF RoomFor(b) /\ b \in Subscribed THEN Append(q, reader.record) ELSE q
  <1>6. /\ q \in Seq(Records) /\ Len(q) \in Nat /\ Len(q) <= SseCapacity
        /\ browser[b] \in [pc : {"off", "open", "writing", "gone"}, queue : Seq(Records)]
    BY <1>1, LenProperties DEF WebTypes
  <1>7. q2 \in Seq(Records) /\ Len(q2) <= SseCapacity
    BY <1>4, <1>6, AppendProperties, ObserverConstants DEF RoomFor
  <1>8. browser' = [browser EXCEPT ![b].queue = q2]
    BY DEF PutRecord
  <1> HIDE DEF q2
  <1>9. /\ browser' \in [Browsers -> [pc : {"off", "open", "writing", "gone"},
                                      queue : Seq(Records)]]
        /\ \A c \in Browsers : browser'[c].queue = IF c = b THEN q2 ELSE browser[c].queue
    BY <1>1, <1>6, <1>7, <1>8 DEF WebTypes
  <1>10. WebTypes'
    BY <1>1, <1>2, <1>4, <1>5, <1>7, <1>9 DEF WebTypes, Readers
  <1>11. LinkOK(link["web"], daemon)
    BY <1>1 DEF LinesInv, ObserverNames
  <1>12. PathStep(link["web"], daemon, link'["web"], daemon')
    BY <1>2, <1>11, LinkStays
  <1>13. WebInv'
    BY <1>1, <1>2, <1>4, <1>10, <1>12, WebMoves
  <1> QED
    BY <1>3, <1>13 DEF ObserversInv

LEMMA PublishedToAllStep ==
    ASSUME ObserversInv, PublishedToAll
    PROVE  ObserversInv'
  <1>1. /\ LinesInv /\ LoggerInv /\ WebInv /\ WebTypes
    BY DEF ObserversInv, WebInv
  <1>2. UNCHANGED <<daemon, link, stop, live, browser, logVars, mishaps>>
    BY DEF PublishedToAll
  <1>3. LinesInv' /\ LoggerInv'
    BY <1>1, <1>2, LoggerLooksOn DEF LinesInv
  <1>4. reader' \in Readers /\ reader'.pc = "reading" /\ reader.pc = "fanout"
    BY <1>1 DEF PublishedToAll, ReaderAt, WebTypes, Readers, ReaderStates
  <1>5. WebTypes'
    BY <1>1, <1>2, <1>4 DEF WebTypes, Readers
  <1>6. PathStep(link["web"], daemon, link'["web"], daemon')
    BY <1>1, <1>2, LinkStays DEF LinesInv, ObserverNames
  <1>7. WebInv'
    BY <1>1, <1>2, <1>4, <1>5, <1>6, WebMoves
  <1> QED
    BY <1>3, <1>7 DEF ObserversInv

LEMMA StopReaderStep ==
    ASSUME ObserversInv, StopReader
    PROVE  ObserversInv'
  <1>1. /\ LinesInv /\ LoggerInv /\ WebInv /\ WebTypes /\ daemon \in Daemons
        /\ mishaps \in [faults : 0..MaxFaults, cuts : 0..MaxCuts]
        /\ link \in [ObserverNames -> Links]
    BY DEF ObserversInv, LinesInv, WebInv
  <1>2. UNCHANGED <<daemon, reader, live, browser, logVars, mishaps>> /\ stop' = TRUE
    BY DEF StopReader
  <1>3. "logger" \in ObserverNames /\ "web" \in ObserverNames /\ "web" # "logger"
    BY DEF ObserverNames
  <1>4. LinkOK(link["web"], daemon)
    BY <1>1, <1>3 DEF LinesInv
  <1>5. \E k : /\ link' = [link EXCEPT !["web"] = k]
               /\ PathStep(link["web"], daemon, k, daemon)
    <2>1. CASE reader.socket
      BY <1>1, <1>4, <2>1, LinkGone DEF StopReader, Disconnected
    <2>2. CASE ~reader.socket
      <3>1. link' = [link EXCEPT !["web"] = link["web"]]
        BY <1>1, <2>2 DEF StopReader
      <3> QED
        BY <1>4, <3>1, LinkStays
    <2> QED
      BY <2>1, <2>2
  <1>6. PICK k : /\ link' = [link EXCEPT !["web"] = k]
                 /\ PathStep(link["web"], daemon, k, daemon)
    BY <1>5
  <1>7. LinesInv' /\ link'["web"] = k /\ link'["logger"] = link["logger"]
    BY <1>1, <1>2, <1>3, <1>6, OneLink DEF PathStep
  <1>8. LoggerInv'
    BY <1>1, <1>2, <1>7, LoggerLooksOn
  <1>9. WebTypes'
    BY <1>1, <1>2 DEF WebTypes
  <1>10. WebInv'
    BY <1>1, <1>2, <1>6, <1>7, <1>9, WebMoves
  <1> QED
    BY <1>7, <1>8, <1>10 DEF ObserversInv

LEMMA BrowserStep ==
    ASSUME ObserversInv, NEW b \in Browsers,
           BrowserOpens(b) \/ StreamTakes(b) \/ StreamWrites(b) \/ StreamFails(b)
    PROVE  ObserversInv'
  <1> DEFINE Streams == [pc : {"off", "open", "writing", "gone"}, queue : Seq(Records)]
  <1>1. /\ LinesInv /\ LoggerInv /\ WebInv /\ WebTypes
        /\ browser \in [Browsers -> Streams]
        /\ browser[b] \in Streams /\ browser[b].queue \in Seq(Records)
        /\ Len(browser[b].queue) \in Nat /\ Len(browser[b].queue) <= SseCapacity
    BY LenProperties DEF ObserversInv, WebInv, WebTypes
  <1>2. UNCHANGED <<daemon, link, reader, stop, live, logVars, mishaps>>
    BY DEF BrowserOpens, StreamTakes, StreamWrites, StreamFails
  <1>3. LinesInv' /\ LoggerInv'
    BY <1>1, <1>2, LoggerLooksOn DEF LinesInv
  <1>4. \E s \in Streams : browser' = [browser EXCEPT ![b] = s] /\ Len(s.queue) <= SseCapacity
    <2>1. CASE BrowserOpens(b) \/ StreamWrites(b)
      <3>1. [browser[b] EXCEPT !.pc = "open"] \in Streams
            /\ [browser[b] EXCEPT !.pc = "open"].queue = browser[b].queue
        BY <1>1
      <3> QED
        BY <1>1, <2>1, <3>1 DEF BrowserOpens, StreamWrites
    <2>2. CASE StreamTakes(b)
      <3> DEFINE s == [browser[b] EXCEPT !.pc = "writing", !.queue = Tail(@)]
      <3>1. /\ Tail(browser[b].queue) \in Seq(Records)
            /\ Len(Tail(browser[b].queue)) = Len(browser[b].queue) - 1
        BY <1>1, <2>2, HeadTailProperties DEF StreamTakes
      <3>2. Len(Tail(browser[b].queue)) <= SseCapacity
        BY <1>1, <3>1, ObserverConstants
      <3>3. s \in Streams /\ s.queue = Tail(browser[b].queue)
        BY <1>1, <3>1
      <3>4. browser' = [browser EXCEPT ![b] = s]
        BY <1>1, <2>2 DEF StreamTakes
      <3> HIDE DEF s
      <3> QED
        BY <3>2, <3>3, <3>4
    <2>3. CASE StreamFails(b)
      <3>1. <<>> \in Seq(Records) /\ Len(<<>>) = 0
        BY EmptySeq
      <3>2. [pc |-> "gone", queue |-> <<>>] \in Streams
        BY <3>1
      <3> QED
        <4> DEFINE s == [pc |-> "gone", queue |-> <<>>]
        <4>1. s \in Streams /\ s.queue = <<>> /\ browser' = [browser EXCEPT ![b] = s]
          BY <2>3, <3>2 DEF StreamFails
        <4>2. Len(s.queue) <= SseCapacity
          BY <3>1, <4>1, ObserverConstants
        <4> HIDE DEF s
        <4> QED
          BY <4>1, <4>2
    <2> QED
      BY <2>1, <2>2, <2>3
  <1>5. /\ browser' \in [Browsers -> Streams]
        /\ \A c \in Browsers : Len(browser'[c].queue) <= SseCapacity
    BY <1>1, <1>4 DEF WebTypes
  <1>6. WebTypes'
    BY <1>1, <1>2, <1>5 DEF WebTypes
  <1>7. PathStep(link["web"], daemon, link'["web"], daemon')
    BY <1>1, <1>2, LinkStays DEF LinesInv, ObserverNames
  <1>8. WebInv'
    BY <1>1, <1>2, <1>6, <1>7, WebMoves
  <1> QED
    BY <1>3, <1>8 DEF ObserversInv

\* A record at the end of the recent events; the oldest goes when they are full.
Kept(q, r) == LET a == Append(q, r)
              IN  IF Len(a) > RecentCapacity THEN Tail(a) ELSE a

\* Sequence p is q with r behind it, without its first d elements.
Shifted(p, q, r, d) ==
    /\ Len(p) = Len(q) + 1 - d
    /\ \A i \in 1..Len(p) : \/ i + d \in 1..Len(q) /\ p[i] = q[i + d]
                            \/ i + d = Len(q) + 1 /\ p[i] = r

LEMMA RecentAppended ==
    ASSUME NEW q \in Seq(Records), Len(q) <= RecentCapacity, NEW r \in Records,
           NEW new, new = Kept(q, r)
    PROVE  /\ new \in Seq(Records) /\ Len(new) <= RecentCapacity
           /\ \E d \in 0..1 : Shifted(new, q, r, d)
  <1> DEFINE a == Append(q, r)
  <1>1. Len(q) \in Nat /\ new = IF Len(a) > RecentCapacity THEN Tail(a) ELSE a
    BY LenProperties DEF Kept
  <1>2. /\ a \in Seq(Records) /\ Len(a) = Len(q) + 1 /\ a # <<>>
        /\ \A i \in 1..Len(q) : a[i] = q[i]
        /\ a[Len(q) + 1] = r
    BY AppendProperties
  <1> HIDE DEF a
  <1>3. CASE Len(a) > RecentCapacity
    <2>1. /\ new \in Seq(Records) /\ Len(new) = Len(a) - 1
          /\ \A i \in 1..Len(new) : new[i] = a[i + 1]
      BY <1>1, <1>2, <1>3, HeadTailProperties
    <2>2. Len(new) = Len(q) + 1 - 1 /\ 1 \in 0..1 /\ Len(new) <= RecentCapacity
      BY <1>1, <1>2, <2>1
    <2>3. \A i \in 1..Len(new) :
             \/ i + 1 \in 1..Len(q) /\ new[i] = q[i + 1]
             \/ i + 1 = Len(q) + 1 /\ new[i] = r
      BY <1>1, <1>2, <2>1
    <2>4. Shifted(new, q, r, 1)
      BY <2>2, <2>3 DEF Shifted
    <2> QED
      BY <2>1, <2>2, <2>4
  <1>4. CASE ~(Len(a) > RecentCapacity)
    <2>1. /\ new = a /\ Len(new) = Len(q) + 1 - 0 /\ 0 \in 0..1
          /\ Len(new) <= RecentCapacity
      BY <1>1, <1>2, <1>4, ObserverConstants
    <2>2. \A i \in 1..Len(new) :
             \/ i + 0 \in 1..Len(q) /\ new[i] = q[i + 0]
             \/ i + 0 = Len(q) + 1 /\ new[i] = r
      BY <1>1, <1>2, <2>1
    <2>3. Shifted(new, q, r, 0)
      BY <2>1, <2>2 DEF Shifted
    <2> QED
      BY <1>2, <2>1, <2>3
  <1> QED
    BY <1>3, <1>4

\* The event the reader publishes is later than those of its generation.
LEMMA EventPublished ==
    ASSUME LinesInv, WebInv, reader.pc = "reading", NEW event \in LineEvents,
           Published(event), UNCHANGED <<daemon, stop, browser>>,
           PathStep(link["web"], daemon, link'["web"], daemon),
           CameOver(event, link'["web"], daemon),
           \A e \in LineEvents :
               CameOver(e, link["web"], daemon) => e.seq < event.seq
    PROVE  WebInv'
  <1> DEFINE r == [generation |-> live.generation, event |-> event]
             new == Kept(live.recent, r)
  <1>1. /\ live.recent \in Seq(Records) /\ Len(live.recent) \in Nat
        /\ live.generation \in Nat /\ Len(live.recent) <= RecentCapacity
        /\ \A i \in 1..Len(live.recent) :
              /\ live.recent[i] \in Records /\ live.recent[i].generation \in Nat
              /\ live.recent[i].event \in LineEvents
    BY RecentTypes DEF WebInv, WebTypes
  <1>2. r \in Records /\ r.generation = live.generation /\ r.event = event
    BY <1>1 DEF Records
  <1>3. /\ live' = [live EXCEPT !.recent = new]
        /\ reader' = [reader EXCEPT !.pc = "fanout", !.record = r,
                                    !.targets = Subscribed]
    BY DEF Published, Kept
  <1> HIDE DEF r
  <1>4. /\ new \in Seq(Records) /\ Len(new) <= RecentCapacity
        /\ \E d \in 0..1 : Shifted(new, live.recent, r, d)
    BY <1>1, <1>2, RecentAppended
  <1> HIDE DEF new
  <1>5. PICK d \in 0..1 :
              /\ Len(new) = Len(live.recent) + 1 - d
              /\ \A i \in 1..Len(new) :
                    \/ i + d \in 1..Len(live.recent) /\ new[i] = live.recent[i + d]
                    \/ i + d = Len(live.recent) + 1 /\ new[i] = r
    BY <1>4 DEF Shifted
  <1>6. live \in Lives
    BY DEF WebInv, WebTypes, Lives, Statuses
  <1>7. live' \in Lives /\ live'.recent = new /\ live'.generation = live.generation
    BY <1>3, <1>4, <1>6, RecentSet
  <1>8. WebTypes'
    <2>1. Subscribed \in SUBSET Browsers
      BY DEF Subscribed
    <2>2. reader' \in Readers /\ reader'.record \in Records
      BY <1>2, <1>3, <2>1 DEF WebInv, WebTypes, Readers, ReaderStates
    <2> QED
      BY <1>4, <1>7, <2>2 DEF WebInv, WebTypes, Readers, Lives, Statuses
  <1>9. ASSUME NEW i \in 1..Len(live.recent),
               live.recent[i].generation = live.generation
        PROVE  /\ CameOver(live.recent[i].event, link'["web"], daemon)
               /\ live.recent[i].event.seq < event.seq
    <2>1. CameOver(live.recent[i].event, link["web"], daemon)
      BY <1>9 DEF WebInv, CurrentInv
    <2> QED
      BY <1>1, <2>1 DEF PathStep
  <1>10. RecentInv'
    <2>1. \A i \in 1..Len(new) : new[i].generation <= live.generation
      BY <1>1, <1>2, <1>5 DEF WebInv, RecentInv
    <2>2. ASSUME NEW i \in 1..Len(new), NEW j \in 1..Len(new), i < j
          PROVE  \/ new[i].generation < new[j].generation
                 \/ /\ new[i].generation = new[j].generation
                    /\ new[i].event.seq < new[j].event.seq
      <3>1. i + d \in 1..Len(live.recent) /\ new[i] = live.recent[i + d] /\ i + d < j + d
        <4>1. i + d < j + d /\ j + d <= Len(live.recent) + 1
          BY <1>1, <1>5, <2>2
        <4>2. i + d # Len(live.recent) + 1
          BY <1>1, <4>1
        <4> QED
          BY <1>5, <4>1, <4>2
      <3>2. CASE j + d \in 1..Len(live.recent) /\ new[j] = live.recent[j + d]
        BY <3>1, <3>2 DEF WebInv, RecentInv
      <3>3. CASE new[j] = r
        <4>1. live.recent[i + d].generation <= live.generation
          BY <3>1 DEF WebInv, RecentInv
        <4>2. CASE live.recent[i + d].generation = live.generation
          BY <1>2, <1>9, <3>1, <3>3, <4>2
        <4>3. CASE live.recent[i + d].generation # live.generation
          BY <1>1, <1>2, <3>1, <3>3, <4>1, <4>3
        <4> QED
          BY <4>2, <4>3
      <3> QED
        BY <1>5, <3>2, <3>3
    <2> QED
      BY <1>7, <2>1, <2>2 DEF RecentInv
  <1>11. CurrentInv(link["web"], daemon)'
    BY <1>2, <1>5, <1>7, <1>9 DEF CurrentInv
  <1> QED
    BY <1>8, <1>10, <1>11 DEF WebInv

LEMMA ReaderReadsStep ==
    ASSUME ObserversInv, ReaderReads
    PROVE  ObserversInv'
  <1> DEFINE l == link["web"]
             k == [l EXCEPT !.pipe = Tail(@)]
             event == Head(l.pipe)
  <1>1. /\ LinesInv /\ LoggerInv /\ WebInv /\ WebTypes /\ daemon \in Daemons
        /\ mishaps \in [faults : 0..MaxFaults, cuts : 0..MaxCuts]
        /\ l.pipe # <<>> /\ reader.pc = "reading"
    BY DEF ObserversInv, LinesInv, WebInv, ReaderReads, NextLine, ReaderAt
  <1>2. UNCHANGED <<daemon, stop, browser, logVars, mishaps>>
    BY DEF ReaderReads
  <1>3. "logger" \in ObserverNames /\ "web" \in ObserverNames /\ "web" # "logger"
    BY DEF ObserverNames
  <1>4. LinkOK(l, daemon)
    BY <1>1, <1>3 DEF LinesInv
  <1>5. CASE /\ link' = [link EXCEPT !["web"] = NoLink] /\ UNCHANGED live
             /\ reader' = [reader EXCEPT !.pc = "ended", !.socket = FALSE]
    <2>1. LinkOK(NoLink, daemon)
      BY <1>1, LinkFresh DEF NoLink
    <2>2. LinesInv' /\ link'["logger"] = link["logger"]
      BY <1>1, <1>2, <1>3, <1>5, <2>1, OneLink
    <2>3. LoggerInv'
      BY <1>1, <1>2, <2>2, LoggerLooksOn
    <2>4. reader' \in Readers /\ reader'.pc = "ended"
      BY <1>1, <1>5 DEF WebTypes, Readers, ReaderStates
    <2>5. WebTypes'
      BY <1>1, <1>2, <1>5, <2>4 DEF WebTypes, Readers
    <2>6. WebInv'
      BY <1>1, <1>5, <2>4, <2>5, WebMoves
    <2> QED
      BY <2>2, <2>3, <2>6 DEF ObserversInv
  <1>6. CASE /\ link' = [link EXCEPT !["web"] = k]
             /\ IF event # Fragment THEN Published(event)
                ELSE live' = [live EXCEPT !.badJson = @ + 1] /\ UNCHANGED reader
    <2>1. /\ PathStep(l, daemon, k, daemon) /\ event = l.pipe[1] /\ event \in Lines
          /\ event # Fragment =>
                event \in LineEvents /\ CameOver(event, k, daemon)
      BY <1>1, <1>4, LinkRead
    <2>2. 1 \in 1..Len(l.pipe)
      <3>1. l.pipe \in Seq(Lines)
        BY <1>4, OnLink
      <3> QED
        BY <1>1, <3>1, EmptySeq
    <2> HIDE DEF k, event
    <2>3. /\ LinesInv' /\ link'["web"] = k /\ link'["logger"] = link["logger"]
      BY <1>1, <1>2, <1>3, <1>6, <2>1, OneLink DEF PathStep
    <2>4. LoggerInv'
      BY <1>1, <1>2, <2>3, LoggerLooksOn
    <2>5. CASE event # Fragment
      <3>1. \A e \in LineEvents : CameOver(e, l, daemon) => e.seq < event.seq
        BY <2>1, <2>2, <2>5 DEF CameOver
      <3>2. WebInv'
        BY <1>1, <1>2, <1>6, <2>1, <2>3, <2>5, <3>1, EventPublished
      <3> QED
        BY <2>3, <2>4, <3>2 DEF ObserversInv
    <2>6. CASE event = Fragment
      <3>1. live' = [live EXCEPT !.badJson = @ + 1] /\ UNCHANGED reader
        BY <1>6, <2>6
      <3>2. live \in Lives
        BY <1>1 DEF WebTypes, Lives, Statuses
      <3>3. live' \in Lives /\ live'.recent = live.recent
            /\ live'.generation = live.generation
        BY <3>1, <3>2, BadJsonCounted
      <3>4. WebTypes'
        BY <1>1, <1>2, <3>1, <3>3 DEF WebTypes, Lives, Statuses
      <3>5. WebInv'
        BY <1>1, <1>2, <2>1, <2>3, <3>1, <3>3, <3>4, WebMoves
      <3> QED
        BY <2>3, <2>4, <3>5 DEF ObserversInv
    <2> QED
      BY <2>5, <2>6
  <1>7. link' = [link EXCEPT !["web"].pipe = Tail(@)] => link' = [link EXCEPT !["web"] = k]
    BY <1>1, <1>3 DEF LinesInv
  <1> QED
    BY <1>5, <1>6, <1>7 DEF ReaderReads, LineRead, Disconnected

-----------------------------------------------------------------------------
(***************************************************************************)
(* Observers: the theorems                                                 *)
(***************************************************************************)

LEMMA ObserversBegin ==
    ASSUME ObserversInit
    PROVE  ObserversInv
  <1>1. /\ <<>> \in Seq(Lines) /\ <<>> \in Seq(Entries) /\ <<>> \in Seq(Records)
        /\ <<>> \in Seq(LineEvents) /\ Len(<<>>) = 0 /\ DOMAIN <<>> = {}
    <2>1. DOMAIN <<>> = 1..0
      OBVIOUS
    <2> QED
      BY <2>1, EmptySeq
  <1>2. LinesInv
    <2>1. /\ daemon = [up |-> TRUE, run |-> 1, seq |-> 0]
          /\ link = [o \in ObserverNames |-> NoLink]
          /\ mishaps = [faults |-> 0, cuts |-> 0]
      BY DEF ObserversInit
    <2>2. daemon \in Daemons /\ mishaps \in [faults : 0..MaxFaults, cuts : 0..MaxCuts]
      BY <2>1, ObserverConstants DEF Daemons
    <2>3. LinkOK(NoLink, daemon)
      BY <2>2, LinkFresh DEF NoLink
    <2> QED
      BY <2>1, <2>2, <2>3 DEF LinesInv, LinkOK
  <1>3. LoggerInv
    <2>1. /\ files = [human |-> <<>>, json |-> <<>>] /\ taken = <<>>
          /\ mishaps = [faults |-> 0, cuts |-> 0]
          /\ logger \in [pc : LoggerStates, event : Lines]
          /\ logger.pc \in {"connecting", "off"}
      BY FragmentApart DEF ObserversInit, LoggerStates
    <2>2. LoggerTypes /\ HandInv
      BY <1>1, <2>1 DEF LoggerTypes, HandInv
    <2>3. TakenInv(link["logger"], daemon) /\ FilesInv
      BY <1>1, <2>1 DEF TakenInv, FilesInv
    <2>4. CountInv
      <3>1. Debt(files.json) = 0 /\ InHand = 0 /\ mishaps.faults = 0 /\ Len(taken) = 0
        BY <1>1, <2>1 DEF Debt, EndsWhole, InHand
      <3>2. Cardinality(HistoryLines) \in Nat
        BY <2>2, <1>2, CountTypes DEF LinesInv
      <3> QED
        BY <3>1, <3>2 DEF CountInv
    <2> QED
      BY <2>2, <2>3, <2>4 DEF LoggerInv
  <1>4. WebInv
    <2>1. /\ live = [generation |-> 0, status |-> "connecting", recent |-> <<>>,
                     badJson |-> 0]
          /\ browser = [b \in Browsers |-> [pc |-> "off", queue |-> <<>>]]
          /\ stop \in BOOLEAN
          /\ reader \in Readers /\ reader.pc \in {"ended", "connecting"}
      BY DEF ObserversInit, Readers, ReaderStates
    <2>2. live \in Lives /\ live.recent = <<>>
      BY <1>1, <2>1 DEF Lives, Statuses
    <2>3. WebTypes
      <3>1. \A b \in Browsers : browser[b].queue = <<>>
        BY <2>1
      <3>2. browser \in [Browsers -> [pc : {"off", "open", "writing", "gone"},
                                      queue : Seq(Records)]]
        BY <1>1, <2>1
      <3> QED
        BY <1>1, <2>1, <2>2, <3>1, <3>2, ObserverConstants
           DEF WebTypes, Readers, Lives, Statuses
    <2> QED
      BY <1>1, <2>1, <2>2, <2>3 DEF WebInv, RecentInv, CurrentInv
  <1> QED
    BY <1>2, <1>3, <1>4 DEF ObserversInv

LEMMA ObserversStep ==
    ASSUME ObserversInv, [ObserversNext]_observerVars
    PROVE  ObserversInv'
  <1>1. CASE UNCHANGED observerVars
    <2>1. /\ LinesInv /\ LoggerInv /\ WebInv
          /\ UNCHANGED <<daemon, link, logVars, webVars, mishaps>>
      BY <1>1 DEF ObserversInv, observerVars, logVars, webVars
    <2> QED
      BY <2>1, LoggerLooksOn, WebLooksOn DEF ObserversInv, LinesInv
  <1>2. CASE PublishEvent
    BY <1>2, PublishEventStep
  <1>3. CASE DaemonDies
    BY <1>3, DaemonDiesStep
  <1>4. CASE DaemonStarts
    BY <1>4, DaemonStartsStep
  <1>5. CASE \E o \in ObserverNames : HandlerTimesOut(o)
    BY <1>5, HandlerTimesOutStep
  <1>6. CASE LoggerSteps
    BY <1>6, LoggerConnectsStep, LoggerReconnectsStep, LoggerIdleStep, LoggerReadsStep,
       LoggerWritesStep DEF LoggerSteps
  <1>7. CASE LoggerWriteFails \/ LoggerDies
    BY <1>7, LoggerFaultStep
  <1>8. CASE ReaderSteps
    BY <1>8, ReaderConnectsStep, ReaderAcceptedStep, ReaderFailsStep, ReaderWaitedStep,
       ReaderReadsStep, PublishedToAllStep, PutRecordStep DEF ReaderSteps
  <1>9. CASE StopReader
    BY <1>9, StopReaderStep
  <1>10. CASE \E b \in Browsers : BrowserOpens(b) \/ StreamTakes(b)
                                     \/ StreamWrites(b) \/ StreamFails(b)
    BY <1>10, BrowserStep
  <1> QED
    BY <1>1, <1>2, <1>3, <1>4, <1>5, <1>6, <1>7, <1>8, <1>9, <1>10 DEF ObserversNext

\* The invariant behind the theorems on Observers: what a connection delivers
\* is of one life of the daemon and in order, and neither the logger's files
\* nor the live state have seen what is still to come.
THEOREM ObserversInvariant == ObserversSpec => []ObserversInv
  <1>1. ObserversInit => ObserversInv
    BY ObserversBegin
  <1>2. ObserversInv /\ [ObserversNext]_observerVars => ObserversInv'
    BY ObserversStep
  <1> QED
    BY <1>1, <1>2, PTL DEF ObserversSpec

\* Every state of both observers is of its type, and no queue exceeds its
\* capacity.
THEOREM ObserversTypeCorrect == ObserversSpec => []ObserversTypeOK
  <1>1. ObserversInv => ObserversTypeOK
    <2> SUFFICES ASSUME ObserversInv PROVE ObserversTypeOK
      OBVIOUS
    <2>1. LinesInv /\ LoggerTypes /\ WebTypes
      BY DEF ObserversInv, LoggerInv, WebInv
    <2>2. \A o \in ObserverNames : Len(link[o].pipe) <= PipeCapacity + 1
      <3>1. \A o \in ObserverNames : /\ Len(link[o].pipe) \in Nat
                                     /\ Len(link[o].pipe) <= PipeCapacity
        BY <2>1, OnLink DEF LinesInv, LinkOK
      <3> QED
        BY <3>1, ObserverConstants
    <2>3. /\ daemon \in [up : BOOLEAN, run : 1..MaxRuns, seq : 0..MaxSeq]
          /\ link \in [ObserverNames -> [pipe : Seq(LineEvents \cup {Fragment}),
                                         open : BOOLEAN]]
          /\ mishaps \in [faults : 0..MaxFaults, cuts : 0..MaxCuts]
      BY <2>1 DEF LinesInv, Daemons, Links, Lines
    <2> QED
      BY <2>1, <2>2, <2>3 DEF ObserversTypeOK, LoggerTypes, WebTypes, Lines
  <1> QED
    BY <1>1, ObserversInvariant, PTL

\* No two records of the live state share the identity generation:seq, over
\* any number of lives of the daemon and of connections to it.
THEOREM IdentityAlwaysUnique == ObserversSpec => []IdentityUnique
  <1>1. ObserversInv => IdentityUnique
    <2> SUFFICES ASSUME ObserversInv PROVE IdentityUnique
      OBVIOUS
    <2>1. /\ live.recent \in Seq(Records) /\ Len(live.recent) \in Nat
          /\ \A i \in 1..Len(live.recent) :
                /\ live.recent[i].generation \in Nat
                /\ live.recent[i].event.seq \in Nat
      BY RecentTypes DEF ObserversInv, WebInv
    <2>2. DOMAIN live.recent = 1..Len(live.recent)
      BY <2>1, LenProperties
    <2>3. ASSUME NEW i \in 1..Len(live.recent), NEW j \in 1..Len(live.recent), i < j
          PROVE  Identity(live.recent[i]) # Identity(live.recent[j])
      <3>1. \/ live.recent[i].generation < live.recent[j].generation
            \/ live.recent[i].event.seq < live.recent[j].event.seq
        BY <2>3 DEF ObserversInv, WebInv, RecentInv
      <3>2. \/ live.recent[i].generation # live.recent[j].generation
            \/ live.recent[i].event.seq # live.recent[j].event.seq
        BY <2>1, <3>1
      <3> QED
        BY <3>2 DEF Identity
    <2>4. \A i, j \in 1..Len(live.recent) : i # j => i < j \/ j < i
      BY <2>1
    <2> QED
      BY <2>2, <2>3, <2>4 DEF IdentityUnique
  <1> QED
    BY <1>1, ObserversInvariant, PTL

\* The history lists the events the logger took, in order and once, each with
\* its readable line, and any fault costs it at most two of them.
THEOREM HistoryAlwaysFaithful == ObserversSpec => []HistoryFaithful
  <1>1. ObserversInv => HistoryFaithful
    <2> SUFFICES ASSUME ObserversInv PROVE HistoryFaithful
      OBVIOUS
    <2>1. /\ LoggerInv /\ LoggerTypes
          /\ mishaps \in [faults : 0..MaxFaults, cuts : 0..MaxCuts]
      BY DEF ObserversInv, LoggerInv, LinesInv
    <2>2. /\ Len(taken) \in Nat /\ DOMAIN taken = 1..Len(taken)
          /\ \A m \in 1..Len(taken) : taken[m].run \in Nat /\ taken[m].seq \in Nat
      <3>1. taken \in Seq(LineEvents)
        BY <2>1 DEF LoggerTypes
      <3>2. /\ Len(taken) \in Nat /\ DOMAIN taken = 1..Len(taken)
            /\ \A m \in 1..Len(taken) : taken[m] \in LineEvents
        BY <3>1, LenProperties, ElementOfSeq
      <3> QED
        BY <3>2, FragmentApart DEF Lines
    <2>3. \A m, n \in 1..Len(taken) : m < n => Before(taken[m], taken[n])
      BY <2>1 DEF LoggerInv, TakenInv
    <2>4. \A m, n \in 1..Len(taken) :
             Before(taken[m], taken[n]) => taken[m] # taken[n] /\ ~Before(taken[n], taken[m])
      <3>1. ASSUME NEW m \in 1..Len(taken), NEW n \in 1..Len(taken),
                   Before(taken[m], taken[n])
            PROVE  ~Before(taken[n], taken[m])
        BY <2>2, <3>1 DEF Before
      <3> QED
        BY <3>1
    <2>5. \A m, n \in 1..Len(taken) : m < n \/ n < m \/ m = n
      BY <2>2
    <2>6. IsInjective(taken)
      BY <2>2, <2>3, <2>4, <2>5 DEF IsInjective
    <2>7. HistoryLines \subseteq 1..Len(files.json)
      BY <2>1, ListedFinite, CountTypes DEF LoggerTypes
    <2>8. \A i \in 1..Len(files.json) :
             /\ \E m \in 1..Len(taken) : files.json[i].event = taken[m]
             /\ files.json[i].event \in LinesOf(files.human)
      BY <2>1 DEF LoggerInv, FilesInv
    <2>9. \A i, j \in 1..Len(files.json) :
             i < j => Before(files.json[i].event, files.json[j].event)
      BY <2>1 DEF LoggerInv, FilesInv
    <2>10. ASSUME NEW i \in HistoryLines, NEW j \in HistoryLines
           PROVE  \E m, n \in DOMAIN taken :
                     /\ taken[m] = files.json[i].event
                     /\ taken[n] = files.json[j].event
                     /\ i < j => m < n
      <3>1. PICK m \in 1..Len(taken) : files.json[i].event = taken[m]
        BY <2>7, <2>8
      <3>2. PICK n \in 1..Len(taken) : files.json[j].event = taken[n]
        BY <2>7, <2>8
      <3>3. i < j => Before(taken[m], taken[n])
        BY <2>7, <2>9, <3>1, <3>2
      <3>4. i < j => m < n
        BY <2>3, <2>4, <2>5, <3>3
      <3> QED
        BY <2>2, <3>1, <3>2, <3>4
    <2>11. Len(taken) <= Cardinality(HistoryLines) + InHand + 2 * mishaps.faults
      <3>1. /\ Debt(files.json) \in Nat /\ Cardinality(HistoryLines) \in Nat
            /\ mishaps.faults \in Nat
        BY <2>1, CountTypes
      <3>2. InHand \in {0, 1}
        BY DEF InHand
      <3>3. Len(taken) + Debt(files.json)
               <= Cardinality(HistoryLines) + InHand + 2 * mishaps.faults
        BY <2>1 DEF LoggerInv, CountInv
      <3> QED
        BY <2>2, <3>1, <3>2, <3>3
    <2>12. \A i \in HistoryLines : files.json[i].event \in LinesOf(files.human)
      BY <2>7, <2>8
    <2> QED
      BY <2>6, <2>10, <2>11, <2>12 DEF HistoryFaithful
  <1> QED
    BY <1>1, ObserversInvariant, PTL
==============================================================================
