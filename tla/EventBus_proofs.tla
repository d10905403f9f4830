--------------------------- MODULE EventBus_proofs ---------------------------
(***************************************************************************)
(* Proofs about the event bus.                                             *)
(*                                                                         *)
(* EveryDeliveryAccounted is not inductive: it speaks only of publications *)
(* that were made, so it would let a queue hold a delivery of the one to   *)
(* come, which enqueue would then append a second time.  BusInv says it of *)
(* the accounts of a subscription, the sets of publications it waits for,  *)
(* acknowledged and buried, which together are exactly what it is owed.    *)
(* The order of the queues is needed for the accounts (a publication is at *)
(* one position, so taking it off the queue takes it out of the account),  *)
(* and the accounts for the order (what is appended was published last).   *)
(*                                                                         *)
(* Every step is first described by what it does to the accounts:          *)
(* Publishes, Settles or Rests.  From that follow both the invariant and   *)
(* the refinement of DeliveryLedger, whose fates are the accounts.         *)
(***************************************************************************)
EXTENDS EventBus, SequenceTheorems, WellFoundedInduction, TLAPS

-----------------------------------------------------------------------------
(* What the operations on a queue do to it.                                *)

\* A set of natural numbers that is not empty has a least member.
LEMMA LeastMember ==
    ASSUME NEW S \in SUBSET Nat, S # {}
    PROVE  Min(S) \in S
<1>1. \E x \in S : \A y \in S : ~ (<<y, x>> \in OpToRel(<, Nat))
  BY NatLessThanWellFounded, WFMin
<1>2. \A x, y \in Nat : y < x => <<y, x>> \in OpToRel(<, Nat)
  BY DEF OpToRel
<1>3. \E x \in S : \A y \in S : ~ (y < x)
  BY <1>1, <1>2
<1>4. \E x \in S : \A y \in S : x =< y
  BY <1>3
<1> QED
  BY <1>4 DEF Min

\* Removing a position moves what is behind it by one (the eviction of enqueue).
LEMMA RemoveAtFacts ==
    ASSUME NEW S, NEW q \in Seq(S), NEW v \in 1 .. Len(q)
    PROVE  /\ RemoveAt(q, v) \in Seq(S)
           /\ Len(RemoveAt(q, v)) = Len(q) - 1
           /\ \A i \in 1 .. Len(q) - 1 : RemoveAt(q, v)[i] = IF i < v THEN q[i] ELSE q[i + 1]
<1> DEFINE a == SubSeq(q, 1, v - 1)
           b == SubSeq(q, v + 1, Len(q))
<1>1. Len(q) \in Nat /\ \A i \in 1 .. Len(q) : q[i] \in S
  BY LenProperties, ElementOfSeq
<1>2. a \in Seq(S) /\ Len(a) = v - 1 /\ \A i \in 1 .. v - 1 : a[i] = q[i]
  <2>1. \A i \in 1 .. v - 1 : q[i] \in S
    BY <1>1
  <2>2. v - 1 \in Int /\ 1 \in Int
    BY <1>1
  <2> QED BY <1>1, <2>1, <2>2, SubSeqProperties
<1>3. b \in Seq(S) /\ Len(b) = Len(q) - v /\ \A i \in 1 .. Len(q) - v : b[i] = q[v + i]
  <2>1. \A i \in v + 1 .. Len(q) : q[i] \in S
    BY <1>1
  <2>2. v + 1 \in Int /\ Len(q) \in Int
    BY <1>1
  <2> QED BY <1>1, <2>1, <2>2, SubSeqProperties
<1>4. RemoveAt(q, v) = a \o b
  BY DEF RemoveAt
<1> HIDE DEF a, b
<1>5. /\ a \o b \in Seq(S) /\ Len(a \o b) = Len(a) + Len(b)
      /\ \A i \in 1 .. Len(a) + Len(b) : (a \o b)[i] = IF i <= Len(a) THEN a[i] ELSE b[i - Len(a)]
  BY <1>2, <1>3, ConcatProperties
<1> QED
  BY <1>1, <1>2, <1>3, <1>4, <1>5

\* The publications a queue holds deliveries of, and their order.
Pubs(q) == {q[i].pub : i \in DOMAIN q}
InOrder(q) == \A i, j \in DOMAIN q : i < j => q[i].pub < q[j].pub

\* The deliveries of a queue and their publications have their types.
LEMMA PubTypes ==
    ASSUME NEW q \in Seq(Delivery)
    PROVE  \A i \in 1 .. Len(q) : q[i] \in Delivery /\ q[i].pub \in Nat
<1>1. \A i \in 1 .. Len(q) : q[i] \in Delivery
  BY ElementOfSeq
<1> QED
  BY <1>1 DEF Delivery

\* enqueue appends what was published last: the queue stays in order and waits for one
\* publication more.
LEMMA AppendFacts ==
    ASSUME NEW q \in Seq(Delivery), NEW d \in Delivery, InOrder(q), \A n \in Pubs(q) : n < d.pub
    PROVE  /\ Append(q, d) \in Seq(Delivery)
           /\ Len(Append(q, d)) = Len(q) + 1
           /\ Pubs(Append(q, d)) = Pubs(q) \cup {d.pub}
           /\ InOrder(Append(q, d))
<1>1. /\ Append(q, d) \in Seq(Delivery) /\ Len(Append(q, d)) = Len(q) + 1
      /\ \A i \in 1 .. Len(q) : Append(q, d)[i] = q[i]
      /\ Append(q, d)[Len(q) + 1] = d
  BY AppendProperties
<1>2. Len(q) \in Nat /\ DOMAIN q = 1 .. Len(q) /\ DOMAIN Append(q, d) = 1 .. Len(q) + 1
  BY <1>1, LenProperties
<1>3. \A i \in 1 .. Len(q) : q[i] \in Delivery
  BY ElementOfSeq
<1>4. \A i \in 1 .. Len(q) : q[i].pub \in Nat /\ q[i].pub < d.pub
  BY <1>2, <1>3 DEF Pubs, Delivery
<1> HIDE DEF Delivery
<1>5. Pubs(Append(q, d)) = Pubs(q) \cup {d.pub}
  <2>1. \A i \in 1 .. Len(q) + 1 : i \in 1 .. Len(q) \/ i = Len(q) + 1
    BY <1>2
  <2>2. Len(q) + 1 \in 1 .. Len(q) + 1 /\ 1 .. Len(q) \subseteq 1 .. Len(q) + 1
    BY <1>2
  <2> QED BY <1>1, <1>2, <2>1, <2>2 DEF Pubs
<1>6. InOrder(Append(q, d))
  <2> SUFFICES ASSUME NEW i \in 1 .. Len(q) + 1, NEW j \in 1 .. Len(q) + 1, i < j
               PROVE  Append(q, d)[i].pub < Append(q, d)[j].pub
    BY <1>2 DEF InOrder
  <2>1. i \in 1 .. Len(q)
    BY <1>2
  <2>2. CASE j = Len(q) + 1
    BY <1>1, <1>4, <2>1, <2>2
  <2>3. CASE j # Len(q) + 1
    <3>1. j \in 1 .. Len(q)
      BY <1>2, <2>3
    <3> QED BY <1>1, <1>2, <2>1, <3>1 DEF InOrder
  <2> QED BY <2>2, <2>3
<1> QED
  BY <1>1, <1>5, <1>6

\* ack and the dead letters pop the front: the queue stays in order, and waits for all but
\* the oldest publication.
LEMMA TailFacts ==
    ASSUME NEW q \in Seq(Delivery), q # <<>>, InOrder(q)
    PROVE  /\ Head(q) \in Delivery /\ Head(q) = q[1] /\ Head(q).pub \in Pubs(q)
           /\ Tail(q) \in Seq(Delivery) /\ Len(Tail(q)) = Len(q) - 1
           /\ \A i \in 1 .. Len(q) - 1 : Tail(q)[i] = q[i + 1]
           /\ Pubs(Tail(q)) = Pubs(q) \ {Head(q).pub}
           /\ \A n \in Pubs(Tail(q)) : Head(q).pub < n
           /\ InOrder(Tail(q))
<1>1. /\ Head(q) \in Delivery /\ Tail(q) \in Seq(Delivery) /\ Len(Tail(q)) = Len(q) - 1
      /\ \A i \in 1 .. Len(q) - 1 : Tail(q)[i] = q[i + 1]
  BY HeadTailProperties
<1>2. Len(q) \in Nat /\ Len(q) >= 1 /\ DOMAIN q = 1 .. Len(q)
  BY EmptySeq, LenProperties
<1>3. DOMAIN Tail(q) = 1 .. Len(q) - 1
  BY <1>1, LenProperties
<1>4. Head(q) = q[1] /\ 1 \in DOMAIN q
  BY <1>2
<1>5. \A i \in 1 .. Len(q) : q[i].pub \in Nat
  BY PubTypes
<1>6. \A i \in 1 .. Len(q) - 1 : i + 1 \in 1 .. Len(q) /\ 1 < i + 1 /\ q[1].pub < q[i + 1].pub
  <2>1. \A i \in 1 .. Len(q) - 1 : i + 1 \in DOMAIN q /\ 1 < i + 1
    BY <1>2
  <2> QED BY <1>2, <1>4, <2>1 DEF InOrder
<1>7. \A i \in 1 .. Len(q) : i = 1 \/ (i - 1 \in 1 .. Len(q) - 1 /\ (i - 1) + 1 = i)
  BY <1>2
<1>8. Pubs(Tail(q)) = Pubs(q) \ {Head(q).pub}
  <2>1. ASSUME NEW n \in Pubs(Tail(q)) PROVE n \in Pubs(q) /\ n # Head(q).pub
    <3>1. PICK i \in 1 .. Len(q) - 1 : n = q[i + 1].pub
      BY <1>1, <1>3, <2>1 DEF Pubs
    <3>2. n \in Nat /\ q[1].pub \in Nat /\ q[1].pub < n
      BY <1>2, <1>4, <1>5, <1>6, <3>1
    <3> QED BY <1>2, <1>4, <1>6, <3>1, <3>2 DEF Pubs
  <2>2. ASSUME NEW n \in Pubs(q), n # Head(q).pub PROVE n \in Pubs(Tail(q))
    <3>1. PICK i \in 1 .. Len(q) : n = q[i].pub
      BY <1>2 DEF Pubs
    <3>2. i - 1 \in 1 .. Len(q) - 1 /\ (i - 1) + 1 = i
      BY <1>4, <1>7, <2>2, <3>1
    <3> QED BY <1>1, <1>3, <3>1, <3>2 DEF Pubs
  <2> QED BY <2>1, <2>2
<1>9. \A n \in Pubs(Tail(q)) : Head(q).pub < n
  BY <1>1, <1>3, <1>4, <1>6 DEF Pubs
<1>10. InOrder(Tail(q))
  <2> SUFFICES ASSUME NEW i \in 1 .. Len(q) - 1, NEW j \in 1 .. Len(q) - 1, i < j
               PROVE  Tail(q)[i].pub < Tail(q)[j].pub
    BY <1>3 DEF InOrder
  <2>1. i + 1 \in DOMAIN q /\ j + 1 \in DOMAIN q /\ i + 1 < j + 1
    BY <1>2
  <2> QED BY <1>1, <2>1 DEF InOrder
<1> QED
  BY <1>1, <1>4, <1>8, <1>9, <1>10 DEF Pubs

\* An eviction from the middle leaves the order and takes one publication out of the queue.
LEMMA RemoveFacts ==
    ASSUME NEW q \in Seq(Delivery), NEW v \in DOMAIN q, InOrder(q)
    PROVE  /\ RemoveAt(q, v) \in Seq(Delivery) /\ Len(RemoveAt(q, v)) = Len(q) - 1
           /\ \A i \in 1 .. Len(q) - 1 : \E j \in DOMAIN q : RemoveAt(q, v)[i] = q[j]
           /\ Pubs(RemoveAt(q, v)) = Pubs(q) \ {q[v].pub}
           /\ InOrder(RemoveAt(q, v))
<1> DEFINE r == RemoveAt(q, v)
           at(i) == IF i < v THEN i ELSE i + 1
<1>1. Len(q) \in Nat /\ DOMAIN q = 1 .. Len(q)
  BY LenProperties
<1>2. /\ r \in Seq(Delivery) /\ Len(r) = Len(q) - 1
      /\ \A i \in 1 .. Len(q) - 1 : r[i] = q[at(i)]
  <2>1. v \in 1 .. Len(q)
    BY <1>1
  <2> QED BY <2>1, RemoveAtFacts
<1> HIDE DEF r
<1>3. DOMAIN r = 1 .. Len(q) - 1
  BY <1>2, LenProperties
<1>4. \A i \in 1 .. Len(q) : q[i].pub \in Nat
  BY PubTypes
<1>5. \A i \in 1 .. Len(q) - 1 : at(i) \in DOMAIN q /\ at(i) # v
  BY <1>1
<1>6. \A i, j \in 1 .. Len(q) - 1 : i < j => at(i) < at(j)
  BY <1>1
<1>7. \A i \in DOMAIN q : i # v => \E j \in 1 .. Len(q) - 1 : at(j) = i
  <2> SUFFICES ASSUME NEW i \in DOMAIN q, i # v
               PROVE  \E j \in 1 .. Len(q) - 1 : at(j) = i
    OBVIOUS
  <2>1. CASE i < v
    <3>1. i \in 1 .. Len(q) - 1 /\ at(i) = i
      BY <1>1, <2>1
    <3> QED BY <3>1
  <2>2. CASE i > v
    <3>1. i - 1 \in 1 .. Len(q) - 1 /\ at(i - 1) = i
      BY <1>1, <2>2
    <3> QED BY <3>1
  <2> QED BY <1>1, <2>1, <2>2
<1>8. \A i, j \in DOMAIN q : i # j => q[i].pub # q[j].pub
  <2> SUFFICES ASSUME NEW i \in DOMAIN q, NEW j \in DOMAIN q, i # j PROVE q[i].pub # q[j].pub
    OBVIOUS
  <2>1. i < j \/ j < i
    BY <1>1
  <2>2. q[i].pub < q[j].pub \/ q[j].pub < q[i].pub
    BY <2>1 DEF InOrder
  <2>3. q[i].pub \in Nat /\ q[j].pub \in Nat
    BY <1>1, <1>4
  <2> QED BY <2>2, <2>3
<1> HIDE DEF at
<1>9. Pubs(r) = Pubs(q) \ {q[v].pub}
  <2>1. ASSUME NEW n \in Pubs(r) PROVE n \in Pubs(q) /\ n # q[v].pub
    <3>1. PICK i \in 1 .. Len(q) - 1 : n = q[at(i)].pub
      BY <1>2, <1>3 DEF Pubs
    <3> QED BY <1>5, <1>8, <3>1 DEF Pubs
  <2>2. ASSUME NEW n \in Pubs(q), n # q[v].pub PROVE n \in Pubs(r)
    <3>1. PICK i \in DOMAIN q : n = q[i].pub
      BY DEF Pubs
    <3>2. PICK j \in 1 .. Len(q) - 1 : at(j) = i
      BY <1>7, <2>2, <3>1
    <3> QED BY <1>2, <1>3, <3>1, <3>2 DEF Pubs
  <2> QED BY <2>1, <2>2
<1>10. InOrder(r)
  BY <1>2, <1>3, <1>5, <1>6 DEF InOrder
<1> QED
  BY <1>2, <1>5, <1>9, <1>10 DEF r

\* fail_delivery replaces the front by itself with one attempt more: the same publications in
\* the same order.
LEMMA RetryFacts ==
    ASSUME NEW q \in Seq(Delivery), q # <<>>, NEW d \in Delivery, d.pub = q[1].pub
    PROVE  /\ [q EXCEPT ![1] = d] \in Seq(Delivery) /\ Len([q EXCEPT ![1] = d]) = Len(q)
           /\ Pubs([q EXCEPT ![1] = d]) = Pubs(q)
           /\ InOrder(q) => InOrder([q EXCEPT ![1] = d])
<1> DEFINE r == [q EXCEPT ![1] = d]
<1>1. Len(q) \in Nat /\ 1 \in 1 .. Len(q) /\ DOMAIN q = 1 .. Len(q)
  BY EmptySeq, LenProperties
<1>2. r \in Seq(Delivery) /\ Len(r) = Len(q) /\ DOMAIN r = DOMAIN q
  BY <1>1, ExceptSeq
<1>3. \A i \in DOMAIN q : r[i].pub = q[i].pub
  BY <1>1
<1> HIDE DEF r
<1>4. Pubs(r) = Pubs(q) /\ (InOrder(q) => InOrder(r))
  BY <1>2, <1>3 DEF Pubs, InOrder
<1> QED
  BY <1>2, <1>4 DEF r

-----------------------------------------------------------------------------
(* The deliveries of a subscription, by what has become of them.           *)

Waiting(s) == Pubs(queues[s])
Acknowledged(s) == {a.pub : a \in {b \in acked : b.sub = s}}
Buried(s) == {d.pub : d \in {e \in deadLetters : e.sub = s}}
Owed(s) == {n \in DOMAIN publications : s \in publications[n].matched}

\* EveryDeliveryAccounted in terms of these sets: they also say that every delivery
\* is of a publication that was made.
Accounts ==
    \A s \in Subs :
        /\ Waiting(s) \cup Acknowledged(s) \cup Buried(s) = Owed(s)
        /\ Waiting(s) \cap Acknowledged(s) = {}
        /\ Waiting(s) \cap Buried(s) = {}
        /\ Acknowledged(s) \cap Buried(s) = {}

\* The inductive invariant.
BusInv ==
    /\ TypeOK
    /\ QueueInPublicationOrder
    /\ Accounts
    /\ NoOvertaking
    /\ AckedWasHandled
    /\ QueueBounded
    /\ RetriesBounded

\* The facts about the queues of a state that every step lemma starts from.
LEMMA QueueTypes ==
    ASSUME TypeOK, QueueInPublicationOrder, NEW s \in Subs
    PROVE  queues[s] \in Seq(Delivery) /\ InOrder(queues[s])
BY DEF TypeOK, QueueInPublicationOrder, InOrder

\* A subscription that subscribe installed has one of the definitions, with their types.
LEMMA ConfigTypes ==
    ASSUME TypeOK, NEW s \in Subs, Subscribed(s)
    PROVE  subscriptions[s] \in SubConfigs /\ subscriptions[s] \in SubConfig
BY SubAssumption DEF TypeOK, Subscribed

\* Every delivery is of a publication that was made.
LEMMA KnownPubs ==
    ASSUME BusInv, NEW s \in Subs, NEW n \in Waiting(s) \cup Acknowledged(s) \cup Buried(s)
    PROVE  n \in 1 .. Len(publications) /\ n < Len(publications) + 1
<1>1. n \in DOMAIN publications
  BY DEF BusInv, Accounts, Owed
<1>2. DOMAIN publications = 1 .. Len(publications) /\ Len(publications) \in Nat
  BY LenProperties DEF BusInv, TypeOK
<1> QED
  BY <1>1, <1>2

\* What enqueue does to a queue: it grows, or a droppable delivery makes room, or the
\* new delivery is refused.
LEMMA EnqueueFacts ==
    ASSUME TypeOK, QueueInPublicationOrder, NEW s \in Subs, Subscribed(s),
           NEW d \in Delivery, \A n \in Waiting(s) : n < d.pub
    PROVE  LET q == queues[s]
               r == Enqueue(s, d)
           IN  /\ r.queue \in Seq(Delivery)
               /\ InOrder(r.queue)
               /\ \A i \in DOMAIN r.queue : r.queue[i] = d \/ \E j \in DOMAIN q : r.queue[i] = q[j]
               /\ \/ /\ Pubs(r.queue) = Pubs(q) \cup {d.pub}
                     /\ r.dead = {} /\ r.outcome = "enqueued"
                     /\ Len(r.queue) <= subscriptions[s].capacity
                  \/ /\ \E v \in DOMAIN q :
                          /\ CanDropUnderPressure(q[v].lane)
                          /\ Pubs(r.queue) = (Pubs(q) \ {q[v].pub}) \cup {d.pub}
                          /\ r.dead = {DeadLetter(q[v], s, "QueueOverflow")}
                     /\ r.outcome = "dropped"
                     /\ Len(r.queue) = Len(q) /\ q # <<>>
                  \/ /\ r.queue = q
                     /\ r.dead = {DeadLetter(d, s, "QueueOverflow")}
                     /\ r.outcome = IF CanDropUnderPressure(d.lane) THEN "dropped" ELSE "rejected"
<1> DEFINE q == queues[s]
           r == Enqueue(s, d)
           victim == Min(DroppableAt(q))
<1>1. q \in Seq(Delivery) /\ InOrder(q) /\ Len(q) \in Nat /\ DOMAIN q = 1 .. Len(q)
  BY QueueTypes, LenProperties
<1>2. \A n \in Pubs(q) : n < d.pub
  BY DEF Waiting
<1>3. subscriptions[s].capacity \in Nat
  BY ConfigTypes DEF SubConfig
<1>4. CASE HasRoom(s)
  <2>1. r = [queue |-> Append(q, d), dead |-> {}, outcome |-> "enqueued"]
    BY <1>4 DEF Enqueue
  <2>2. /\ Append(q, d) \in Seq(Delivery) /\ Len(Append(q, d)) = Len(q) + 1
        /\ Pubs(Append(q, d)) = Pubs(q) \cup {d.pub} /\ InOrder(Append(q, d))
    BY <1>1, <1>2, AppendFacts
  <2>3. \A i \in DOMAIN Append(q, d) : Append(q, d)[i] = d \/ \E j \in DOMAIN q : Append(q, d)[i] = q[j]
    BY <1>1
  <2>4. Len(q) + 1 <= subscriptions[s].capacity
    BY <1>1, <1>3, <1>4 DEF HasRoom
  <2> HIDE DEF q, r
  <2> QED BY <2>1, <2>2, <2>3, <2>4 DEF q, r
<1>5. CASE ~HasRoom(s) /\ DroppableAt(q) # {}
  <2>1. victim \in DOMAIN q /\ CanDropUnderPressure(q[victim].lane)
    <3>1. DroppableAt(q) \subseteq DOMAIN q /\ DOMAIN q \subseteq Nat
      BY <1>1 DEF DroppableAt
    <3>2. victim \in DroppableAt(q)
      BY <1>5, <3>1, LeastMember
    <3> QED BY <3>2 DEF DroppableAt
  <2> DEFINE left == RemoveAt(q, victim)
  <2>2. /\ left \in Seq(Delivery) /\ Len(left) = Len(q) - 1
        /\ \A i \in 1 .. Len(q) - 1 : \E j \in DOMAIN q : left[i] = q[j]
        /\ Pubs(left) = Pubs(q) \ {q[victim].pub} /\ InOrder(left)
    BY <1>1, <2>1, RemoveFacts
  <2>4. r = [queue |-> Append(left, d), dead |-> {DeadLetter(q[victim], s, "QueueOverflow")},
             outcome |-> "dropped"]
    BY <1>5 DEF Enqueue, Displace, OverflowLetter
  <2> HIDE DEF left, victim
  <2>5. \A n \in Pubs(left) : n < d.pub
    BY <1>2, <2>2
  <2>6. /\ Append(left, d) \in Seq(Delivery) /\ Len(Append(left, d)) = Len(q)
        /\ Pubs(Append(left, d)) = (Pubs(q) \ {q[victim].pub}) \cup {d.pub} /\ InOrder(Append(left, d))
    BY <1>1, <2>2, <2>5, AppendFacts
  <2>7. \A i \in DOMAIN Append(left, d) :
            Append(left, d)[i] = d \/ \E j \in DOMAIN q : Append(left, d)[i] = q[j]
    <3> SUFFICES ASSUME NEW i \in DOMAIN Append(left, d)
                 PROVE  Append(left, d)[i] = d \/ \E j \in DOMAIN q : Append(left, d)[i] = q[j]
      OBVIOUS
    <3>1. i \in 1 .. Len(q) /\ Len(left) = Len(q) - 1
      BY <2>2, <2>6, LenProperties
    <3>2. CASE i = Len(q)
      BY <1>1, <2>2, <3>2, AppendProperties
    <3>3. CASE i # Len(q)
      <4>1. i \in 1 .. Len(q) - 1 /\ Append(left, d)[i] = left[i]
        BY <1>1, <2>2, <3>1, <3>3, AppendProperties
      <4> QED BY <2>2, <4>1
    <3> QED BY <3>2, <3>3
  <2>8. q # <<>>
    BY <2>1
  <2> HIDE DEF q, r
  <2>9. \E v \in DOMAIN q : /\ CanDropUnderPressure(q[v].lane)
                            /\ Pubs(r.queue) = (Pubs(q) \ {q[v].pub}) \cup {d.pub}
                            /\ r.dead = {DeadLetter(q[v], s, "QueueOverflow")}
    BY <2>1, <2>4, <2>6
  <2>10. /\ r.queue \in Seq(Delivery) /\ InOrder(r.queue) /\ Len(r.queue) = Len(q)
         /\ \A i \in DOMAIN r.queue : r.queue[i] = d \/ \E j \in DOMAIN q : r.queue[i] = q[j]
         /\ r.outcome = "dropped"
    BY <2>4, <2>6, <2>7
  <2> QED BY <2>8, <2>9, <2>10 DEF q, r
<1>6. CASE ~HasRoom(s) /\ DroppableAt(q) = {}
  <2>1. r = [queue |-> q, dead |-> {DeadLetter(d, s, "QueueOverflow")},
             outcome |-> IF CanDropUnderPressure(d.lane) THEN "dropped" ELSE "rejected"]
    BY <1>6 DEF Enqueue, OverflowLetter
  <2> HIDE DEF q, r
  <2> QED BY <1>1, <2>1 DEF q, r
<1> QED
  BY <1>4, <1>5, <1>6

-----------------------------------------------------------------------------
(* What a step does to the accounts of the subscriptions.                  *)

Keeps(s) ==
    /\ Waiting(s)' = Waiting(s)
    /\ Acknowledged(s)' = Acknowledged(s)
    /\ Buried(s)' = Buried(s)

\* A matched subscription is served by publication n: its delivery waits, maybe in the
\* place of another one, or is buried at once.
Served(s, n) ==
    /\ Acknowledged(s)' = Acknowledged(s)
    /\ \/ Waiting(s)' = Waiting(s) \cup {n} /\ Buried(s)' = Buried(s)
       \/ \E v \in Waiting(s) :
             /\ Waiting(s)' = (Waiting(s) \ {v}) \cup {n}
             /\ Buried(s)' = Buried(s) \cup {v}
       \/ Waiting(s)' = Waiting(s) /\ Buried(s)' = Buried(s) \cup {n}

PublishesTo(n, m) ==
    /\ n = Len(publications) + 1
    /\ \A s \in Subs : Owed(s)' = IF s \in m THEN Owed(s) \cup {n} ELSE Owed(s)
    /\ \A s \in m : Served(s, n)
    /\ \A s \in Subs \ m : Keeps(s)

Publishes == \E n \in 1 .. MaxPublications, m \in SUBSET Subs : PublishesTo(n, m)

\* The oldest waiting delivery of a subscription is acknowledged or buried.
SettlesOne(s, v) ==
    /\ \A r \in Subs : Owed(r)' = Owed(r) /\ (r # s => Keeps(r))
    /\ Waiting(s)' = Waiting(s) \ {v}
    /\ \A w \in Waiting(s)' : v < w
    /\ \/ Acknowledged(s)' = Acknowledged(s) \cup {v} /\ Buried(s)' = Buried(s)
       \/ Buried(s)' = Buried(s) \cup {v} /\ Acknowledged(s)' = Acknowledged(s)

Settles == \E s \in Subs : \E v \in Waiting(s) : SettlesOne(s, v)

Rests == \A s \in Subs : Owed(s)' = Owed(s) /\ Keeps(s)

\* A step that touches neither queues nor records rests.
LEMMA UnchangedRests ==
    ASSUME UNCHANGED <<queues, deadLetters, acked, publications>>
    PROVE  Rests
BY DEF Rests, Keeps, Owed, Waiting, Acknowledged, Buried

\* NoOvertaking, of the accounts.
InTurn == \A s \in Subs : \A a \in Acknowledged(s), w \in Waiting(s) : a < w

\* It is NoOvertaking indeed.
LEMMA InTurnIsNoOvertaking ==
    ASSUME TypeOK
    PROVE  InTurn <=> NoOvertaking
BY DEF TypeOK, InTurn, NoOvertaking, Acknowledged, Waiting, Pubs

\* The accounts stay right whatever the step.
LEMMA StepKeepsAccounts ==
    ASSUME BusInv, Publishes \/ Settles \/ Rests
    PROVE  Accounts' /\ InTurn'
<1>1. InTurn /\ Accounts
  BY InTurnIsNoOvertaking DEF BusInv
<1>2. Len(publications) \in Nat
  BY LenProperties DEF BusInv, TypeOK
<1>3. CASE Publishes
  <2>1. PICK n \in 1 .. MaxPublications, m \in SUBSET Subs : PublishesTo(n, m)
    BY <1>3 DEF Publishes
  <2> SUFFICES ASSUME NEW s \in Subs
               PROVE  /\ (Waiting(s) \cup Acknowledged(s) \cup Buried(s) = Owed(s))'
                      /\ (Waiting(s) \cap Acknowledged(s) = {})'
                      /\ (Waiting(s) \cap Buried(s) = {})'
                      /\ (Acknowledged(s) \cap Buried(s) = {})'
                      /\ \A a \in Acknowledged(s)', w \in Waiting(s)' : a < w
    BY DEF Accounts, InTurn
  <2>2. \A k \in Waiting(s) \cup Acknowledged(s) \cup Buried(s) : k < n /\ k # n
    <3>1. \A k \in Waiting(s) \cup Acknowledged(s) \cup Buried(s) :
              k \in 1 .. Len(publications) /\ k < Len(publications) + 1
      BY KnownPubs
    <3> QED BY <1>2, <2>1, <3>1 DEF PublishesTo
  <2>3. /\ Waiting(s) \cup Acknowledged(s) \cup Buried(s) = Owed(s)
        /\ Waiting(s) \cap Acknowledged(s) = {}
        /\ Waiting(s) \cap Buried(s) = {}
        /\ Acknowledged(s) \cap Buried(s) = {}
        /\ \A a \in Acknowledged(s), w \in Waiting(s) : a < w
    BY <1>1 DEF Accounts, InTurn
  <2>4. CASE s \notin m
    BY <2>1, <2>3, <2>4 DEF PublishesTo, Keeps
  <2>5. CASE s \in m
    <3>1. Owed(s)' = Owed(s) \cup {n} /\ Served(s, n)
      BY <2>1, <2>5 DEF PublishesTo
    <3>2. Acknowledged(s)' = Acknowledged(s)
      BY <3>1 DEF Served
    <3>3. CASE Waiting(s)' = Waiting(s) \cup {n} /\ Buried(s)' = Buried(s)
      BY <2>2, <2>3, <3>1, <3>2, <3>3
    <3>4. ASSUME NEW v \in Waiting(s), Waiting(s)' = (Waiting(s) \ {v}) \cup {n},
                 Buried(s)' = Buried(s) \cup {v}
          PROVE  /\ (Waiting(s) \cup Acknowledged(s) \cup Buried(s) = Owed(s))'
                 /\ (Waiting(s) \cap Acknowledged(s) = {})'
                 /\ (Waiting(s) \cap Buried(s) = {})'
                 /\ (Acknowledged(s) \cap Buried(s) = {})'
                 /\ \A a \in Acknowledged(s)', w \in Waiting(s)' : a < w
      BY <2>2, <2>3, <3>1, <3>2, <3>4
    <3>5. CASE Waiting(s)' = Waiting(s) /\ Buried(s)' = Buried(s) \cup {n}
      BY <2>2, <2>3, <3>1, <3>2, <3>5
    <3> QED BY <3>1, <3>3, <3>4, <3>5 DEF Served
  <2> QED BY <2>4, <2>5
<1>4. CASE Settles
  <2>0. PICK s \in Subs : \E v \in Waiting(s) : SettlesOne(s, v)
    BY <1>4 DEF Settles
  <2>1. PICK v \in Waiting(s) : SettlesOne(s, v)
    BY <2>0
  <2>2. ASSUME NEW r \in Subs
        PROVE  /\ (Waiting(r) \cup Acknowledged(r) \cup Buried(r) = Owed(r))'
               /\ (Waiting(r) \cap Acknowledged(r) = {})'
               /\ (Waiting(r) \cap Buried(r) = {})'
               /\ (Acknowledged(r) \cap Buried(r) = {})'
               /\ \A a \in Acknowledged(r)', w \in Waiting(r)' : a < w
    <3>1. /\ Waiting(r) \cup Acknowledged(r) \cup Buried(r) = Owed(r)
          /\ Waiting(r) \cap Acknowledged(r) = {}
          /\ Waiting(r) \cap Buried(r) = {}
          /\ Acknowledged(r) \cap Buried(r) = {}
          /\ \A a \in Acknowledged(r), w \in Waiting(r) : a < w
      BY <1>1 DEF Accounts, InTurn
    <3>2. CASE r # s
      BY <2>1, <3>1, <3>2 DEF SettlesOne, Keeps
    <3>3. CASE r = s
      BY <2>1, <3>1, <3>3 DEF SettlesOne
    <3> QED BY <3>2, <3>3
  <2> QED BY <2>2 DEF Accounts, InTurn
<1>5. CASE Rests
  BY <1>1, <1>5 DEF Rests, Keeps, Accounts, InTurn
<1> QED
  BY <1>3, <1>4, <1>5

-----------------------------------------------------------------------------
(* The publications.                                                       *)

\* publish takes a lane from its caller or from the topic's definition, and both are lanes.
LEMMA LaneTypes ==
    ASSUME TypeOK, NEW t \in Topics, NEW option \in PublishLanes, topics[t] # NoTopic
    PROVE  LaneOf(t, option) \in Lanes
BY TopicAssumption, LaneAssumption DEF TypeOK, LaneOf, TopicConfig

\* publish makes a delivery of the next publication, on its first attempt.
LEMMA NewDeliveryFacts ==
    ASSUME TypeOK, NEW e \in Events, NEW lane \in Lanes
    PROVE  /\ NewDelivery(e, lane) \in Delivery
           /\ NewDelivery(e, lane).pub = Len(publications) + 1
           /\ NewDelivery(e, lane).lane = lane
           /\ NewDelivery(e, lane).attempt = 1
           /\ Queued(NewDelivery(e, lane), 0) \in Delivery
<1>1. Len(publications) + 1 \in Nat
  BY LenProperties DEF TypeOK
<1> DEFINE d == NewDelivery(e, lane)
<1>2. d = [pub |-> Len(publications) + 1, event |-> e, lane |-> lane, attempt |-> 1]
  BY DEF NewDelivery
<1>3. Queued(d, 0) = [pub |-> Len(publications) + 1, event |-> e, lane |-> lane, attempt |-> 0]
  BY <1>2 DEF Queued
<1>4. 0 \in 0 .. U16Max /\ 1 \in 0 .. U16Max
  BY DEF U16Max
<1> QED
  BY <1>1, <1>2, <1>3, <1>4 DEF Delivery

\* A dead letter has its type and keeps publication and subscription.
LEMMA DeadLetterFacts ==
    ASSUME NEW d \in Delivery, NEW s \in Subs \cup {NoSub}, NEW reason \in Reasons
    PROVE  /\ DeadLetter(d, s, reason) \in DeadLetterRecord
           /\ DeadLetter(d, s, reason).pub = d.pub
           /\ DeadLetter(d, s, reason).sub = s
BY DEF DeadLetter, Delivery, DeadLetterRecord

\* A publication is owed to the subscriptions it matched.
LEMMA RecordFacts ==
    ASSUME TypeOK, NEW p \in Publication, publications' = Append(publications, p),
           Len(publications) < MaxPublications, NEW n, n = Len(publications) + 1
    PROVE  /\ n \in 1 .. MaxPublications
           /\ publications' \in Seq(Publication)
           /\ DOMAIN publications = 1 .. Len(publications)
           /\ DOMAIN publications' = 1 .. n
           /\ publications'[n] = p
           /\ \A s \in Subs : Owed(s)' = IF s \in p.matched THEN Owed(s) \cup {n} ELSE Owed(s)
<1>2. publications \in Seq(Publication) /\ Len(publications) \in Nat
      /\ DOMAIN publications = 1 .. Len(publications)
  BY LenProperties DEF TypeOK
<1>4. /\ publications' \in Seq(Publication) /\ Len(publications') = n
      /\ \A i \in 1 .. Len(publications) : publications'[i] = publications[i]
      /\ publications'[n] = p
  BY <1>2, AppendProperties
<1>5. DOMAIN publications' = 1 .. n
  BY <1>4, LenProperties
<1>7. \A s \in Subs : Owed(s)' = IF s \in p.matched THEN Owed(s) \cup {n} ELSE Owed(s)
  <2> SUFFICES ASSUME NEW s \in Subs
               PROVE  Owed(s)' = IF s \in p.matched THEN Owed(s) \cup {n} ELSE Owed(s)
    OBVIOUS
  <2>1. Owed(s)' = {i \in 1 .. n : s \in publications'[i].matched}
    BY <1>5 DEF Owed
  <2>2. Owed(s) = {i \in 1 .. Len(publications) : s \in publications[i].matched}
    BY <1>2 DEF Owed
  <2>3. \A i \in 1 .. n : i \in 1 .. Len(publications) \/ i = n
    BY <1>2
  <2>4. n \in 1 .. n /\ n \notin 1 .. Len(publications) /\ 1 .. Len(publications) \subseteq 1 .. n
    BY <1>2
  <2> QED BY <1>4, <2>1, <2>2, <2>3, <2>4
<1>8. n \in 1 .. MaxPublications
  BY <1>2, BoundAssumption
<1> QED
  BY <1>2, <1>4, <1>5, <1>7, <1>8

\* A dead letter of no subscription changes nobody's account.
LEMMA UnroutedPublishes ==
    ASSUME BusInv, NEW e \in Events, NEW t \in Topics, NEW lane \in Lanes,
           NEW reason \in Reasons, Len(publications) < MaxPublications,
           deadLetters' = deadLetters \cup {DeadLetter(Queued(NewDelivery(e, lane), 0), NoSub, reason)},
           Record(e, t, lane, {}, "ok"), UNCHANGED <<topics, subscriptions, queues, handled, acked>>
    PROVE  TypeOK' /\ Publishes
<1> DEFINE d == DeadLetter(Queued(NewDelivery(e, lane), 0), NoSub, reason)
           n == Len(publications) + 1
<1>1. TypeOK
  BY DEF BusInv
<1>2. d \in DeadLetterRecord /\ d.sub = NoSub
  BY <1>1, NewDeliveryFacts, DeadLetterFacts
<1> DEFINE p == [event |-> e, topic |-> t, lane |-> lane, matched |-> {}, result |-> "ok"]
<1>3. /\ n \in 1 .. MaxPublications /\ publications' \in Seq(Publication)
      /\ \A s \in Subs : Owed(s)' = Owed(s)
  <2>1. p \in Publication /\ p.matched = {} /\ publications' = Append(publications, p)
    BY DEF Publication, Record
  <2> HIDE DEF p, n
  <2>2. n = Len(publications) + 1
    BY DEF n
  <2>3. /\ n \in 1 .. MaxPublications /\ publications' \in Seq(Publication)
        /\ \A s \in Subs : Owed(s)' = IF s \in p.matched THEN Owed(s) \cup {n} ELSE Owed(s)
    BY <1>1, <2>1, <2>2, RecordFacts
  <2> QED BY <2>1, <2>3
<1> HIDE DEF d, n
<1>4. deadLetters' = deadLetters \cup {d}
  BY DEF d
<1>5. TypeOK'
  BY <1>1, <1>2, <1>3, <1>4 DEF TypeOK
<1>6. \A s \in Subs : Keeps(s)
  <2> SUFFICES ASSUME NEW s \in Subs PROVE Keeps(s)
    OBVIOUS
  <2>1. {x \in deadLetters' : x.sub = s} = {x \in deadLetters : x.sub = s}
    BY <1>2, <1>4, SubAssumption
  <2>2. Buried(s)' = Buried(s)
    BY <2>1 DEF Buried
  <2> QED BY <2>2 DEF Keeps, Waiting, Acknowledged
<1>7. PublishesTo(n, {})
  BY <1>3, <1>6 DEF PublishesTo, n
<1> QED
  BY <1>3, <1>5, <1>7 DEF Publishes

\* What PublishRouted does to one subscription: the matched ones are served by enqueue.
LEMMA RoutedFacts ==
    ASSUME BusInv, NEW e \in Events, NEW t \in Topics, NEW option \in PublishLanes,
           NEW major, NEW validate, PublishRouted(e, t, option, major, validate),
           NEW d, d = NewDelivery(e, LaneOf(t, option)),
           NEW m, m = Matching(t, LaneOf(t, option))
    PROVE  /\ d \in Delivery /\ d.pub = Len(publications) + 1 /\ d.attempt = 1
           /\ d.lane = LaneOf(t, option) /\ d.lane \in Lanes
           /\ m \in SUBSET Subs
           /\ \A s \in m : /\ Subscribed(s)
                           /\ \A n \in Waiting(s) : n < d.pub
                           /\ queues'[s] = Enqueue(s, d).queue
                           /\ {x \in deadLetters' : x.sub = s}
                                  = {x \in deadLetters : x.sub = s} \cup Enqueue(s, d).dead
           /\ \A s \in Subs \ m : /\ queues'[s] = queues[s]
                                  /\ {x \in deadLetters' : x.sub = s}
                                         = {x \in deadLetters : x.sub = s}
           /\ deadLetters' \subseteq DeadLetterRecord
           /\ queues' = [s \in Subs |-> IF s \in m THEN Enqueue(s, d).queue ELSE queues[s]]
<1> DEFINE served == [s \in m |-> Enqueue(s, d)]
<1>1. TypeOK /\ QueueInPublicationOrder
  BY DEF BusInv
<1>2. LaneOf(t, option) \in Lanes
  BY <1>1, LaneTypes DEF PublishRouted
<1>3. d \in Delivery /\ d.pub = Len(publications) + 1 /\ d.attempt = 1 /\ d.lane = LaneOf(t, option)
  BY <1>1, <1>2, NewDeliveryFacts
<1>4. m \in SUBSET Subs /\ \A s \in m : Subscribed(s)
  BY DEF Matching
<1>5. /\ queues' = [s \in Subs |-> IF s \in m THEN served[s].queue ELSE queues[s]]
      /\ deadLetters' = deadLetters \cup UNION {served[s].dead : s \in m}
  BY DEF PublishRouted
<1>6. queues' = [s \in Subs |-> IF s \in m THEN Enqueue(s, d).queue ELSE queues[s]]
  BY <1>5
<1>7. \A x : x \in deadLetters' <=> x \in deadLetters \/ \E s \in m : x \in Enqueue(s, d).dead
  BY <1>5
<1>8. \A s \in m : \A n \in Waiting(s) : n < d.pub
  BY <1>3, <1>4, KnownPubs
<1>9. ASSUME NEW s \in m, NEW x \in Enqueue(s, d).dead
      PROVE  x.sub = s /\ x \in DeadLetterRecord
  <2>1. s \in Subs /\ Subscribed(s)
    BY <1>4
  <2>2. \A i \in DOMAIN queues[s] : queues[s][i] \in Delivery
    BY <1>1, <2>1, QueueTypes, LenProperties, PubTypes
  <2>3. "QueueOverflow" \in Reasons
    BY DEF Reasons
  <2>4. \/ Enqueue(s, d).dead = {}
        \/ \E v \in DOMAIN queues[s] : Enqueue(s, d).dead = {DeadLetter(queues[s][v], s, "QueueOverflow")}
        \/ Enqueue(s, d).dead = {DeadLetter(d, s, "QueueOverflow")}
    BY <1>1, <1>3, <1>8, <2>1, EnqueueFacts
  <2> QED BY <1>3, <2>1, <2>2, <2>3, <2>4, DeadLetterFacts
<1>10. deadLetters' \subseteq DeadLetterRecord
  BY <1>1, <1>7, <1>9 DEF TypeOK
<1>11. ASSUME NEW s \in Subs
       PROVE  {x \in deadLetters' : x.sub = s}
                  = {x \in deadLetters : x.sub = s} \cup (IF s \in m THEN Enqueue(s, d).dead ELSE {})
  BY <1>7, <1>9
<1>12. \A s \in m : /\ Subscribed(s) /\ \A n \in Waiting(s) : n < d.pub
                    /\ queues'[s] = Enqueue(s, d).queue
                    /\ {x \in deadLetters' : x.sub = s}
                           = {x \in deadLetters : x.sub = s} \cup Enqueue(s, d).dead
  BY <1>4, <1>6, <1>8, <1>11
<1>13. \A s \in Subs \ m : /\ queues'[s] = queues[s]
                           /\ {x \in deadLetters' : x.sub = s} = {x \in deadLetters : x.sub = s}
  BY <1>6, <1>11
<1> QED
  BY <1>2, <1>3, <1>4, <1>6, <1>10, <1>12, <1>13

\* publish with matching subscriptions keeps the queues' part of the invariant and serves
\* every one of them.
LEMMA RoutedPublishes ==
    ASSUME BusInv, NEW e \in Events, NEW t \in Topics, NEW option \in PublishLanes,
           NEW major, NEW validate, PublishRouted(e, t, option, major, validate)
    PROVE  /\ TypeOK' /\ QueueInPublicationOrder' /\ Publishes
           /\ QueueBounded' /\ RetriesBounded'
<1> DEFINE d == NewDelivery(e, LaneOf(t, option))
           m == Matching(t, LaneOf(t, option))
           n == Len(publications) + 1
           served == [s \in m |-> Enqueue(s, d)]
           result == IF Rejected(served) /\ topics[t].protected THEN "rejected" ELSE "ok"
           p == [event |-> e, topic |-> t, lane |-> LaneOf(t, option), matched |-> m,
                 result |-> result]
<1>1. TypeOK /\ QueueInPublicationOrder /\ QueueBounded /\ RetriesBounded
  BY DEF BusInv
<1>2. publications' = Append(publications, p) /\ Len(publications) < MaxPublications
  BY DEF PublishRouted, Record
<1>3. UNCHANGED <<topics, subscriptions, handled, acked>>
  BY DEF PublishRouted
<1>4. result \in {"ok", "rejected"}
  OBVIOUS
<1> HIDE DEF d, m, n, served, result
<1>5. /\ d \in Delivery /\ d.pub = n /\ d.attempt = 1 /\ LaneOf(t, option) \in Lanes
      /\ m \in SUBSET Subs
      /\ \A s \in m : /\ Subscribed(s)
                      /\ \A k \in Waiting(s) : k < d.pub
                      /\ queues'[s] = Enqueue(s, d).queue
                      /\ {x \in deadLetters' : x.sub = s}
                             = {x \in deadLetters : x.sub = s} \cup Enqueue(s, d).dead
      /\ \A s \in Subs \ m : /\ queues'[s] = queues[s]
                             /\ {x \in deadLetters' : x.sub = s}
                                    = {x \in deadLetters : x.sub = s}
      /\ deadLetters' \subseteq DeadLetterRecord
      /\ queues' = [s \in Subs |-> IF s \in m THEN Enqueue(s, d).queue ELSE queues[s]]
  BY RoutedFacts DEF d, m, n
<1>6. p \in Publication /\ p.matched = m
  BY <1>4, <1>5 DEF Publication
<1> HIDE DEF p
<1>7. /\ n \in 1 .. MaxPublications /\ publications' \in Seq(Publication)
      /\ \A s \in Subs : Owed(s)' = IF s \in m THEN Owed(s) \cup {n} ELSE Owed(s)
  BY <1>1, <1>2, <1>6, RecordFacts DEF n
<1>8. ASSUME NEW s \in Subs
      PROVE  /\ queues'[s] \in Seq(Delivery) /\ InOrder(queues'[s])
             /\ queues'[s] # <<>> => \E cfg \in SubConfigs : Len(queues'[s]) <= cfg.capacity
             /\ \A i \in DOMAIN queues'[s] : \/ queues'[s][i].attempt = 1
                                             \/ \E j \in DOMAIN queues[s] : queues'[s][i] = queues[s][j]
  <2>1. CASE s \notin m
    BY <1>1, <1>5, <2>1, QueueTypes DEF QueueBounded
  <2>2. CASE s \in m
    <3>1. /\ queues'[s] = Enqueue(s, d).queue /\ Subscribed(s)
          /\ \A k \in Waiting(s) : k < d.pub
      BY <1>5, <2>2
    <3>2. /\ Enqueue(s, d).queue \in Seq(Delivery) /\ InOrder(Enqueue(s, d).queue)
          /\ \A i \in DOMAIN Enqueue(s, d).queue :
                 Enqueue(s, d).queue[i] = d \/ \E j \in DOMAIN queues[s] : Enqueue(s, d).queue[i] = queues[s][j]
          /\ \/ Len(Enqueue(s, d).queue) <= subscriptions[s].capacity
             \/ Len(Enqueue(s, d).queue) = Len(queues[s]) /\ queues[s] # <<>>
             \/ Enqueue(s, d).queue = queues[s]
      BY <1>1, <1>5, <3>1, EnqueueFacts
    <3>3. subscriptions[s] \in SubConfigs
      BY <1>1, <3>1, ConfigTypes
    <3>4. queues'[s] # <<>> => \E cfg \in SubConfigs : Len(queues'[s]) <= cfg.capacity
      BY <1>1, <3>1, <3>2, <3>3 DEF QueueBounded
    <3> QED BY <1>5, <3>1, <3>2, <3>4
  <2> QED BY <2>1, <2>2
<1>9. TypeOK'
  <2>1. queues' \in [Subs -> Seq(Delivery)]
    BY <1>5, <1>8
  <2> QED BY <1>1, <1>3, <1>5, <1>7, <2>1 DEF TypeOK
<1>10. QueueInPublicationOrder' /\ QueueBounded'
  BY <1>8 DEF QueueInPublicationOrder, InOrder, QueueBounded
<1>11. RetriesBounded'
  BY <1>1, <1>8 DEF RetriesBounded
<1>12. \A s \in Subs \ m : Keeps(s)
  BY <1>3, <1>5 DEF Keeps, Waiting, Acknowledged, Buried
<1>13. ASSUME NEW s \in m PROVE Served(s, n)
  <2>1. /\ queues'[s] = Enqueue(s, d).queue /\ Subscribed(s) /\ s \in Subs
        /\ \A k \in Waiting(s) : k < d.pub
        /\ {x \in deadLetters' : x.sub = s} = {x \in deadLetters : x.sub = s} \cup Enqueue(s, d).dead
    BY <1>5
  <2>2. Acknowledged(s)' = Acknowledged(s)
    BY <1>3 DEF Acknowledged
  <2>3. Waiting(s)' = Pubs(Enqueue(s, d).queue)
    BY <2>1 DEF Waiting
  <2>4. Buried(s)' = Buried(s) \cup {x.pub : x \in Enqueue(s, d).dead}
    BY <2>1 DEF Buried
  <2>5. \A v \in DOMAIN queues[s] : queues[s][v] \in Delivery /\ queues[s][v].pub \in Waiting(s)
    BY <1>1, <2>1, QueueTypes, LenProperties, PubTypes DEF Waiting, Pubs
  <2>6. \/ /\ Pubs(Enqueue(s, d).queue) = Waiting(s) \cup {d.pub}
           /\ Enqueue(s, d).dead = {}
        \/ \E v \in DOMAIN queues[s] :
              /\ Pubs(Enqueue(s, d).queue) = (Waiting(s) \ {queues[s][v].pub}) \cup {d.pub}
              /\ Enqueue(s, d).dead = {DeadLetter(queues[s][v], s, "QueueOverflow")}
        \/ /\ Enqueue(s, d).queue = queues[s]
           /\ Enqueue(s, d).dead = {DeadLetter(d, s, "QueueOverflow")}
    BY <1>1, <1>5, <2>1, EnqueueFacts DEF Waiting
  <2>7. "QueueOverflow" \in Reasons
    BY DEF Reasons
  <2>8. CASE /\ Pubs(Enqueue(s, d).queue) = Waiting(s) \cup {d.pub}
             /\ Enqueue(s, d).dead = {}
    BY <1>5, <2>2, <2>3, <2>4, <2>8 DEF Served
  <2>9. ASSUME NEW v \in DOMAIN queues[s],
               Pubs(Enqueue(s, d).queue) = (Waiting(s) \ {queues[s][v].pub}) \cup {d.pub},
               Enqueue(s, d).dead = {DeadLetter(queues[s][v], s, "QueueOverflow")}
        PROVE  Served(s, n)
    <3>1. Buried(s)' = Buried(s) \cup {queues[s][v].pub}
      BY <2>1, <2>4, <2>5, <2>7, <2>9, DeadLetterFacts
    <3> QED BY <1>5, <2>2, <2>3, <2>5, <2>9, <3>1 DEF Served
  <2>10. CASE /\ Enqueue(s, d).queue = queues[s]
              /\ Enqueue(s, d).dead = {DeadLetter(d, s, "QueueOverflow")}
    <3>1. Buried(s)' = Buried(s) \cup {d.pub}
      BY <1>5, <2>1, <2>4, <2>7, <2>10, DeadLetterFacts
    <3> QED BY <1>5, <2>2, <2>3, <2>10, <3>1 DEF Served, Waiting
  <2> QED BY <2>6, <2>8, <2>9, <2>10
<1>14. Publishes
  <2>1. PublishesTo(n, m)
    BY <1>7, <1>12, <1>13 DEF PublishesTo, n
  <2> QED BY <1>5, <1>7, <2>1 DEF Publishes
<1> QED
  BY <1>9, <1>10, <1>11, <1>14

-----------------------------------------------------------------------------
(* The answers of the subscribers.                                         *)

\* The front of a queue is taken off.
LEMMA FrontTaken ==
    ASSUME BusInv, NEW s \in Subs, queues[s] # <<>>, queues' = [queues EXCEPT ![s] = Tail(@)]
    PROVE  /\ queues' \in [Subs -> Seq(Delivery)]
           /\ QueueInPublicationOrder' /\ QueueBounded' /\ RetriesBounded'
           /\ Head(queues[s]) \in Delivery /\ Head(queues[s]).pub \in Waiting(s)
           /\ Waiting(s)' = Waiting(s) \ {Head(queues[s]).pub}
           /\ \A w \in Waiting(s)' : Head(queues[s]).pub < w
           /\ \A r \in Subs : r # s => Waiting(r)' = Waiting(r)
<1> DEFINE q == queues[s]
<1>1. TypeOK /\ QueueInPublicationOrder /\ QueueBounded /\ RetriesBounded
  BY DEF BusInv
<1>2. \A r \in Subs : queues[r] \in Seq(Delivery) /\ InOrder(queues[r])
  BY <1>1, QueueTypes
<1>3. /\ Head(q) \in Delivery /\ Head(q).pub \in Pubs(q)
      /\ Tail(q) \in Seq(Delivery) /\ Len(Tail(q)) = Len(q) - 1
      /\ \A i \in 1 .. Len(q) - 1 : Tail(q)[i] = q[i + 1]
      /\ Pubs(Tail(q)) = Pubs(q) \ {Head(q).pub}
      /\ \A n \in Pubs(Tail(q)) : Head(q).pub < n
      /\ InOrder(Tail(q))
  BY <1>2, TailFacts
<1>4. queues'[s] = Tail(q) /\ \A r \in Subs : r # s => queues'[r] = queues[r]
  BY <1>1 DEF TypeOK
<1>5. queues' \in [Subs -> Seq(Delivery)]
  BY <1>1, <1>3 DEF TypeOK
<1>6. QueueInPublicationOrder'
  BY <1>2, <1>3, <1>4 DEF QueueInPublicationOrder, InOrder
<1>7. Len(q) \in Nat /\ DOMAIN q = 1 .. Len(q)
  BY <1>2, LenProperties
<1>8. QueueBounded'
  <2>1. PICK cfg \in SubConfigs : Len(q) <= cfg.capacity
    BY <1>1 DEF QueueBounded
  <2>2. cfg.capacity \in Nat
    BY SubAssumption DEF SubConfig
  <2>3. Len(Tail(q)) <= cfg.capacity
    BY <1>3, <1>7, <2>1, <2>2
  <2> QED BY <1>1, <1>4, <2>3 DEF QueueBounded
<1>9. RetriesBounded'
  <2>1. DOMAIN Tail(q) = 1 .. Len(q) - 1
    BY <1>3, LenProperties
  <2>2. \A i \in DOMAIN Tail(q) : i + 1 \in DOMAIN q /\ Tail(q)[i] = q[i + 1]
    BY <1>3, <1>7, <2>1
  <2>3. \A i \in DOMAIN Tail(q) : \/ Tail(q)[i].attempt = 1
                                  \/ \E cfg \in SubConfigs : Tail(q)[i].attempt < cfg.maxAttempts
    BY <1>1, <2>2 DEF RetriesBounded
  <2> HIDE DEF q
  <2>4. ASSUME NEW r \in Subs, NEW i \in DOMAIN queues'[r]
        PROVE  \/ queues'[r][i].attempt = 1
               \/ \E cfg \in SubConfigs : queues'[r][i].attempt < cfg.maxAttempts
    BY <1>1, <1>4, <2>3 DEF RetriesBounded
  <2> QED BY <2>4 DEF RetriesBounded
<1> QED
  BY <1>3, <1>4, <1>5, <1>6, <1>8, <1>9 DEF Waiting

\* A dead letter is buried for its subscription.
LEMMA Burial ==
    ASSUME TypeOK, NEW s \in Subs, NEW d \in Delivery, NEW reason \in Reasons,
           deadLetters' = deadLetters \cup {DeadLetter(d, s, reason)}
    PROVE  /\ deadLetters' \subseteq DeadLetterRecord
           /\ Buried(s)' = Buried(s) \cup {d.pub}
           /\ \A r \in Subs : r # s => Buried(r)' = Buried(r)
<1> DEFINE x == DeadLetter(d, s, reason)
<1>1. x \in DeadLetterRecord /\ x.pub = d.pub /\ x.sub = s
  BY DeadLetterFacts
<1> HIDE DEF x
<1>2. deadLetters' = deadLetters \cup {x}
  BY DEF x
<1>3. {y \in deadLetters' : y.sub = s} = {y \in deadLetters : y.sub = s} \cup {x}
  BY <1>1, <1>2
<1>4. \A r \in Subs : r # s => {y \in deadLetters' : y.sub = r} = {y \in deadLetters : y.sub = r}
  BY <1>1, <1>2
<1>5. Buried(s)' = Buried(s) \cup {d.pub}
  BY <1>1, <1>3 DEF Buried
<1>6. \A r \in Subs : r # s => Buried(r)' = Buried(r)
  BY <1>4 DEF Buried
<1> QED
  BY <1>1, <1>2, <1>5, <1>6 DEF TypeOK

\* ack settles the front of a queue.
LEMMA AckSettles ==
    ASSUME BusInv, NEW s \in Subs, NEW e, AckFront(s, e), UNCHANGED publications
    PROVE  /\ queues' \in [Subs -> Seq(Delivery)]
           /\ QueueInPublicationOrder' /\ QueueBounded' /\ RetriesBounded'
           /\ deadLetters' \subseteq DeadLetterRecord
           /\ acked' \subseteq [pub : Nat, sub : Subs, event : Events]
           /\ \A a \in acked' : a \in acked \/ (a.sub = s /\ a.event = Head(queues[s]).event)
           /\ Settles
<1> DEFINE h == Head(queues[s])
           a == [pub |-> h.pub, sub |-> s, event |-> h.event]
<1>1. TypeOK /\ queues[s] # <<>> /\ queues' = [queues EXCEPT ![s] = Tail(@)]
      /\ acked' = acked \cup {a} /\ UNCHANGED deadLetters
  BY DEF BusInv, AckFront
<1>2. /\ queues' \in [Subs -> Seq(Delivery)]
      /\ QueueInPublicationOrder' /\ QueueBounded' /\ RetriesBounded'
      /\ h \in Delivery /\ h.pub \in Waiting(s)
      /\ Waiting(s)' = Waiting(s) \ {h.pub}
      /\ \A w \in Waiting(s)' : h.pub < w
      /\ \A r \in Subs : r # s => Waiting(r)' = Waiting(r)
  BY <1>1, FrontTaken
<1>3. a \in [pub : Nat, sub : Subs, event : Events] /\ a.sub = s /\ a.pub = h.pub /\ a.event = h.event
  BY <1>2 DEF Delivery
<1> HIDE DEF a, h
<1>4. Acknowledged(s)' = Acknowledged(s) \cup {h.pub}
  <2>1. {b \in acked' : b.sub = s} = {b \in acked : b.sub = s} \cup {a}
    BY <1>1, <1>3
  <2> QED BY <1>3, <2>1 DEF Acknowledged
<1>5. \A r \in Subs : r # s => Acknowledged(r)' = Acknowledged(r)
  <2>1. \A r \in Subs : r # s => {b \in acked' : b.sub = r} = {b \in acked : b.sub = r}
    BY <1>1, <1>3
  <2> QED BY <2>1 DEF Acknowledged
<1>6. \A r \in Subs : Owed(r)' = Owed(r) /\ Buried(r)' = Buried(r)
  BY <1>1 DEF Owed, Buried
<1>7. SettlesOne(s, h.pub)
  BY <1>2, <1>4, <1>5, <1>6 DEF SettlesOne, Keeps
<1>8. Settles
  BY <1>2, <1>7 DEF Settles
<1>9. deadLetters' \subseteq DeadLetterRecord /\ acked' \subseteq [pub : Nat, sub : Subs, event : Events]
  BY <1>1, <1>3 DEF TypeOK
<1>10. \A b \in acked' : b \in acked \/ (b.sub = s /\ b.event = h.event)
  BY <1>1, <1>3
<1> QED
  BY <1>2, <1>8, <1>9, <1>10 DEF h

\* A front that is moved to the dead letters is settled.
LEMMA BurySettles ==
    ASSUME BusInv, NEW s \in Subs, NEW d \in Delivery, NEW reason \in Reasons,
           queues[s] # <<>>, d.pub = Head(queues[s]).pub,
           queues' = [queues EXCEPT ![s] = Tail(@)],
           deadLetters' = deadLetters \cup {DeadLetter(d, s, reason)},
           UNCHANGED <<acked, publications>>
    PROVE  /\ queues' \in [Subs -> Seq(Delivery)]
           /\ QueueInPublicationOrder' /\ QueueBounded' /\ RetriesBounded'
           /\ deadLetters' \subseteq DeadLetterRecord
           /\ Settles
<1> DEFINE h == Head(queues[s])
<1>1. /\ queues' \in [Subs -> Seq(Delivery)]
      /\ QueueInPublicationOrder' /\ QueueBounded' /\ RetriesBounded'
      /\ h.pub \in Waiting(s)
      /\ Waiting(s)' = Waiting(s) \ {h.pub}
      /\ \A w \in Waiting(s)' : h.pub < w
      /\ \A r \in Subs : r # s => Waiting(r)' = Waiting(r)
  BY FrontTaken
<1>2. TypeOK
  BY DEF BusInv
<1>3. /\ deadLetters' \subseteq DeadLetterRecord
      /\ Buried(s)' = Buried(s) \cup {h.pub}
      /\ \A r \in Subs : r # s => Buried(r)' = Buried(r)
  BY <1>2, Burial
<1> HIDE DEF h
<1>4. \A r \in Subs : Owed(r)' = Owed(r) /\ Acknowledged(r)' = Acknowledged(r)
  BY DEF Owed, Acknowledged
<1>5. SettlesOne(s, h.pub)
  BY <1>1, <1>3, <1>4 DEF SettlesOne, Keeps
<1> QED
  BY <1>1, <1>3, <1>5 DEF Settles

\* fail_delivery counts an attempt, saturating, and changes nothing else of the delivery.
LEMMA CountAttemptFacts ==
    ASSUME NEW d \in Delivery
    PROVE  CountAttempt(d) \in Delivery /\ CountAttempt(d).pub = d.pub
<1>0. d.attempt \in 0 .. U16Max
  BY DEF Delivery
<1>1. SaturatingInc(d.attempt) \in 0 .. U16Max
  <2>1. U16Max \in Nat
    BY DEF U16Max
  <2> QED BY <1>0, <2>1 DEF SaturatingInc
<1> QED
  BY <1>1 DEF Delivery, CountAttempt, Queued

\* fail_delivery leaves the front where it is or buries it.
LEMMA FailSettles ==
    ASSUME BusInv, NEW s \in Subs, Subscribed(s), NEW e, NEW reason \in Reasons,
           FailFront(s, e, reason), UNCHANGED publications
    PROVE  /\ queues' \in [Subs -> Seq(Delivery)]
           /\ QueueInPublicationOrder' /\ QueueBounded' /\ RetriesBounded'
           /\ deadLetters' \subseteq DeadLetterRecord
           /\ UNCHANGED acked
           /\ Settles \/ Rests
<1> DEFINE q == queues[s]
           h == Head(q)
           failed == CountAttempt(h)
<1>1. /\ TypeOK /\ QueueInPublicationOrder /\ QueueBounded /\ RetriesBounded
      /\ q # <<>> /\ UNCHANGED <<acked, publications>>
  BY DEF BusInv, FailFront
<1>2. q \in Seq(Delivery) /\ InOrder(q)
  BY <1>1, QueueTypes
<1>3. h \in Delivery /\ h = q[1]
  BY <1>1, <1>2, TailFacts
<1>4. failed \in Delivery /\ failed.pub = h.pub
  BY <1>3, CountAttemptFacts
<1>5. CASE MayRetry(s, failed.attempt)
  <2>1. queues' = [queues EXCEPT ![s][1] = failed] /\ UNCHANGED deadLetters
    BY <1>5 DEF FailFront
  <2> HIDE DEF failed, h
  <2> DEFINE r == [q EXCEPT ![1] = failed]
  <2>2. queues' = [queues EXCEPT ![s] = r]
    BY <2>1
  <2>3. r \in Seq(Delivery) /\ Len(r) = Len(q) /\ Pubs(r) = Pubs(q) /\ InOrder(r)
    BY <1>1, <1>2, <1>3, <1>4, RetryFacts
  <2>4. \A i \in DOMAIN r : IF i = 1 THEN r[i] = failed ELSE i \in DOMAIN q /\ r[i] = q[i]
    OBVIOUS
  <2> HIDE DEF r
  <2>5. queues'[s] = r /\ \A x \in Subs : x # s => queues'[x] = queues[x]
    BY <1>1, <2>2 DEF TypeOK
  <2>6. queues' \in [Subs -> Seq(Delivery)]
    BY <1>1, <2>2, <2>3 DEF TypeOK
  <2>7. QueueInPublicationOrder' /\ QueueBounded'
    BY <1>1, <2>3, <2>5 DEF QueueInPublicationOrder, QueueBounded, InOrder
  <2>8. RetriesBounded'
    <3>1. subscriptions[s] \in SubConfigs /\ failed.attempt < subscriptions[s].maxAttempts
      BY <1>1, <1>5, ConfigTypes DEF MayRetry
    <3>2. \A i \in DOMAIN r : \/ r[i].attempt = 1
                              \/ \E cfg \in SubConfigs : r[i].attempt < cfg.maxAttempts
      BY <1>1, <2>4, <3>1 DEF RetriesBounded
    <3>3. ASSUME NEW x \in Subs, NEW i \in DOMAIN queues'[x]
          PROVE  \/ queues'[x][i].attempt = 1
                 \/ \E cfg \in SubConfigs : queues'[x][i].attempt < cfg.maxAttempts
      BY <1>1, <2>5, <3>2 DEF RetriesBounded
    <3> QED BY <3>3 DEF RetriesBounded
  <2>9. Rests
    <3>1. \A x \in Subs : Waiting(x)' = Waiting(x)
      BY <2>3, <2>5 DEF Waiting
    <3>2. \A x \in Subs : /\ Owed(x)' = Owed(x) /\ Buried(x)' = Buried(x)
                          /\ Acknowledged(x)' = Acknowledged(x)
      BY <1>1, <2>1 DEF Owed, Buried, Acknowledged
    <3> QED BY <3>1, <3>2 DEF Rests, Keeps
  <2> QED BY <1>1, <2>1, <2>6, <2>7, <2>8, <2>9 DEF TypeOK
<1>6. CASE ~MayRetry(s, failed.attempt)
  <2>1. /\ queues' = [queues EXCEPT ![s] = Tail(@)]
        /\ deadLetters' = deadLetters \cup {DeadLetter(failed, s, reason)}
    BY <1>6 DEF FailFront
  <2> HIDE DEF failed
  <2> QED BY <1>1, <1>4, <2>1, BurySettles
<1> QED
  BY <1>5, <1>6

-----------------------------------------------------------------------------
(* Every step.                                                             *)

\* What a step establishes, apart from the accounts.
StepGoal ==
    /\ TypeOK' /\ QueueInPublicationOrder' /\ QueueBounded' /\ RetriesBounded'
    /\ AckedWasHandled'
    /\ Publishes \/ Settles \/ Rests

\* The parts of the invariant that speak of the queues alone.
LEMMA UnchangedQueues ==
    ASSUME BusInv, UNCHANGED queues
    PROVE  QueueInPublicationOrder' /\ QueueBounded' /\ RetriesBounded'
BY DEF BusInv, QueueInPublicationOrder, QueueBounded, RetriesBounded

\* The three outcomes of publish.
LEMMA PublishStep ==
    ASSUME BusInv, Publish
    PROVE  StepGoal
<1>0. TypeOK /\ AckedWasHandled
  BY DEF BusInv
<1>1. PICK e \in Events, t \in Topics, option \in PublishLanes, major \in Majors :
          \/ PublishIncompatible(e, t, option, major)
          \/ \E validate \in BOOLEAN :
                \/ PublishUnrouted(e, t, option, major, validate)
                \/ PublishRouted(e, t, option, major, validate)
  BY DEF Publish
<1>2. UNCHANGED <<handled, acked>>
  BY <1>1 DEF PublishIncompatible, PublishUnrouted, PublishRouted
<1>3. AckedWasHandled'
  BY <1>0, <1>2 DEF AckedWasHandled
<1>4. CASE PublishIncompatible(e, t, option, major)
  <2>1. /\ LaneOf(t, option) \in Lanes /\ "UnsupportedContractVersion" \in Reasons
        /\ UNCHANGED queues
    BY <1>0, <1>4, LaneTypes DEF PublishIncompatible, Reasons
  <2>2. TypeOK' /\ Publishes
    BY <1>4, <2>1, UnroutedPublishes DEF PublishIncompatible
  <2> QED BY <1>3, <2>1, <2>2, UnchangedQueues DEF StepGoal
<1>5. ASSUME NEW validate \in BOOLEAN, PublishUnrouted(e, t, option, major, validate)
      PROVE  StepGoal
  <2>1. /\ LaneOf(t, option) \in Lanes /\ "NoSubscription" \in Reasons /\ UNCHANGED queues
    BY <1>0, <1>5, LaneTypes DEF PublishUnrouted, Reasons
  <2>2. TypeOK' /\ Publishes
    BY <1>5, <2>1, UnroutedPublishes DEF PublishUnrouted
  <2> QED BY <1>3, <2>1, <2>2, UnchangedQueues DEF StepGoal
<1>6. ASSUME NEW validate \in BOOLEAN, PublishRouted(e, t, option, major, validate)
      PROVE  StepGoal
  BY <1>3, <1>6, RoutedPublishes DEF StepGoal
<1> QED
  BY <1>1, <1>4, <1>5, <1>6

\* register_topic and subscribe touch no queue: a definition inherits it.
LEMMA ConfigureStep ==
    ASSUME BusInv, Configure
    PROVE  StepGoal
<1>1. /\ TypeOK /\ AckedWasHandled
      /\ UNCHANGED <<queues, deadLetters, acked, publications, handled>>
  BY DEF BusInv, Configure, RegisterTopic, Subscribe, callerVars
<1>2. TypeOK'
  <2>1. ASSUME NEW t \in Topics, NEW cfg \in TopicConfigs, RegisterTopic(t, cfg)
        PROVE  topics' \in [Topics -> TopicConfigs \cup {NoTopic}] /\ UNCHANGED subscriptions
    BY <1>1, <2>1 DEF TypeOK, RegisterTopic
  <2>2. ASSUME NEW s \in Subs, NEW cfg \in SubConfigs, Subscribe(s, cfg)
        PROVE  subscriptions' \in [Subs -> SubConfigs \cup {NoConfig}] /\ UNCHANGED topics
    BY <1>1, <2>2 DEF TypeOK, Subscribe
  <2> QED BY <1>1, <2>1, <2>2 DEF Configure, TypeOK
<1> QED
  BY <1>1, <1>2, UnchangedQueues, UnchangedRests DEF StepGoal, AckedWasHandled

\* A subscriber is handed the front of its queue.
LEMMA HandedFront ==
    ASSUME BusInv, NEW s \in Subs, queues[s] # <<>>,
           handled' = [handled EXCEPT ![s] = @ \cup {Head(queues[s]).event}]
    PROVE  /\ handled' \in [Subs -> SUBSET Events]
           /\ Head(queues[s]).event \in handled'[s]
           /\ \A r \in Subs : handled[r] \subseteq handled'[r]
<1>1. queues[s] \in Seq(Delivery) /\ InOrder(queues[s]) /\ handled \in [Subs -> SUBSET Events]
  BY QueueTypes DEF BusInv, TypeOK
<1>2. Head(queues[s]).event \in Events
  <2>1. Head(queues[s]) \in Delivery
    BY <1>1, TailFacts
  <2> QED BY <2>1 DEF Delivery
<1> QED
  BY <1>1, <1>2

\* A step that settles or retries the front of a queue, once its event was handed out.
LEMMA AnswerStep ==
    ASSUME BusInv, NEW s \in Subs, Subscribed(s), queues[s] # <<>>,
           UNCHANGED <<topics, subscriptions, publications>>,
           handled' \in [Subs -> SUBSET Events], Head(queues[s]).event \in handled'[s],
           \A r \in Subs : handled[r] \subseteq handled'[r],
           \/ \E e : AckFront(s, e)
           \/ \E e : FailFront(s, e, "HandlerError")
           \/ DispatchedDeadLetter(s)
    PROVE  StepGoal
<1>1. TypeOK /\ AckedWasHandled
  BY DEF BusInv
<1>2. "HandlerError" \in Reasons
  BY DEF Reasons
<1>3. ASSUME UNCHANGED acked PROVE AckedWasHandled'
  BY <1>1, <1>3 DEF AckedWasHandled, TypeOK
<1>4. ASSUME NEW e, AckFront(s, e) PROVE StepGoal
  <2>1. /\ queues' \in [Subs -> Seq(Delivery)]
        /\ QueueInPublicationOrder' /\ QueueBounded' /\ RetriesBounded'
        /\ deadLetters' \subseteq DeadLetterRecord
        /\ acked' \subseteq [pub : Nat, sub : Subs, event : Events]
        /\ \A a \in acked' : a \in acked \/ (a.sub = s /\ a.event = Head(queues[s]).event)
        /\ Settles
    BY <1>4, AckSettles
  <2>2. TypeOK'
    BY <1>1, <2>1 DEF TypeOK
  <2>3. AckedWasHandled'
    BY <1>1, <2>1 DEF AckedWasHandled, TypeOK
  <2> QED BY <2>1, <2>2, <2>3 DEF StepGoal
<1>5. ASSUME NEW e, FailFront(s, e, "HandlerError") PROVE StepGoal
  <2>1. /\ queues' \in [Subs -> Seq(Delivery)]
        /\ QueueInPublicationOrder' /\ QueueBounded' /\ RetriesBounded'
        /\ deadLetters' \subseteq DeadLetterRecord
        /\ UNCHANGED acked
        /\ Settles \/ Rests
    BY <1>2, <1>5, FailSettles
  <2>2. TypeOK'
    BY <1>1, <2>1 DEF TypeOK
  <2> QED BY <1>3, <2>1, <2>2 DEF StepGoal
<1>6. CASE DispatchedDeadLetter(s)
  <2>1. /\ queues' = [queues EXCEPT ![s] = Tail(@)]
        /\ deadLetters' = deadLetters \cup {DeadLetter(Head(queues[s]), s, "HandlerError")}
        /\ UNCHANGED acked
    BY <1>6 DEF DispatchedDeadLetter
  <2>2. Head(queues[s]) \in Delivery
    BY <2>1, FrontTaken
  <2>3. /\ queues' \in [Subs -> Seq(Delivery)]
        /\ QueueInPublicationOrder' /\ QueueBounded' /\ RetriesBounded'
        /\ deadLetters' \subseteq DeadLetterRecord
        /\ Settles
    BY <1>2, <2>1, <2>2, BurySettles
  <2>4. TypeOK'
    BY <1>1, <2>1, <2>3 DEF TypeOK
  <2> QED BY <1>3, <2>1, <2>3, <2>4 DEF StepGoal
<1> QED
  BY <1>4, <1>5, <1>6

\* poll, dispatch_next, ack and fail_delivery.
LEMMA ConsumeStep ==
    ASSUME BusInv, Consume
    PROVE  StepGoal
<1>0. TypeOK /\ AckedWasHandled
  BY DEF BusInv
<1>1. PICK s \in Subs : \/ Poll(s)
                        \/ Dispatch(s)
                        \/ \E e \in Events : Ack(s, e) \/ FailDelivery(s, e)
  BY DEF Consume
<1>2. CASE Poll(s)
  <2>1. /\ queues[s] # <<>> /\ handled' = [handled EXCEPT ![s] = @ \cup {Head(queues[s]).event}]
        /\ UNCHANGED <<topics, subscriptions, queues, deadLetters, publications, acked>>
    BY <1>2 DEF Poll, busVars
  <2>2. handled' \in [Subs -> SUBSET Events] /\ \A r \in Subs : handled[r] \subseteq handled'[r]
    BY <2>1, HandedFront
  <2>3. TypeOK'
    BY <1>0, <2>1, <2>2 DEF TypeOK
  <2>4. AckedWasHandled'
    BY <1>0, <2>1, <2>2 DEF AckedWasHandled, TypeOK
  <2> QED BY <2>1, <2>3, <2>4, UnchangedQueues, UnchangedRests DEF StepGoal
<1>3. CASE Dispatch(s)
  <2>1. PICK answer \in Answers : DispatchNext(s, answer)
    BY <1>3 DEF Dispatch
  <2>2. /\ Subscribed(s) /\ queues[s] # <<>>
        /\ handled' = [handled EXCEPT ![s] = @ \cup {Head(queues[s]).event}]
        /\ UNCHANGED <<topics, subscriptions, publications>>
    BY <2>1 DEF DispatchNext
  <2>3. /\ handled' \in [Subs -> SUBSET Events] /\ Head(queues[s]).event \in handled'[s]
        /\ \A r \in Subs : handled[r] \subseteq handled'[r]
    BY <2>2, HandedFront
  <2>4. \/ \E e : AckFront(s, e)
        \/ \E e : FailFront(s, e, "HandlerError")
        \/ DispatchedDeadLetter(s)
    <3>1. CASE answer = "Ack"
      BY <2>1, <3>1 DEF DispatchNext
    <3>2. CASE answer = "Retry"
      BY <2>1, <3>2 DEF DispatchNext
    <3>3. CASE answer = "DeadLetter"
      BY <2>1, <3>3 DEF DispatchNext
    <3> QED BY <3>1, <3>2, <3>3 DEF Answers
  <2> QED BY <2>2, <2>3, <2>4, AnswerStep
<1>4. ASSUME NEW e \in Events, Ack(s, e) \/ FailDelivery(s, e) PROVE StepGoal
  <2>1. /\ Subscribed(s) /\ e \in handled[s] /\ queues[s] # <<>> /\ Head(queues[s]).event = e
        /\ AckFront(s, e) \/ FailFront(s, e, "HandlerError")
        /\ UNCHANGED <<topics, subscriptions, publications, handled>>
    BY <1>4 DEF Ack, FailDelivery, AckFront, FailFront
  <2>2. /\ handled' \in [Subs -> SUBSET Events] /\ Head(queues[s]).event \in handled'[s]
        /\ \A r \in Subs : handled[r] \subseteq handled'[r]
    BY <1>0, <2>1 DEF TypeOK
  <2> QED BY <2>1, <2>2, AnswerStep
<1> QED
  BY <1>1, <1>2, <1>3, <1>4

\* Every step of the bus.
LEMMA EveryStep ==
    ASSUME BusInv, [Next]_vars
    PROVE  StepGoal
<1>1. CASE UNCHANGED vars
  <2>1. UNCHANGED <<topics, subscriptions, queues, deadLetters, publications, handled, acked>>
    BY <1>1 DEF vars
  <2>2. TypeOK' /\ AckedWasHandled'
    BY <2>1 DEF BusInv, TypeOK, AckedWasHandled
  <2> QED BY <2>1, <2>2, UnchangedQueues, UnchangedRests DEF StepGoal
<1> QED
  BY <1>1, PublishStep, ConfigureStep, ConsumeStep DEF Next

\* The invariant holds initially and every step keeps it.
THEOREM BusInvariant == Spec => []BusInv
<1>1. Init => BusInv
  <2> SUFFICES ASSUME Init PROVE BusInv
    OBVIOUS
  <2>1. \A s \in Subs : queues[s] = <<>> /\ DOMAIN queues[s] = {}
    BY DEF Init
  <2>2. /\ acked = {} /\ deadLetters = {} /\ publications = <<>> /\ DOMAIN publications = {}
    BY DEF Init
  <2>3. TypeOK
    BY EmptySeq DEF Init, TypeOK
  <2>4. QueueInPublicationOrder /\ NoOvertaking /\ AckedWasHandled /\ QueueBounded /\ RetriesBounded
    BY <2>1, <2>2 DEF QueueInPublicationOrder, NoOvertaking, AckedWasHandled, QueueBounded, RetriesBounded
  <2>5. Accounts
    BY <2>1, <2>2 DEF Accounts, Waiting, Pubs, Acknowledged, Buried, Owed
  <2> QED BY <2>3, <2>4, <2>5 DEF BusInv
<1>2. BusInv /\ [Next]_vars => BusInv'
  <2> SUFFICES ASSUME BusInv, [Next]_vars PROVE BusInv'
    OBVIOUS
  <2>1. StepGoal
    BY EveryStep
  <2>2. Accounts' /\ InTurn'
    BY <2>1, StepKeepsAccounts DEF StepGoal
  <2>3. NoOvertaking'
    <3>1. TypeOK' => (InTurn' <=> NoOvertaking')
      BY DEF TypeOK, InTurn, NoOvertaking, Acknowledged, Waiting, Pubs
    <3> QED BY <2>1, <2>2, <3>1 DEF StepGoal
  <2> QED BY <2>1, <2>2, <2>3 DEF StepGoal, BusInv
<1> QED
  BY <1>1, <1>2, PTL DEF Spec

-----------------------------------------------------------------------------
(* What the runs check of the bus, for every value of the constants.       *)

\* The three things that can become of a delivery, as memberships of the accounts.
LEMMA WhatBecame ==
    ASSUME NEW n, NEW s
    PROVE  /\ Waits(n, s) <=> n \in Waiting(s)
           /\ IsAcked(n, s) <=> n \in Acknowledged(s)
           /\ IsBuried(n, s) <=> n \in Buried(s)
BY DEF Waits, IsAcked, IsBuried, Waiting, Acknowledged, Buried, Pubs

\* Queues, dead letters and the callers' records keep their types in every run of the
\* bus, for any topics, subscription definitions and number of publications.
THEOREM TypeCorrect == Spec => []TypeOK
<1>1. BusInv => TypeOK
  BY DEF BusInv
<1> QED
  BY <1>1, BusInvariant, PTL

\* publish, enqueue, ack, fail_delivery and dispatch_next lose no delivery and settle
\* none twice: EveryDeliveryAccounted holds for any topics, subscriptions, capacities
\* and attempts.
THEOREM NoneLostNoneTwice == Spec => []EveryDeliveryAccounted
<1>1. BusInv => EveryDeliveryAccounted
  <2> SUFFICES ASSUME BusInv, NEW n \in DOMAIN publications, NEW s \in Subs
               PROVE  /\ s \in publications[n].matched
                           <=> Waits(n, s) \/ IsAcked(n, s) \/ IsBuried(n, s)
                      /\ ~(Waits(n, s) /\ IsAcked(n, s))
                      /\ ~(Waits(n, s) /\ IsBuried(n, s))
                      /\ ~(IsAcked(n, s) /\ IsBuried(n, s))
    BY DEF EveryDeliveryAccounted
  <2>1. /\ Waiting(s) \cup Acknowledged(s) \cup Buried(s) = Owed(s)
        /\ Waiting(s) \cap Acknowledged(s) = {}
        /\ Waiting(s) \cap Buried(s) = {}
        /\ Acknowledged(s) \cap Buried(s) = {}
    BY DEF BusInv, Accounts
  <2>2. n \in Owed(s) <=> s \in publications[n].matched
    BY DEF Owed
  <2> QED BY <2>1, <2>2, WhatBecame
<1> QED
  BY <1>1, BusInvariant, PTL

\* Whatever enqueue evicts and fail_delivery retries, queues and acknowledgements are in
\* publication order.
THEOREM OrderIsKept == Spec => []InPublicationOrder
<1>1. BusInv => InPublicationOrder
  BY DEF BusInv, InPublicationOrder
<1> QED
  BY <1>1, BusInvariant, PTL

\* ack never removes an event that its subscriber was not handed, however late it comes.
THEOREM AcksAreOfHanded == Spec => []AckedWasHandled
<1>1. BusInv => AckedWasHandled
  BY DEF BusInv
<1> QED
  BY <1>1, BusInvariant, PTL

\* enqueue and fail_delivery keep every queue and every attempt within what some
\* definition allows, although subscribe lets a definition inherit its predecessor's queue.
THEOREM DefinitionsBind == Spec => []WithinDefinitions
<1>1. BusInv => WithinDefinitions
  BY DEF BusInv, WithinDefinitions
<1> QED
  BY <1>1, BusInvariant, PTL

\* A queue in publication order holds no publication twice.
LEMMA OnePosition ==
    ASSUME NEW q \in Seq(Delivery), InOrder(q), NEW i \in DOMAIN q, NEW j \in DOMAIN q,
           q[i].pub = q[j].pub
    PROVE  i = j
<1>1. DOMAIN q = 1 .. Len(q) /\ Len(q) \in Nat
  BY LenProperties
<1>2. q[i].pub \in Nat /\ q[j].pub \in Nat
  BY <1>1, PubTypes
<1>3. ~(i < j) /\ ~(j < i)
  BY <1>2 DEF InOrder
<1> QED
  BY <1>1, <1>3

\* What CriticalLeavesOnlyHandled says of the delivery at position i of the queue of s.
CriticalStays(s, i) ==
    ~CanDropUnderPressure(queues[s][i].lane) /\ queues[s][i].pub \notin Waiting(s)'
        => i = 1 /\ queues[s][i].event \in handled'[s]

\* Of the front of a queue an answer may take only the front, and that one was handed out.
LEMMA AnswerKeepsCritical ==
    ASSUME BusInv, NEW s \in Subs, queues[s] # <<>>, Head(queues[s]).event \in handled'[s],
           \/ \E e : AckFront(s, e)
           \/ \E e : FailFront(s, e, "HandlerError")
           \/ DispatchedDeadLetter(s),
           NEW r \in Subs, NEW i \in DOMAIN queues[r]
    PROVE  CriticalStays(r, i)
<1>1. TypeOK /\ \A x \in Subs : queues[x] \in Seq(Delivery) /\ InOrder(queues[x])
  BY QueueTypes DEF BusInv
<1>2. queues[r][i].pub \in Waiting(r)
  BY DEF Waiting, Pubs
<1>3. ASSUME queues' = [queues EXCEPT ![s] = Tail(@)]
      PROVE  CriticalStays(r, i)
  <2>1. /\ Waiting(s)' = Waiting(s) \ {Head(queues[s]).pub}
        /\ \A x \in Subs : x # s => Waiting(x)' = Waiting(x)
    BY <1>3, FrontTaken
  <2>2. CASE r # s
    BY <1>2, <2>1, <2>2 DEF CriticalStays
  <2>3. CASE r = s
    <3>1. Head(queues[s]) = queues[s][1] /\ 1 \in DOMAIN queues[s]
      BY <1>1, EmptySeq, LenProperties, TailFacts
    <3>2. CASE queues[s][i].pub = queues[s][1].pub
      <4>1. i = 1
        BY <1>1, <2>3, <3>1, <3>2, OnePosition
      <4> QED BY <2>3, <3>1, <4>1 DEF CriticalStays
    <3>3. CASE queues[s][i].pub # queues[s][1].pub
      BY <1>2, <2>1, <2>3, <3>1, <3>3 DEF CriticalStays
    <3> QED BY <3>2, <3>3
  <2> QED BY <2>2, <2>3
<1>4. ASSUME NEW e, FailFront(s, e, "HandlerError"),
             queues' # [queues EXCEPT ![s] = Tail(@)]
      PROVE  CriticalStays(r, i)
  <2> DEFINE d == CountAttempt(Head(queues[s]))
  <2>1. queues' = [queues EXCEPT ![s][1] = d]
    BY <1>4 DEF FailFront
  <2>2. d \in Delivery /\ d.pub = queues[s][1].pub
    BY <1>1, TailFacts, CountAttemptFacts
  <2> HIDE DEF d
  <2>3. queues'[s] = [queues[s] EXCEPT ![1] = d] /\ \A x \in Subs : x # s => queues'[x] = queues[x]
    BY <1>1, <2>1 DEF TypeOK
  <2>4. Waiting(r)' = Waiting(r)
    BY <1>1, <2>2, <2>3, RetryFacts DEF Waiting
  <2> QED BY <1>2, <2>4 DEF CriticalStays
<1> QED
  BY <1>3, <1>4 DEF AckFront, DispatchedDeadLetter

\* enqueue makes room by a droppable delivery only.
LEMMA RoutedKeepsCritical ==
    ASSUME BusInv, NEW e \in Events, NEW t \in Topics, NEW option \in PublishLanes,
           NEW major, NEW validate, PublishRouted(e, t, option, major, validate),
           NEW s \in Subs, NEW i \in DOMAIN queues[s]
    PROVE  CriticalStays(s, i)
<1> DEFINE d == NewDelivery(e, LaneOf(t, option))
           m == Matching(t, LaneOf(t, option))
<1>1. TypeOK /\ QueueInPublicationOrder /\ queues[s] \in Seq(Delivery) /\ InOrder(queues[s])
  BY QueueTypes DEF BusInv
<1>2. queues[s][i].pub \in Waiting(s)
  BY DEF Waiting, Pubs
<1>3. /\ d \in Delivery
      /\ \A x \in m : /\ Subscribed(x) /\ queues'[x] = Enqueue(x, d).queue
                      /\ \A n \in Waiting(x) : n < d.pub
      /\ \A x \in Subs \ m : queues'[x] = queues[x]
  BY RoutedFacts
<1> HIDE DEF d, m
<1>4. CASE s \notin m
  BY <1>2, <1>3, <1>4 DEF CriticalStays, Waiting
<1>5. CASE s \in m
  <2>1. \/ Pubs(Enqueue(s, d).queue) = Pubs(queues[s]) \cup {d.pub}
        \/ \E v \in DOMAIN queues[s] :
              /\ CanDropUnderPressure(queues[s][v].lane)
              /\ Pubs(Enqueue(s, d).queue) = (Pubs(queues[s]) \ {queues[s][v].pub}) \cup {d.pub}
        \/ Enqueue(s, d).queue = queues[s]
    BY <1>1, <1>3, <1>5, EnqueueFacts
  <2>2. Waiting(s)' = Pubs(Enqueue(s, d).queue)
    BY <1>3, <1>5 DEF Waiting
  <2>3. ASSUME NEW v \in DOMAIN queues[s], CanDropUnderPressure(queues[s][v].lane),
               Pubs(Enqueue(s, d).queue) = (Pubs(queues[s]) \ {queues[s][v].pub}) \cup {d.pub}
        PROVE  CriticalStays(s, i)
    <3>1. CASE queues[s][i].pub = queues[s][v].pub
      <4>1. i = v
        BY <1>1, <3>1, OnePosition
      <4> QED BY <2>3, <4>1 DEF CriticalStays
    <3>2. CASE queues[s][i].pub # queues[s][v].pub
      BY <1>2, <2>2, <2>3, <3>2 DEF CriticalStays, Waiting
    <3> QED BY <3>1, <3>2
  <2> QED BY <1>2, <2>1, <2>2, <2>3 DEF CriticalStays, Waiting
<1> QED
  BY <1>4, <1>5

\* A P0..P2 delivery leaves its queue from the front only, and after it was handed out:
\* for every capacity, and whatever is published, retried or acknowledged late meanwhile.
THEOREM CriticalIsDelivered == Spec => CriticalLeavesOnlyHandled
<1>1. ASSUME BusInv, [Next]_vars, NEW s \in Subs, NEW i \in DOMAIN queues[s]
      PROVE  CriticalStays(s, i)
  <2>0. queues[s][i].pub \in Waiting(s)
    BY DEF Waiting, Pubs
  <2>1. CASE UNCHANGED queues
    BY <2>0, <2>1 DEF CriticalStays, Waiting
  <2>2. CASE Publish
    <3>1. PICK e \in Events, t \in Topics, option \in PublishLanes, major \in Majors :
              \/ PublishIncompatible(e, t, option, major)
              \/ \E validate \in BOOLEAN :
                    \/ PublishUnrouted(e, t, option, major, validate)
                    \/ PublishRouted(e, t, option, major, validate)
      BY <2>2 DEF Publish
    <3> QED BY <1>1, <2>1, <3>1, RoutedKeepsCritical DEF PublishIncompatible, PublishUnrouted
  <2>3. CASE Consume
    <3>1. PICK x \in Subs : \/ Poll(x)
                            \/ Dispatch(x)
                            \/ \E e \in Events : Ack(x, e) \/ FailDelivery(x, e)
      BY <2>3 DEF Consume
    <3>2. CASE Dispatch(x)
      <4>1. PICK answer \in Answers : DispatchNext(x, answer)
        BY <3>2 DEF Dispatch
      <4>2. queues[x] # <<>> /\ Head(queues[x]).event \in handled'[x]
        BY <1>1, <4>1, HandedFront DEF DispatchNext
      <4>3. \/ \E e : AckFront(x, e)
            \/ \E e : FailFront(x, e, "HandlerError")
            \/ DispatchedDeadLetter(x)
        <5>1. CASE answer = "Ack"
          BY <4>1, <5>1 DEF DispatchNext
        <5>2. CASE answer = "Retry"
          BY <4>1, <5>2 DEF DispatchNext
        <5>3. CASE answer = "DeadLetter"
          BY <4>1, <5>3 DEF DispatchNext
        <5> QED BY <5>1, <5>2, <5>3 DEF Answers
      <4> QED BY <1>1, <4>2, <4>3, AnswerKeepsCritical
    <3>3. ASSUME NEW e \in Events, Ack(x, e) \/ FailDelivery(x, e) PROVE CriticalStays(s, i)
      <4>1. /\ queues[x] # <<>> /\ Head(queues[x]).event = e /\ e \in handled[x]
            /\ AckFront(x, e) \/ FailFront(x, e, "HandlerError")
            /\ UNCHANGED handled
        BY <3>3 DEF Ack, FailDelivery, AckFront, FailFront
      <4> QED BY <1>1, <4>1, AnswerKeepsCritical
    <3> QED BY <2>1, <3>1, <3>2, <3>3 DEF Poll, busVars
  <2> QED BY <1>1, <2>1, <2>2, <2>3 DEF Next, Configure, RegisterTopic, Subscribe, vars
<1>2. BusInv /\ [Next]_vars =>
          [\A s \in Subs : \A i \in DOMAIN queues[s] :
              LET d == queues[s][i] IN
              ~CanDropUnderPressure(d.lane) /\ (\A j \in DOMAIN queues'[s] : queues'[s][j].pub # d.pub)
                  => i = 1 /\ d.event \in handled'[s]]_vars
  <2> SUFFICES ASSUME BusInv, [Next]_vars, NEW s \in Subs, NEW i \in DOMAIN queues[s],
                      ~CanDropUnderPressure(queues[s][i].lane),
                      \A j \in DOMAIN queues'[s] : queues'[s][j].pub # queues[s][i].pub
               PROVE  i = 1 /\ queues[s][i].event \in handled'[s]
    OBVIOUS
  <2>1. queues[s][i].pub \notin Waiting(s)'
    BY DEF Waiting, Pubs
  <2> QED BY <1>1, <2>1 DEF CriticalStays
<1> QED
  BY <1>2, BusInvariant, PTL DEF Spec, CriticalLeavesOnlyHandled

\* A publication that enqueue serves is answered truthfully: on a protected topic a P0..P2
\* event is refused exactly when some matched queue has not taken it.
LEMMA RoutedAnswer ==
    ASSUME BusInv, NEW e \in Events, NEW t \in Topics, NEW option \in PublishLanes,
           NEW major, NEW validate, PublishRouted(e, t, option, major, validate),
           NEW n \in DOMAIN publications' \ DOMAIN publications,
           topics[publications'[n].topic].protected,
           ~CanDropUnderPressure(publications'[n].lane)
    PROVE  publications'[n].result = "ok" <=> \A s \in publications'[n].matched : n \in Waiting(s)'
<1> DEFINE d == NewDelivery(e, LaneOf(t, option))
           m == Matching(t, LaneOf(t, option))
           k == Len(publications) + 1
           served == [s \in m |-> Enqueue(s, d)]
           result == IF Rejected(served) /\ topics[t].protected THEN "rejected" ELSE "ok"
           p == [event |-> e, topic |-> t, lane |-> LaneOf(t, option), matched |-> m,
                 result |-> result]
<1>1. TypeOK /\ QueueInPublicationOrder
  BY DEF BusInv
<1>2. publications' = Append(publications, p) /\ Len(publications) < MaxPublications
  BY DEF PublishRouted, Record
<1>3. /\ d \in Delivery /\ d.pub = k /\ d.lane = LaneOf(t, option) /\ d.lane \in Lanes
      /\ m \in SUBSET Subs
      /\ \A s \in m : /\ Subscribed(s) /\ queues'[s] = Enqueue(s, d).queue
                      /\ \A x \in Waiting(s) : x < d.pub
  BY RoutedFacts
<1>4. p \in Publication
  BY <1>3 DEF Publication
<1>5. k \in Nat
  BY <1>1, LenProperties DEF TypeOK
<1>6. n = k /\ publications'[n] = p
  <2>1. k = Len(publications) + 1
    OBVIOUS
  <2> HIDE DEF p, k
  <2>2. /\ DOMAIN publications = 1 .. Len(publications)
        /\ DOMAIN publications' = 1 .. k
        /\ publications'[k] = p
    BY <1>1, <1>2, <1>4, <2>1, RecordFacts
  <2>3. Len(publications) \in Nat
    BY <1>1, LenProperties DEF TypeOK
  <2> QED BY <2>1, <2>2, <2>3
<1>7. topics[t].protected /\ ~CanDropUnderPressure(d.lane)
  BY <1>3, <1>6
<1> HIDE DEF d, m, k
<1>8. ASSUME NEW s \in m
      PROVE  Enqueue(s, d).outcome # "rejected" <=> n \in Waiting(s)'
  <2>1. /\ s \in Subs /\ Subscribed(s) /\ queues'[s] = Enqueue(s, d).queue
        /\ \A x \in Waiting(s) : x < d.pub
    BY <1>3
  <2>2. \/ /\ Pubs(Enqueue(s, d).queue) = Pubs(queues[s]) \cup {d.pub}
           /\ Enqueue(s, d).outcome = "enqueued"
        \/ /\ \E v \in DOMAIN queues[s] :
                Pubs(Enqueue(s, d).queue) = (Pubs(queues[s]) \ {queues[s][v].pub}) \cup {d.pub}
           /\ Enqueue(s, d).outcome = "dropped"
        \/ /\ Enqueue(s, d).queue = queues[s]
           /\ Enqueue(s, d).outcome = IF CanDropUnderPressure(d.lane) THEN "dropped" ELSE "rejected"
    BY <1>1, <1>3, <2>1, EnqueueFacts
  <2>3. Waiting(s)' = Pubs(Enqueue(s, d).queue) /\ Waiting(s) = Pubs(queues[s])
    BY <2>1 DEF Waiting
  <2>4. d.pub \notin Waiting(s)
    BY <1>3, <1>5, <2>1
  <2> QED BY <1>3, <1>6, <1>7, <2>2, <2>3, <2>4
<1>9. Rejected(served) <=> \E s \in m : Enqueue(s, d).outcome = "rejected"
  BY DEF Rejected
<1>10. result = "ok" <=> \A s \in m : n \in Waiting(s)'
  BY <1>7, <1>8, <1>9
<1> QED
  BY <1>6, <1>10

\* On a protected topic publish answers a P0..P2 event truthfully, for any subscriptions,
\* capacities and queue contents.
THEOREM ProtectedIsTold == Spec => ProtectedAnswerIsTrue
<1>1. ASSUME BusInv, [Next]_vars, NEW n \in DOMAIN publications' \ DOMAIN publications,
             topics[publications'[n].topic].protected,
             ~CanDropUnderPressure(publications'[n].lane)
      PROVE  publications'[n].result = "ok"
                 <=> \A s \in publications'[n].matched : n \in Waiting(s)'
  <2>1. Publish
    BY <1>1 DEF Next, Configure, RegisterTopic, Subscribe, Consume, Poll, Dispatch, DispatchNext,
                Ack, FailDelivery, vars, callerVars
  <2>2. PICK e \in Events, t \in Topics, option \in PublishLanes, major \in Majors :
            \/ PublishIncompatible(e, t, option, major)
            \/ \E validate \in BOOLEAN :
                  \/ PublishUnrouted(e, t, option, major, validate)
                  \/ PublishRouted(e, t, option, major, validate)
    BY <2>1 DEF Publish
  <2>3. TypeOK
    BY <1>1 DEF BusInv
  <2>4. ASSUME Record(e, t, LaneOf(t, option), {}, "ok"), LaneOf(t, option) \in Lanes,
               Len(publications) < MaxPublications
        PROVE  publications'[n].result = "ok" /\ publications'[n].matched = {}
    <3> DEFINE p == [event |-> e, topic |-> t, lane |-> LaneOf(t, option), matched |-> {},
                     result |-> "ok"]
               k == Len(publications) + 1
    <3>1. p \in Publication /\ p.matched = {} /\ p.result = "ok"
          /\ publications' = Append(publications, p)
      BY <2>4 DEF Publication, Record
    <3>2. k = Len(publications) + 1 /\ Len(publications) \in Nat
      BY <2>3, LenProperties DEF TypeOK
    <3> HIDE DEF p, k
    <3>3. /\ DOMAIN publications = 1 .. Len(publications)
          /\ DOMAIN publications' = 1 .. k
          /\ publications'[k] = p
      BY <2>3, <2>4, <3>1, <3>2, RecordFacts
    <3>4. n = k
      BY <1>1, <3>2, <3>3
    <3> QED BY <3>1, <3>3, <3>4
  <2>5. CASE PublishIncompatible(e, t, option, major)
    BY <2>3, <2>4, <2>5, LaneTypes DEF PublishIncompatible
  <2>6. ASSUME NEW validate \in BOOLEAN, PublishUnrouted(e, t, option, major, validate)
        PROVE  publications'[n].result = "ok" /\ publications'[n].matched = {}
    BY <2>3, <2>4, <2>6, LaneTypes DEF PublishUnrouted
  <2> QED BY <1>1, <2>2, <2>5, <2>6, RoutedAnswer
<1>2. BusInv /\ [Next]_vars =>
          [\A n \in DOMAIN publications' \ DOMAIN publications :
              LET p == publications'[n]
              IN  topics[p.topic].protected /\ ~CanDropUnderPressure(p.lane)
                      => (p.result = "ok" <=> \A s \in p.matched : Waits(n, s)')]_vars
  <2>1. \A n, s : Waits(n, s)' <=> n \in Waiting(s)'
    BY DEF Waits, Waiting, Pubs
  <2> QED BY <1>1, <2>1
<1> QED
  BY <1>2, BusInvariant, PTL DEF Spec, ProtectedAnswerIsTrue

-----------------------------------------------------------------------------
(* The bus implements the delivery ledger.                                 *)

\* The accounts are disjoint, so that the fate of a delivery can be read off them.
LEMMA FateIsRead ==
    ASSUME Accounts, NEW n, NEW s \in Subs
    PROVE  /\ FateOf(n, s) \in {"none", "waiting", "acked", "dead"}
           /\ FateOf(n, s) = "waiting" <=> n \in Waiting(s)
           /\ FateOf(n, s) = "acked" <=> n \in Acknowledged(s)
           /\ FateOf(n, s) = "dead" <=> n \in Buried(s)
<1>1. /\ Waits(n, s) <=> n \in Waiting(s)
      /\ IsAcked(n, s) <=> n \in Acknowledged(s)
      /\ IsBuried(n, s) <=> n \in Buried(s)
  BY DEF Waits, IsAcked, IsBuried, Waiting, Acknowledged, Buried, Pubs
<1>2. /\ ~(n \in Waiting(s) /\ n \in Acknowledged(s))
      /\ ~(n \in Waiting(s) /\ n \in Buried(s))
      /\ ~(n \in Acknowledged(s) /\ n \in Buried(s))
  BY DEF Accounts
<1> QED
  BY <1>1, <1>2 DEF FateOf

\* The same of the state after a step.
LEMMA FateIsReadNext ==
    ASSUME Accounts', NEW n, NEW s \in Subs
    PROVE  /\ FateOf(n, s)' \in {"none", "waiting", "acked", "dead"}
           /\ FateOf(n, s)' = "waiting" <=> n \in Waiting(s)'
           /\ FateOf(n, s)' = "acked" <=> n \in Acknowledged(s)'
           /\ FateOf(n, s)' = "dead" <=> n \in Buried(s)'
<1>1. /\ Waits(n, s)' <=> n \in Waiting(s)'
      /\ IsAcked(n, s)' <=> n \in Acknowledged(s)'
      /\ IsBuried(n, s)' <=> n \in Buried(s)'
  BY DEF Waits, IsAcked, IsBuried, Waiting, Acknowledged, Buried, Pubs
<1>2. /\ ~(n \in Waiting(s)' /\ n \in Acknowledged(s)')
      /\ ~(n \in Waiting(s)' /\ n \in Buried(s)')
      /\ ~(n \in Acknowledged(s)' /\ n \in Buried(s)')
  BY DEF Accounts
<1> QED
  BY <1>1, <1>2 DEF FateOf

\* The bound on the publications of a run, which is what the ledger is as wide as.
WithinBound == Len(publications) <= MaxPublications

\* Only publish adds a publication, and it does so below the bound.
LEMMA BoundIsKept == Spec => []WithinBound
<1>1. Init => WithinBound
  BY BoundAssumption, EmptySeq DEF Init, WithinBound
<1>2. BusInv /\ WithinBound /\ [Next]_vars => WithinBound'
  <2> SUFFICES ASSUME BusInv, WithinBound, [Next]_vars PROVE WithinBound'
    OBVIOUS
  <2>1. CASE UNCHANGED publications
    BY <2>1 DEF WithinBound
  <2>2. CASE Publish
    <3>0. PICK e \in Events, t \in Topics, option \in PublishLanes, major \in Majors :
              \/ PublishIncompatible(e, t, option, major)
              \/ \E validate \in BOOLEAN :
                    \/ PublishUnrouted(e, t, option, major, validate)
                    \/ PublishRouted(e, t, option, major, validate)
      BY <2>2 DEF Publish
    <3>1. Len(publications) < MaxPublications
      BY <3>0 DEF PublishIncompatible, PublishUnrouted, PublishRouted
    <3>2. PICK p : publications' = Append(publications, p)
      <4>1. \E lane, m, result : Record(e, t, lane, m, result)
        BY <3>0, Zenon DEF PublishIncompatible, PublishUnrouted, PublishRouted
      <4> QED BY <4>1 DEF Record
    <3>3. publications \in Seq(Publication) /\ Len(publications) \in Nat
      BY LenProperties DEF BusInv, TypeOK
    <3>4. Len(publications') = Len(publications) + 1
      BY <3>2, <3>3
    <3> QED BY <3>1, <3>3, <3>4, BoundAssumption DEF WithinBound
  <2>3. Publish \/ UNCHANGED publications
    BY DEF Next, Configure, RegisterTopic, Subscribe, Consume, Poll, Dispatch, DispatchNext,
           Ack, FailDelivery, vars, callerVars
  <2> QED BY <2>1, <2>2, <2>3
<1> QED
  BY <1>1, <1>2, BusInvariant, PTL DEF Spec

\* publish, enqueue, ack, fail_delivery and dispatch_next do to the fates of deliveries
\* what the ledger allows and nothing else, for any number of subscriptions and
\* publications: a call is one entry of the ledger, or none.
THEOREM BusImplementsLedger == Spec => ImplementsLedger
<1> DEFINE Numbers == 1 .. MaxPublications
           F == [n \in Numbers |-> [s \in Subs |-> FateOf(n, s)]]
<1>1. Init => Ledger!Init
  <2> SUFFICES ASSUME Init, NEW n \in Numbers, NEW s \in Subs
               PROVE  FateOf(n, s) = "none"
    BY DEF Ledger!Init
  <2>1. ~Waits(n, s) /\ ~IsAcked(n, s) /\ ~IsBuried(n, s)
    BY DEF Init, Waits, IsAcked, IsBuried
  <2> QED BY <2>1 DEF FateOf
<1>2. BusInv /\ BusInv' /\ WithinBound /\ [Next]_vars => [Ledger!Next]_F
  <2> SUFFICES ASSUME BusInv, BusInv', WithinBound, [Next]_vars
               PROVE  Ledger!Next \/ UNCHANGED F
    OBVIOUS
  <2>1. Accounts /\ Accounts'
    BY DEF BusInv
  <2> DEFINE G == F'
  <2>2. /\ G = [n \in Numbers |-> [s \in Subs |-> FateOf(n, s)']]
        /\ F = [n \in Numbers |-> [s \in Subs |-> FateOf(n, s)]]
    OBVIOUS
  <2>3. \A n \in Numbers, s \in Subs : F[n][s] = FateOf(n, s) /\ G[n][s] = FateOf(n, s)'
    OBVIOUS
  <2>4. \A n \in Numbers, s \in Subs :
          /\ F[n][s] \in {"none", "waiting", "acked", "dead"}
          /\ F[n][s] = "waiting" <=> n \in Waiting(s)
          /\ F[n][s] = "acked" <=> n \in Acknowledged(s)
          /\ F[n][s] = "dead" <=> n \in Buried(s)
    BY <2>1, <2>3, FateIsRead
  <2>5. \A n \in Numbers, s \in Subs :
          /\ G[n][s] \in {"none", "waiting", "acked", "dead"}
          /\ G[n][s] = "waiting" <=> n \in Waiting(s)'
          /\ G[n][s] = "acked" <=> n \in Acknowledged(s)'
          /\ G[n][s] = "dead" <=> n \in Buried(s)'
    BY <2>1, <2>3, FateIsReadNext
  <2>6. \A n \in Numbers, s \in Subs : Keeps(s) => G[n][s] = F[n][s]
    BY <2>4, <2>5 DEF Keeps
  <2>7. G \in [Numbers -> [Subs -> {"none", "waiting", "acked", "dead"}]]
    BY <2>1, <2>2, FateIsReadNext
  <2>8. Publishes \/ Settles \/ Rests
    BY EveryStep DEF StepGoal
  <2> HIDE DEF F, G
  <2>9. CASE Rests
    <3>1. \A n \in Numbers, s \in Subs : FateOf(n, s)' = FateOf(n, s)
      BY <2>3, <2>6, <2>9 DEF Rests
    <3>2. G = F
      BY <2>2, <3>1
    <3> QED BY <3>2 DEF G
  <2>10. ASSUME NEW n \in Numbers, NEW m \in SUBSET Subs, PublishesTo(n, m)
         PROVE  Ledger!Publish(n)
    <3>1. ASSUME NEW s \in Subs
          PROVE  n \notin Waiting(s) /\ n \notin Acknowledged(s) /\ n \notin Buried(s)
      <4>1. n = Len(publications) + 1 /\ Len(publications) \in Nat
        BY <2>10, LenProperties DEF PublishesTo, BusInv, TypeOK
      <4> QED BY <4>1, KnownPubs
    <3>2. ASSUME NEW s \in Subs
          PROVE  F[n][s] = "none" /\ G[n][s] \in {"none", "waiting", "dead"}
      <4>1. Acknowledged(s)' = Acknowledged(s)
        BY <2>10 DEF PublishesTo, Served, Keeps
      <4> QED BY <2>4, <2>5, <3>1, <4>1
    <3>3. ASSUME NEW q \in Numbers \ {n}, NEW s \in Subs, G[q][s] # F[q][s]
          PROVE  /\ F[q][s] = "waiting" /\ G[q][s] = "dead"
                 /\ G[n][s] = "waiting"
                 /\ \A r \in Numbers \ {n, q} : G[r][s] = F[r][s]
      <4>1. s \in m /\ Served(s, n)
        BY <2>6, <2>10, <3>3 DEF PublishesTo
      <4>2. Acknowledged(s)' = Acknowledged(s)
        BY <4>1 DEF Served
      <4>3. ~ (Waiting(s)' = Waiting(s) \cup {n} /\ Buried(s)' = Buried(s))
        BY <2>4, <2>5, <3>3, <4>2
      <4>4. ~ (Waiting(s)' = Waiting(s) /\ Buried(s)' = Buried(s) \cup {n})
        BY <2>4, <2>5, <3>3, <4>2
      <4>5. PICK v \in Waiting(s) : /\ Waiting(s)' = (Waiting(s) \ {v}) \cup {n}
                                    /\ Buried(s)' = Buried(s) \cup {v}
        BY <4>1, <4>3, <4>4 DEF Served
      <4>6. \A r \in Numbers \ {n, v} : G[r][s] = F[r][s]
        BY <2>4, <2>5, <4>2, <4>5
      <4>7. q = v
        BY <3>3, <4>6
      <4>8. F[q][s] = "waiting" /\ G[q][s] = "dead" /\ G[n][s] = "waiting"
        BY <2>4, <2>5, <4>5, <4>7
      <4> QED BY <4>6, <4>7, <4>8
    <3> QED BY <2>7, <3>2, <3>3 DEF Ledger!Publish, Ledger!Fates, F, G
  <2>11. ASSUME NEW s \in Subs, NEW v \in Waiting(s), SettlesOne(s, v)
         PROVE  v \in Numbers /\ Ledger!Settle(v, s)
    <3>1. v \in Numbers
      <4>1. v \in 1 .. Len(publications) /\ Len(publications) \in Nat
        BY KnownPubs, LenProperties DEF BusInv, TypeOK
      <4> QED BY <4>1, BoundAssumption DEF WithinBound
    <3>2. \A r \in Subs : r # s => Keeps(r)
      BY <2>11 DEF SettlesOne
    <3>3. \A n \in Numbers : n # v => G[n][s] = F[n][s]
      BY <2>4, <2>5, <2>11 DEF SettlesOne
    <3>4. F[v][s] = "waiting"
      BY <2>4, <2>11, <3>1
    <3>5. G[v][s] \in {"acked", "dead"}
      BY <2>5, <2>11, <3>1 DEF SettlesOne
    <3>6. G = [F EXCEPT ![v][s] = G[v][s]]
      <4> DEFINE H == [F EXCEPT ![v][s] = G[v][s]]
      <4>1. F \in [Numbers -> [Subs -> {"none", "waiting", "acked", "dead"}]]
        BY <2>1, <2>2, FateIsRead
      <4>2. H \in [Numbers -> [Subs -> {"none", "waiting", "acked", "dead"}]]
        BY <3>5, <4>1
      <4>3. \A n \in Numbers, r \in Subs : H[n][r] = IF n = v /\ r = s THEN G[v][s] ELSE F[n][r]
        BY <4>1
      <4> HIDE DEF H
      <4>4. \A n \in Numbers, r \in Subs : G[n][r] = H[n][r]
        BY <2>6, <3>2, <3>3, <4>3
      <4>5. \A n \in Numbers : G[n] = H[n]
        BY <2>7, <4>2, <4>4
      <4>6. G = [n \in Numbers |-> G[n]] /\ H = [n \in Numbers |-> H[n]]
        BY <2>7, <4>2
      <4>7. G = H
        BY <4>5, <4>6
      <4> QED BY <4>7 DEF H
    <3> QED BY <3>1, <3>4, <3>5, <3>6 DEF Ledger!Settle, F, G
  <2> QED BY <2>8, <2>9, <2>10, <2>11 DEF Publishes, Settles, Ledger!Next
<1> QED
  BY <1>1, <1>2, BusInvariant, BoundIsKept, PTL DEF Spec, ImplementsLedger, Ledger!Spec

=============================================================================
