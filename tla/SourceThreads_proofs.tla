------------------------ MODULE SourceThreads_proofs ------------------------
(***************************************************************************)
(* Proofs about the two metadata sources that have threads of their own,   *)
(* EtwSession (part 1) and LocalProxy (part 2); they share no state.       *)
(***************************************************************************)
EXTENDS EtwSession, LocalProxy, SequenceTheorems, TLAPS

-----------------------------------------------------------------------------
(***************************************************************************)
(* Part 1, the trace session:                                              *)
(* Where the events of a trace session go and what stop leaves behind,     *)
(* proved for every capacity of the channels, every batch size and every   *)
(* rate.  The accounting is a sum over what each thread holds, so besides  *)
(* the types the proof needs what the position of a thread says of the     *)
(* batch in its hands (HandsAgree); what stop promises needs the order in  *)
(* which the three threads end (StopAgrees, LeavingAgrees).                *)
(***************************************************************************)

\* The normalizer holds events only between a receive and a flush, and a batch only
\* while it offers or drops it; while it waits there is room for one more event.
HandsAgree ==
    /\ normalizer \notin {"offer", "drop"} => offered = 0
    /\ normalizer \notin {"recv", "flush"} => pending = 0
    /\ normalizer = "recv" => pending < BatchSize

\* What got through in a window is part of what the window counted.
RateAgrees == window.allowed <= window.count /\ RateBounded

\* How far stop has come, and which thread and which handle are gone by then.
StopAgrees ==
    /\ control = "idle" => consumer = "none" /\ normalizer = "none"
    /\ control # "idle" => consumer # "none"
    /\ control \notin {"idle", "opening"} => consumer # "opening"
    /\ control \in {"stop", "join consumer", "join normalizer", "stopped"} => ~handle
    /\ control \in {"join normalizer", "stopped"} => consumer = "ended"
    /\ control = "stopped" => normalizer = "ended"

\* The normalizer is on its way out only when the session was cancelled or when it
\* found the channel empty and the sender gone.
LeavingAgrees ==
    /\ \/ normalizer = "leaving"
       \/ normalizer \in {"flush", "offer", "drop"} /\ afterFlush = "leaving"
       => cancellation \/ (consumer = "ended" /\ rawQueue = 0)
    /\ LostOnlyWhenCancelled

IInv == TypeOK /\ HandsAgree /\ EventsAccounted /\ RateAgrees /\ StopAgrees /\ LeavingAgrees

-----------------------------------------------------------------------------
(* The counters *)

\* Bump adds to one counter of EtwLiveMetrics and leaves the others.
LEMMA BumpValue ==
    ASSUME metrics \in [Counters -> Nat], NEW c \in Counters, NEW n \in Nat, Bump(c, n)
    PROVE  /\ metrics' \in [Counters -> Nat]
           /\ metrics'[c] = metrics[c] + n
           /\ \A d \in Counters : d # c => metrics'[d] = metrics[d]
BY DEF Bump

\* Note adds to one tally of the history and leaves the others.
LEMMA NoteValue ==
    ASSUME tally \in [Tallies -> Nat], NEW t \in Tallies, NEW n \in Nat, Note(t, n)
    PROVE  /\ tally' \in [Tallies -> Nat]
           /\ tally'[t] = tally[t] + n
           /\ \A u \in Tallies : u # t => tally'[u] = tally[u]
BY DEF Note

\* What the sums add up are natural numbers.
NumbersOK ==
    /\ metrics.raw \in Nat /\ metrics.normalized \in Nat /\ metrics.dropped \in Nat
    /\ metrics.rateLimited \in Nat /\ metrics.schemaRejected \in Nat
    /\ tally.rejected \in Nat /\ tally.queueFull \in Nat /\ tally.merged \in Nat
    /\ tally.batchFull \in Nat /\ tally.lost \in Nat
    /\ rawQueue \in Nat /\ pending \in Nat /\ offered \in Nat

\* They are, by their types and by the assumption on the capacities.
LEMMA Numbers == TypeOK => NumbersOK
BY CapacityAssumption DEF NumbersOK, TypeOK, CountersOK, ChannelsOK, Counters, Tallies

\* A session begins with empty channels and zero counters.
LEMMA InitIInv == Init => IInv
<1> SUFFICES ASSUME Init PROVE IInv
  OBVIOUS
<1>1. TypeOK
  <2>1. PlacesOK
    BY DEF Init, PlacesOK, ControlStates, ConsumerStates, NormalizerStates
  <2>2. FlagsOK
    BY DEF Init, FlagsOK
  <2>3. ChannelsOK
    BY CapacityAssumption DEF Init, ChannelsOK
  <2>4. CountersOK
    BY DEF Init, CountersOK, Counters
  <2> QED BY <2>1, <2>2, <2>3, <2>4 DEF TypeOK
<1>2. HandsAgree /\ RateAgrees /\ StopAgrees /\ LeavingAgrees
  BY CapacityAssumption DEF Init, HandsAgree, RateAgrees, RateBounded, StopAgrees, LeavingAgrees,
     LostOnlyWhenCancelled, Tallies
<1>3. EventsAccounted
  BY DEF Init, EventsAccounted, One, Counters, Tallies
<1> QED BY <1>1, <1>2, <1>3 DEF IInv

\* The control thread's steps other than a drain and the reading of counters.
LEMMA ControlStep ==
    ASSUME IInv,
           Start \/ Ready \/ RequestStop \/ Cancel
             \/ CloseTrace \/ StopTrace \/ JoinConsumer \/ JoinNormalizer
    PROVE  IInv'
<1>0. NumbersOK
  BY Numbers DEF IInv
<1> USE DEF IInv, TypeOK, shared, outcome, channels
<1>1. CASE Start
  <2>1. PlacesOK' /\ FlagsOK'
    BY <1>1 DEF Start, PlacesOK, FlagsOK, ControlStates, ConsumerStates, NormalizerStates
  <2>2. ChannelsOK'
    BY <1>1 DEF Start, ChannelsOK
  <2>3. CountersOK'
    BY <1>1 DEF Start, CountersOK
  <2>4. HandsAgree'
    BY <1>1, <1>0, CapacityAssumption DEF Start, NumbersOK, HandsAgree, StopAgrees
  <2>5. EventsAccounted'
    BY <1>1, <1>0 DEF Start, NumbersOK, EventsAccounted, One, StopAgrees
  <2>6. RateAgrees' /\ StopAgrees' /\ LeavingAgrees'
    BY <1>1, <1>0 DEF Start, NumbersOK, PlacesOK, FlagsOK, CountersOK, RateAgrees,
       RateBounded, StopAgrees, LeavingAgrees, LostOnlyWhenCancelled
  <2> QED BY <2>1, <2>2, <2>3, <2>4, <2>5, <2>6
<1>2. CASE Ready
  <2>1. PlacesOK' /\ FlagsOK'
    BY <1>2 DEF Ready, PlacesOK, FlagsOK, ControlStates
  <2>2. ChannelsOK'
    BY <1>2 DEF Ready, ChannelsOK
  <2>3. CountersOK'
    BY <1>2 DEF Ready, CountersOK
  <2>4. HandsAgree'
    BY <1>2, <1>0, CapacityAssumption DEF Ready, NumbersOK, HandsAgree
  <2>5. EventsAccounted'
    BY <1>2, <1>0 DEF Ready, NumbersOK, EventsAccounted, One
  <2>6. RateAgrees' /\ StopAgrees' /\ LeavingAgrees'
    BY <1>2, <1>0 DEF Ready, NumbersOK, PlacesOK, FlagsOK, CountersOK, RateAgrees,
       RateBounded, StopAgrees, LeavingAgrees, LostOnlyWhenCancelled
  <2> QED BY <2>1, <2>2, <2>3, <2>4, <2>5, <2>6
<1>3. CASE RequestStop
  <2>1. PlacesOK' /\ FlagsOK'
    BY <1>3 DEF RequestStop, PlacesOK, FlagsOK, ControlStates
  <2>2. ChannelsOK'
    BY <1>3 DEF RequestStop, ChannelsOK
  <2>3. CountersOK'
    BY <1>3 DEF RequestStop, CountersOK
  <2>4. HandsAgree'
    BY <1>3, <1>0, CapacityAssumption DEF RequestStop, NumbersOK, HandsAgree
  <2>5. EventsAccounted'
    BY <1>3, <1>0 DEF RequestStop, NumbersOK, EventsAccounted, One
  <2>6. RateAgrees' /\ StopAgrees' /\ LeavingAgrees'
    BY <1>3, <1>0 DEF RequestStop, NumbersOK, PlacesOK, FlagsOK, CountersOK, RateAgrees,
       RateBounded, StopAgrees, LeavingAgrees, LostOnlyWhenCancelled
  <2> QED BY <2>1, <2>2, <2>3, <2>4, <2>5, <2>6
<1>4. CASE Cancel
  <2>1. PlacesOK' /\ FlagsOK'
    BY <1>4 DEF Cancel, PlacesOK, FlagsOK, ControlStates
  <2>2. ChannelsOK'
    BY <1>4 DEF Cancel, ChannelsOK
  <2>3. CountersOK'
    BY <1>4 DEF Cancel, CountersOK
  <2>4. HandsAgree'
    BY <1>4, <1>0, CapacityAssumption DEF Cancel, NumbersOK, HandsAgree
  <2>5. EventsAccounted'
    BY <1>4, <1>0 DEF Cancel, NumbersOK, EventsAccounted, One
  <2>6. RateAgrees' /\ StopAgrees' /\ LeavingAgrees'
    BY <1>4, <1>0 DEF Cancel, NumbersOK, PlacesOK, FlagsOK, CountersOK, RateAgrees,
       RateBounded, StopAgrees, LeavingAgrees, LostOnlyWhenCancelled
  <2> QED BY <2>1, <2>2, <2>3, <2>4, <2>5, <2>6
<1>5. CASE CloseTrace
  <2>1. PlacesOK' /\ FlagsOK'
    BY <1>5 DEF CloseTrace, PlacesOK, FlagsOK, ControlStates
  <2>2. ChannelsOK'
    BY <1>5 DEF CloseTrace, ChannelsOK
  <2>3. CountersOK'
    BY <1>5 DEF CloseTrace, CountersOK
  <2>4. HandsAgree'
    BY <1>5, <1>0, CapacityAssumption DEF CloseTrace, NumbersOK, HandsAgree
  <2>5. EventsAccounted'
    BY <1>5, <1>0 DEF CloseTrace, NumbersOK, EventsAccounted, One
  <2>6. RateAgrees' /\ StopAgrees' /\ LeavingAgrees'
    BY <1>5, <1>0 DEF CloseTrace, NumbersOK, PlacesOK, FlagsOK, CountersOK, RateAgrees,
       RateBounded, StopAgrees, LeavingAgrees, LostOnlyWhenCancelled
  <2> QED BY <2>1, <2>2, <2>3, <2>4, <2>5, <2>6
<1>6. CASE StopTrace
  <2>1. PlacesOK' /\ FlagsOK'
    BY <1>6 DEF StopTrace, PlacesOK, FlagsOK, ControlStates
  <2>2. ChannelsOK'
    BY <1>6 DEF StopTrace, ChannelsOK
  <2>3. CountersOK'
    BY <1>6 DEF StopTrace, CountersOK
  <2>4. HandsAgree'
    BY <1>6, <1>0, CapacityAssumption DEF StopTrace, NumbersOK, HandsAgree
  <2>5. EventsAccounted'
    BY <1>6, <1>0 DEF StopTrace, NumbersOK, EventsAccounted, One
  <2>6. RateAgrees' /\ StopAgrees' /\ LeavingAgrees'
    BY <1>6, <1>0 DEF StopTrace, NumbersOK, PlacesOK, FlagsOK, CountersOK, RateAgrees,
       RateBounded, StopAgrees, LeavingAgrees, LostOnlyWhenCancelled
  <2> QED BY <2>1, <2>2, <2>3, <2>4, <2>5, <2>6
<1>7. CASE JoinConsumer
  <2>1. PlacesOK' /\ FlagsOK'
    BY <1>7 DEF JoinConsumer, PlacesOK, FlagsOK, ControlStates
  <2>2. ChannelsOK'
    BY <1>7 DEF JoinConsumer, ChannelsOK
  <2>3. CountersOK'
    BY <1>7 DEF JoinConsumer, CountersOK
  <2>4. HandsAgree'
    BY <1>7, <1>0, CapacityAssumption DEF JoinConsumer, NumbersOK, HandsAgree
  <2>5. EventsAccounted'
    BY <1>7, <1>0 DEF JoinConsumer, NumbersOK, EventsAccounted, One
  <2>6. RateAgrees' /\ StopAgrees' /\ LeavingAgrees'
    BY <1>7, <1>0 DEF JoinConsumer, NumbersOK, PlacesOK, FlagsOK, CountersOK, RateAgrees,
       RateBounded, StopAgrees, LeavingAgrees, LostOnlyWhenCancelled
  <2> QED BY <2>1, <2>2, <2>3, <2>4, <2>5, <2>6
<1>8. CASE JoinNormalizer
  <2>1. PlacesOK' /\ FlagsOK'
    BY <1>8 DEF JoinNormalizer, PlacesOK, FlagsOK, ControlStates
  <2>2. ChannelsOK'
    BY <1>8 DEF JoinNormalizer, ChannelsOK
  <2>3. CountersOK'
    BY <1>8 DEF JoinNormalizer, CountersOK
  <2>4. HandsAgree'
    BY <1>8, <1>0, CapacityAssumption DEF JoinNormalizer, NumbersOK, HandsAgree
  <2>5. EventsAccounted'
    BY <1>8, <1>0 DEF JoinNormalizer, NumbersOK, EventsAccounted, One
  <2>6. RateAgrees' /\ StopAgrees' /\ LeavingAgrees'
    BY <1>8, <1>0 DEF JoinNormalizer, NumbersOK, PlacesOK, FlagsOK, CountersOK, RateAgrees,
       RateBounded, StopAgrees, LeavingAgrees, LostOnlyWhenCancelled
  <2> QED BY <2>1, <2>2, <2>3, <2>4, <2>5, <2>6
<1> QED BY <1>1, <1>2, <1>3, <1>4, <1>5, <1>6, <1>7, <1>8

\* A drain takes batches off the channel, and live_outcome reads the counters: neither touches
\* what is accounted for.
LEMMA ReadingStep ==
    ASSUME IInv,
           Drain \/ ReadCounter \/ Report
    PROVE  IInv'
<1>0. NumbersOK
  BY Numbers DEF IInv
<1> USE DEF IInv, TypeOK, shared, outcome, channels
<1>1. CASE Drain
  <2>n. /\ tally' \in [Tallies -> Nat] /\ tally'.rejected = tally.rejected
        /\ tally'.queueFull = tally.queueFull /\ tally'.merged = tally.merged
        /\ tally'.batchFull = tally.batchFull /\ tally'.lost = tally.lost
    BY <1>1, NoteValue DEF Drain, CountersOK, Tallies
  <2>q. batchQueue' \in Seq(0 .. BatchSize) /\ Len(batchQueue') <= BatchCapacity
    <3>1. PICK n \in 0 .. MaxDrain : /\ n <= Len(batchQueue)
                                    /\ batchQueue' = SubSeq(batchQueue, n + 1, Len(batchQueue))
      BY <1>1 DEF Drain
    <3>2. /\ batchQueue \in Seq(0 .. BatchSize) /\ Len(batchQueue) \in Nat /\ n \in Nat
          /\ Len(batchQueue) <= BatchCapacity
      BY <3>1, CapacityAssumption DEF ChannelsOK
    <3>3. ASSUME NEW i \in n + 1 .. Len(batchQueue)
          PROVE  batchQueue[i] \in 0 .. BatchSize
      <4>1. i \in 1 .. Len(batchQueue)
        BY <3>2
      <4> QED BY <3>2, <4>1, ElementOfSeq
    <3> DEFINE rest == SubSeq(batchQueue, n + 1, Len(batchQueue))
    <3>4. /\ rest \in Seq(0 .. BatchSize)
          /\ Len(rest) = IF n + 1 <= Len(batchQueue) THEN Len(batchQueue) - (n + 1) + 1 ELSE 0
      BY <3>2, <3>3, SubSeqProperties
    <3> QED BY <3>1, <3>2, <3>4, CapacityAssumption
  <2>a. /\ control = "active" /\ control' = "reading"
        /\ UNCHANGED <<consumer, normalizer, afterFlush, shared, workers, rawQueue, pending,
                      offered, metrics, window, outcome>>
    BY <1>1 DEF Drain
  <2>1. PlacesOK' /\ FlagsOK'
    BY <2>a, <2>n, <2>q DEF PlacesOK, FlagsOK, ControlStates
  <2>2. ChannelsOK'
    BY <2>a, <2>n, <2>q DEF ChannelsOK
  <2>3. CountersOK'
    BY <2>a, <2>n, <2>q DEF CountersOK
  <2>4. HandsAgree'
    BY <2>a, <2>n, <2>q, <1>0, CapacityAssumption DEF NumbersOK, HandsAgree
  <2>5. EventsAccounted'
    BY <2>a, <2>n, <2>q, <1>0 DEF NumbersOK, EventsAccounted, One
  <2>6. RateAgrees' /\ StopAgrees' /\ LeavingAgrees'
    BY <2>a, <2>n, <2>q, <1>0 DEF NumbersOK, PlacesOK, FlagsOK, CountersOK, RateAgrees,
       RateBounded, StopAgrees, LeavingAgrees, LostOnlyWhenCancelled
  <2> QED BY <2>1, <2>2, <2>3, <2>4, <2>5, <2>6
<1>2. CASE ReadCounter
  <2>1. PlacesOK' /\ FlagsOK'
    BY <1>2 DEF ReadCounter, NextCounter, Counters, PlacesOK, FlagsOK, ControlStates
  <2>2. ChannelsOK'
    BY <1>2 DEF ReadCounter, NextCounter, Counters, ChannelsOK
  <2>3. CountersOK'
    BY <1>2 DEF ReadCounter, NextCounter, Counters, CountersOK
  <2>4. HandsAgree'
    BY <1>2, <1>0, CapacityAssumption DEF ReadCounter, NextCounter, Counters, NumbersOK,
       HandsAgree
  <2>5. EventsAccounted'
    BY <1>2, <1>0 DEF ReadCounter, NextCounter, Counters, NumbersOK, EventsAccounted, One
  <2>6. RateAgrees' /\ StopAgrees' /\ LeavingAgrees'
    BY <1>2, <1>0 DEF ReadCounter, NextCounter, Counters, NumbersOK, PlacesOK, FlagsOK,
       CountersOK, RateAgrees, RateBounded, StopAgrees, LeavingAgrees, LostOnlyWhenCancelled
  <2> QED BY <2>1, <2>2, <2>3, <2>4, <2>5, <2>6
<1>3. CASE Report
  <2>1. PlacesOK' /\ FlagsOK'
    BY <1>3 DEF Report, NextCounter, Counters, PlacesOK, FlagsOK, ControlStates
  <2>2. ChannelsOK'
    BY <1>3 DEF Report, NextCounter, Counters, ChannelsOK
  <2>3. CountersOK'
    BY <1>3 DEF Report, NextCounter, Counters, CountersOK
  <2>4. HandsAgree'
    BY <1>3, <1>0, CapacityAssumption DEF Report, NextCounter, Counters, NumbersOK, HandsAgree
  <2>5. EventsAccounted'
    BY <1>3, <1>0 DEF Report, NextCounter, Counters, NumbersOK, EventsAccounted, One
  <2>6. RateAgrees' /\ StopAgrees' /\ LeavingAgrees'
    BY <1>3, <1>0 DEF Report, NextCounter, Counters, NumbersOK, PlacesOK, FlagsOK, CountersOK,
       RateAgrees, RateBounded, StopAgrees, LeavingAgrees, LostOnlyWhenCancelled
  <2> QED BY <2>1, <2>2, <2>3, <2>4, <2>5, <2>6
<1> QED BY <1>1, <1>2, <1>3

\* The callback observes an event, or refuses one of another provider, or counts a drop.
LEMMA CallbackStep ==
    ASSUME IInv,
           ForeignEvent \/ Event \/ CountDrop
    PROVE  IInv'
<1>0. NumbersOK
  BY Numbers DEF IInv
<1> USE DEF IInv, TypeOK, shared, outcome, channels
<1>1. CASE ForeignEvent
  <2>b. /\ metrics' \in [Counters -> Nat] /\ metrics'.raw = metrics.raw
        /\ metrics'.normalized = metrics.normalized /\ metrics'.dropped = metrics.dropped
        /\ metrics'.rateLimited = metrics.rateLimited
        /\ metrics'.schemaRejected = metrics.schemaRejected + 1
    BY <1>1, BumpValue DEF ForeignEvent, CountersOK, Counters
  <2>n. /\ tally' \in [Tallies -> Nat] /\ tally'.rejected = tally.rejected
        /\ tally'.queueFull = tally.queueFull /\ tally'.merged = tally.merged
        /\ tally'.batchFull = tally.batchFull /\ tally'.lost = tally.lost
    BY <1>1, NoteValue DEF ForeignEvent, CountersOK, Tallies
  <2>a. /\ consumer = "trace" /\ consumer' = "drop"
        /\ UNCHANGED <<control, normalizer, afterFlush, shared, workers, rawQueue, pending,
                      offered, batchQueue, window, outcome>>
    BY <1>1 DEF ForeignEvent
  <2>1. PlacesOK' /\ FlagsOK'
    BY <2>a, <2>b, <2>n DEF PlacesOK, FlagsOK, ConsumerStates
  <2>2. ChannelsOK'
    BY <2>a, <2>b, <2>n DEF ChannelsOK
  <2>3. CountersOK'
    BY <2>a, <2>b, <2>n DEF CountersOK
  <2>4. HandsAgree'
    BY <2>a, <2>b, <2>n, <1>0, CapacityAssumption DEF NumbersOK, HandsAgree
  <2>5. EventsAccounted'
    BY <2>a, <2>b, <2>n, <1>0 DEF NumbersOK, EventsAccounted, One
  <2>6. RateAgrees' /\ StopAgrees' /\ LeavingAgrees'
    BY <2>a, <2>b, <2>n, <1>0 DEF NumbersOK, PlacesOK, FlagsOK, CountersOK, RateAgrees,
       RateBounded, StopAgrees, LeavingAgrees, LostOnlyWhenCancelled
  <2> QED BY <2>1, <2>2, <2>3, <2>4, <2>5, <2>6
<1>2. CASE Event
  <2>b. /\ metrics' \in [Counters -> Nat] /\ metrics'.raw = metrics.raw + 1
        /\ metrics'.normalized = metrics.normalized /\ metrics'.dropped = metrics.dropped
        /\ metrics'.rateLimited = metrics.rateLimited
        /\ metrics'.schemaRejected = metrics.schemaRejected
    BY <1>2, BumpValue DEF Event, CountersOK, Counters
  <2>n. /\ tally' \in [Tallies -> Nat] /\ tally'.rejected = tally.rejected
        /\ tally'.queueFull = tally.queueFull /\ tally'.merged = tally.merged
        /\ tally'.batchFull = tally.batchFull /\ tally'.lost = tally.lost
    BY <1>2, NoteValue DEF Event, CountersOK, Tallies
  <2>a. /\ consumer = "trace" /\ consumer' = "observed"
        /\ UNCHANGED <<control, normalizer, afterFlush, shared, workers, rawQueue, pending,
                      offered, batchQueue, window, outcome>>
    BY <1>2 DEF Event
  <2>1. PlacesOK' /\ FlagsOK'
    BY <2>a, <2>b, <2>n DEF PlacesOK, FlagsOK, ConsumerStates
  <2>2. ChannelsOK'
    BY <2>a, <2>b, <2>n DEF ChannelsOK
  <2>3. CountersOK'
    BY <2>a, <2>b, <2>n DEF CountersOK
  <2>4. HandsAgree'
    BY <2>a, <2>b, <2>n, <1>0, CapacityAssumption DEF NumbersOK, HandsAgree
  <2>5. EventsAccounted'
    BY <2>a, <2>b, <2>n, <1>0 DEF NumbersOK, EventsAccounted, One
  <2>6. RateAgrees' /\ StopAgrees' /\ LeavingAgrees'
    BY <2>a, <2>b, <2>n, <1>0 DEF NumbersOK, PlacesOK, FlagsOK, CountersOK, RateAgrees,
       RateBounded, StopAgrees, LeavingAgrees, LostOnlyWhenCancelled
  <2> QED BY <2>1, <2>2, <2>3, <2>4, <2>5, <2>6
<1>3. CASE CountDrop
  <2>b. /\ metrics' \in [Counters -> Nat] /\ metrics'.raw = metrics.raw
        /\ metrics'.normalized = metrics.normalized /\ metrics'.dropped = metrics.dropped + 1
        /\ metrics'.rateLimited = metrics.rateLimited
        /\ metrics'.schemaRejected = metrics.schemaRejected
    BY <1>3, BumpValue DEF CountDrop, CountersOK, Counters
  <2>a. /\ consumer = "drop" /\ consumer' = "trace"
        /\ UNCHANGED <<control, normalizer, afterFlush, shared, workers, rawQueue, pending,
                      offered, batchQueue, window, outcome, tally>>
    BY <1>3 DEF CountDrop
  <2>1. PlacesOK' /\ FlagsOK'
    BY <2>a, <2>b DEF PlacesOK, FlagsOK, ConsumerStates
  <2>2. ChannelsOK'
    BY <2>a, <2>b DEF ChannelsOK
  <2>3. CountersOK'
    BY <2>a, <2>b DEF CountersOK
  <2>4. HandsAgree'
    BY <2>a, <2>b, <1>0, CapacityAssumption DEF NumbersOK, HandsAgree
  <2>5. EventsAccounted'
    BY <2>a, <2>b, <1>0 DEF NumbersOK, EventsAccounted, One
  <2>6. RateAgrees' /\ StopAgrees' /\ LeavingAgrees'
    BY <2>a, <2>b, <1>0 DEF NumbersOK, PlacesOK, FlagsOK, CountersOK, RateAgrees, RateBounded,
       StopAgrees, LeavingAgrees, LostOnlyWhenCancelled
  <2> QED BY <2>1, <2>2, <2>3, <2>4, <2>5, <2>6
<1> QED BY <1>1, <1>2, <1>3

\* The consumer thread around the callback, the window's next second, and a trace that ends.
LEMMA ConsumerStep ==
    ASSUME IInv,
           OpenTrace \/ ProcessTrace \/ ProcessTraceReturns \/ ConsumerEnds
             \/ NextSecond \/ TraceEnds
    PROVE  IInv'
<1>0. NumbersOK
  BY Numbers DEF IInv
<1> USE DEF IInv, TypeOK, shared, outcome, channels
<1>1. CASE OpenTrace
  <2>1. PlacesOK' /\ FlagsOK'
    BY <1>1 DEF OpenTrace, PlacesOK, FlagsOK, ConsumerStates
  <2>2. ChannelsOK'
    BY <1>1 DEF OpenTrace, ChannelsOK
  <2>3. CountersOK'
    BY <1>1 DEF OpenTrace, CountersOK
  <2>4. HandsAgree'
    BY <1>1, <1>0, CapacityAssumption DEF OpenTrace, NumbersOK, HandsAgree
  <2>5. EventsAccounted'
    BY <1>1, <1>0 DEF OpenTrace, NumbersOK, EventsAccounted, One
  <2>6. RateAgrees' /\ StopAgrees' /\ LeavingAgrees'
    BY <1>1, <1>0 DEF OpenTrace, NumbersOK, PlacesOK, FlagsOK, CountersOK, RateAgrees,
       RateBounded, StopAgrees, LeavingAgrees, LostOnlyWhenCancelled
  <2> QED BY <2>1, <2>2, <2>3, <2>4, <2>5, <2>6
<1>2. CASE ProcessTrace
  <2>1. PlacesOK' /\ FlagsOK'
    BY <1>2 DEF ProcessTrace, PlacesOK, FlagsOK, ConsumerStates
  <2>2. ChannelsOK'
    BY <1>2 DEF ProcessTrace, ChannelsOK
  <2>3. CountersOK'
    BY <1>2 DEF ProcessTrace, CountersOK
  <2>4. HandsAgree'
    BY <1>2, <1>0, CapacityAssumption DEF ProcessTrace, NumbersOK, HandsAgree
  <2>5. EventsAccounted'
    BY <1>2, <1>0 DEF ProcessTrace, NumbersOK, EventsAccounted, One
  <2>6. RateAgrees' /\ StopAgrees' /\ LeavingAgrees'
    BY <1>2, <1>0 DEF ProcessTrace, NumbersOK, PlacesOK, FlagsOK, CountersOK, RateAgrees,
       RateBounded, StopAgrees, LeavingAgrees, LostOnlyWhenCancelled
  <2> QED BY <2>1, <2>2, <2>3, <2>4, <2>5, <2>6
<1>3. CASE ProcessTraceReturns
  <2>1. PlacesOK' /\ FlagsOK'
    BY <1>3 DEF ProcessTraceReturns, PlacesOK, FlagsOK, ConsumerStates
  <2>2. ChannelsOK'
    BY <1>3 DEF ProcessTraceReturns, ChannelsOK
  <2>3. CountersOK'
    BY <1>3 DEF ProcessTraceReturns, CountersOK
  <2>4. HandsAgree'
    BY <1>3, <1>0, CapacityAssumption DEF ProcessTraceReturns, NumbersOK, HandsAgree
  <2>5. EventsAccounted'
    BY <1>3, <1>0 DEF ProcessTraceReturns, NumbersOK, EventsAccounted, One
  <2>6. RateAgrees' /\ StopAgrees' /\ LeavingAgrees'
    BY <1>3, <1>0 DEF ProcessTraceReturns, NumbersOK, PlacesOK, FlagsOK, CountersOK,
       RateAgrees, RateBounded, StopAgrees, LeavingAgrees, LostOnlyWhenCancelled
  <2> QED BY <2>1, <2>2, <2>3, <2>4, <2>5, <2>6
<1>4. CASE ConsumerEnds
  <2>1. PlacesOK' /\ FlagsOK'
    BY <1>4 DEF ConsumerEnds, PlacesOK, FlagsOK, ConsumerStates
  <2>2. ChannelsOK'
    BY <1>4 DEF ConsumerEnds, ChannelsOK
  <2>3. CountersOK'
    BY <1>4 DEF ConsumerEnds, CountersOK
  <2>4. HandsAgree'
    BY <1>4, <1>0, CapacityAssumption DEF ConsumerEnds, NumbersOK, HandsAgree
  <2>5. EventsAccounted'
    BY <1>4, <1>0 DEF ConsumerEnds, NumbersOK, EventsAccounted, One
  <2>6. RateAgrees' /\ StopAgrees' /\ LeavingAgrees'
    BY <1>4, <1>0 DEF ConsumerEnds, NumbersOK, PlacesOK, FlagsOK, CountersOK, RateAgrees,
       RateBounded, StopAgrees, LeavingAgrees, LostOnlyWhenCancelled
  <2> QED BY <2>1, <2>2, <2>3, <2>4, <2>5, <2>6
<1>5. CASE NextSecond
  <2>1. PlacesOK' /\ FlagsOK'
    BY <1>5 DEF NextSecond, PlacesOK, FlagsOK
  <2>2. ChannelsOK'
    BY <1>5 DEF NextSecond, ChannelsOK
  <2>3. CountersOK'
    BY <1>5 DEF NextSecond, CountersOK
  <2>4. HandsAgree'
    BY <1>5, <1>0, CapacityAssumption DEF NextSecond, NumbersOK, HandsAgree
  <2>5. EventsAccounted'
    BY <1>5, <1>0 DEF NextSecond, NumbersOK, EventsAccounted, One
  <2>6. RateAgrees' /\ StopAgrees' /\ LeavingAgrees'
    BY <1>5, <1>0 DEF NextSecond, NumbersOK, PlacesOK, FlagsOK, CountersOK, RateAgrees,
       RateBounded, StopAgrees, LeavingAgrees, LostOnlyWhenCancelled
  <2> QED BY <2>1, <2>2, <2>3, <2>4, <2>5, <2>6
<1>6. CASE TraceEnds
  <2>1. PlacesOK' /\ FlagsOK'
    BY <1>6 DEF TraceEnds, PlacesOK, FlagsOK
  <2>2. ChannelsOK'
    BY <1>6 DEF TraceEnds, ChannelsOK
  <2>3. CountersOK'
    BY <1>6 DEF TraceEnds, CountersOK
  <2>4. HandsAgree'
    BY <1>6, <1>0, CapacityAssumption DEF TraceEnds, NumbersOK, HandsAgree
  <2>5. EventsAccounted'
    BY <1>6, <1>0 DEF TraceEnds, NumbersOK, EventsAccounted, One
  <2>6. RateAgrees' /\ StopAgrees' /\ LeavingAgrees'
    BY <1>6, <1>0 DEF TraceEnds, NumbersOK, PlacesOK, FlagsOK, CountersOK, RateAgrees,
       RateBounded, StopAgrees, LeavingAgrees, LostOnlyWhenCancelled
  <2> QED BY <2>1, <2>2, <2>3, <2>4, <2>5, <2>6
<1> QED BY <1>1, <1>2, <1>3, <1>4, <1>5, <1>6

\* rate_limit_allows lets an event through only while its window has counted fewer than
\* the limit, and the first event of a window is counted.
LEMMA WindowStep ==
    ASSUME NEW w \in [count : Nat, over : BOOLEAN, allowed : Nat],
           w.allowed <= w.count, w.allowed <= MaxRate
    PROVE  /\ RateLimit(w) \in [count : Nat, over : BOOLEAN, allowed : Nat]
           /\ RateLimit(w).allowed <= RateLimit(w).count
           /\ RateLimit(w).allowed <= MaxRate
<1>1. CASE w.over
  BY <1>1, CapacityAssumption DEF RateLimit
<1>2. CASE ~w.over
  BY <1>2, CapacityAssumption DEF RateLimit
<1> QED BY <1>1, <1>2

\* The rate limit: an event over it is counted as such.
LEMMA RateCheckStep ==
    ASSUME IInv,
           RateCheck
    PROVE  IInv'
<1>0. NumbersOK
  BY Numbers DEF IInv
<1> USE DEF IInv, TypeOK, shared, outcome, channels
<1>1. CASE window.over \/ window.count < MaxRate
  <2>w. /\ window' \in [count : Nat, over : BOOLEAN, allowed : Nat]
        /\ window'.allowed <= window'.count /\ window'.allowed <= MaxRate
    BY <1>1, WindowStep DEF RateCheck, RateAgrees, RateBounded, CountersOK
  <2>a. /\ consumer = "observed" /\ consumer' = "classify"
        /\ UNCHANGED <<control, normalizer, afterFlush, shared, workers, rawQueue, pending,
                      offered, batchQueue, metrics, outcome, tally>>
    BY <1>1 DEF RateCheck
  <2>1. PlacesOK' /\ FlagsOK'
    BY <2>a, <2>w DEF PlacesOK, FlagsOK, ConsumerStates
  <2>2. ChannelsOK'
    BY <2>a, <2>w DEF ChannelsOK
  <2>3. CountersOK'
    BY <2>a, <2>w DEF CountersOK
  <2>4. HandsAgree'
    BY <2>a, <2>w, <1>0, CapacityAssumption DEF NumbersOK, HandsAgree
  <2>5. EventsAccounted'
    BY <2>a, <2>w, <1>0 DEF NumbersOK, EventsAccounted, One
  <2>6. RateAgrees' /\ StopAgrees' /\ LeavingAgrees'
    BY <2>a, <2>w, <1>0 DEF NumbersOK, PlacesOK, FlagsOK, CountersOK, RateAgrees, RateBounded,
       StopAgrees, LeavingAgrees, LostOnlyWhenCancelled
  <2> QED BY <2>1, <2>2, <2>3, <2>4, <2>5, <2>6
<1>2. CASE ~(window.over \/ window.count < MaxRate)
  <2>b. /\ metrics' \in [Counters -> Nat] /\ metrics'.raw = metrics.raw
        /\ metrics'.normalized = metrics.normalized /\ metrics'.dropped = metrics.dropped
        /\ metrics'.rateLimited = metrics.rateLimited + 1
        /\ metrics'.schemaRejected = metrics.schemaRejected
    BY <1>2, BumpValue DEF RateCheck, CountersOK, Counters
  <2>w. /\ window' \in [count : Nat, over : BOOLEAN, allowed : Nat]
        /\ window'.allowed <= window'.count /\ window'.allowed <= MaxRate
    BY <1>2, WindowStep DEF RateCheck, RateAgrees, RateBounded, CountersOK
  <2>a. /\ consumer = "observed" /\ consumer' = "drop"
        /\ UNCHANGED <<control, normalizer, afterFlush, shared, workers, rawQueue, pending,
                      offered, batchQueue, outcome, tally>>
    BY <1>2 DEF RateCheck
  <2>1. PlacesOK' /\ FlagsOK'
    BY <2>a, <2>b, <2>w DEF PlacesOK, FlagsOK, ConsumerStates
  <2>2. ChannelsOK'
    BY <2>a, <2>b, <2>w DEF ChannelsOK
  <2>3. CountersOK'
    BY <2>a, <2>b, <2>w DEF CountersOK
  <2>4. HandsAgree'
    BY <2>a, <2>b, <2>w, <1>0, CapacityAssumption DEF NumbersOK, HandsAgree
  <2>5. EventsAccounted'
    BY <2>a, <2>b, <2>w, <1>0 DEF NumbersOK, EventsAccounted, One
  <2>6. RateAgrees' /\ StopAgrees' /\ LeavingAgrees'
    BY <2>a, <2>b, <2>w, <1>0 DEF NumbersOK, PlacesOK, FlagsOK, CountersOK, RateAgrees,
       RateBounded, StopAgrees, LeavingAgrees, LostOnlyWhenCancelled
  <2> QED BY <2>1, <2>2, <2>3, <2>4, <2>5, <2>6
<1> QED BY <1>1, <1>2

\* The descriptor is accepted or rejected.
LEMMA ClassifyStep ==
    ASSUME IInv,
           Classify
    PROVE  IInv'
<1>0. NumbersOK
  BY Numbers DEF IInv
<1> USE DEF IInv, TypeOK, shared, outcome, channels
<1>1. CASE consumer' = "send"
  <2>a. /\ consumer = "classify" /\ consumer' = "send"
        /\ UNCHANGED <<control, normalizer, afterFlush, shared, workers, rawQueue, pending,
                      offered, batchQueue, metrics, window, outcome, tally>>
    BY <1>1 DEF Classify
  <2>1. PlacesOK' /\ FlagsOK'
    BY <2>a DEF PlacesOK, FlagsOK, ConsumerStates
  <2>2. ChannelsOK'
    BY <2>a DEF ChannelsOK
  <2>3. CountersOK'
    BY <2>a DEF CountersOK
  <2>4. HandsAgree'
    BY <2>a, <1>0, CapacityAssumption DEF NumbersOK, HandsAgree
  <2>5. EventsAccounted'
    BY <2>a, <1>0 DEF NumbersOK, EventsAccounted, One
  <2>6. RateAgrees' /\ StopAgrees' /\ LeavingAgrees'
    BY <2>a, <1>0 DEF NumbersOK, PlacesOK, FlagsOK, CountersOK, RateAgrees, RateBounded,
       StopAgrees, LeavingAgrees, LostOnlyWhenCancelled
  <2> QED BY <2>1, <2>2, <2>3, <2>4, <2>5, <2>6
<1>2. CASE consumer' = "drop"
  <2>b. /\ metrics' \in [Counters -> Nat] /\ metrics'.raw = metrics.raw
        /\ metrics'.normalized = metrics.normalized /\ metrics'.dropped = metrics.dropped
        /\ metrics'.rateLimited = metrics.rateLimited
        /\ metrics'.schemaRejected = metrics.schemaRejected + 1
    BY <1>2, BumpValue DEF Classify, CountersOK, Counters
  <2>n. /\ tally' \in [Tallies -> Nat] /\ tally'.rejected = tally.rejected + 1
        /\ tally'.queueFull = tally.queueFull /\ tally'.merged = tally.merged
        /\ tally'.batchFull = tally.batchFull /\ tally'.lost = tally.lost
    BY <1>2, NoteValue DEF Classify, CountersOK, Tallies
  <2>a. /\ consumer = "classify" /\ consumer' = "drop"
        /\ UNCHANGED <<control, normalizer, afterFlush, shared, workers, rawQueue, pending,
                      offered, batchQueue, window, outcome>>
    BY <1>2 DEF Classify
  <2>1. PlacesOK' /\ FlagsOK'
    BY <2>a, <2>b, <2>n DEF PlacesOK, FlagsOK, ConsumerStates
  <2>2. ChannelsOK'
    BY <2>a, <2>b, <2>n DEF ChannelsOK
  <2>3. CountersOK'
    BY <2>a, <2>b, <2>n DEF CountersOK
  <2>4. HandsAgree'
    BY <2>a, <2>b, <2>n, <1>0, CapacityAssumption DEF NumbersOK, HandsAgree
  <2>5. EventsAccounted'
    BY <2>a, <2>b, <2>n, <1>0 DEF NumbersOK, EventsAccounted, One
  <2>6. RateAgrees' /\ StopAgrees' /\ LeavingAgrees'
    BY <2>a, <2>b, <2>n, <1>0 DEF NumbersOK, PlacesOK, FlagsOK, CountersOK, RateAgrees,
       RateBounded, StopAgrees, LeavingAgrees, LostOnlyWhenCancelled
  <2> QED BY <2>1, <2>2, <2>3, <2>4, <2>5, <2>6
<1> QED BY <1>1, <1>2 DEF Classify

\* try_send puts the event in the channel, or finds it full or closed.
LEMMA SendStep ==
    ASSUME IInv,
           Send
    PROVE  IInv'
<1>0. NumbersOK
  BY Numbers DEF IInv
<1> USE DEF IInv, TypeOK, shared, outcome, channels
<1>1. CASE ReceiverAlive /\ rawQueue < RawCapacity
  <2>a. /\ consumer = "send" /\ consumer' = "trace" /\ rawQueue' = rawQueue + 1
        /\ rawQueue < RawCapacity
        /\ UNCHANGED <<control, normalizer, afterFlush, shared, workers, pending, offered,
                      batchQueue, metrics, window, outcome, tally>>
    BY <1>1 DEF Send
  <2>1. PlacesOK' /\ FlagsOK'
    BY <2>a DEF PlacesOK, FlagsOK, ConsumerStates
  <2>2. ChannelsOK'
    BY <2>a, <1>0, CapacityAssumption DEF NumbersOK, ChannelsOK
  <2>3. CountersOK'
    BY <2>a DEF CountersOK
  <2>4. HandsAgree'
    BY <2>a, <1>0, CapacityAssumption DEF NumbersOK, HandsAgree
  <2>5. EventsAccounted'
    BY <2>a, <1>0 DEF NumbersOK, EventsAccounted, One
  <2>6. RateAgrees' /\ StopAgrees' /\ LeavingAgrees'
    BY <2>a, <1>0 DEF NumbersOK, PlacesOK, FlagsOK, CountersOK, RateAgrees, RateBounded,
       StopAgrees, LeavingAgrees, LostOnlyWhenCancelled
  <2> QED BY <2>1, <2>2, <2>3, <2>4, <2>5, <2>6
<1>2. CASE ~(ReceiverAlive /\ rawQueue < RawCapacity)
  <2>n. /\ tally' \in [Tallies -> Nat] /\ tally'.rejected = tally.rejected
        /\ tally'.queueFull = tally.queueFull + 1 /\ tally'.merged = tally.merged
        /\ tally'.batchFull = tally.batchFull /\ tally'.lost = tally.lost
    BY <1>2, NoteValue DEF Send, CountersOK, Tallies
  <2>a. /\ consumer = "send" /\ consumer' = "drop"
        /\ UNCHANGED <<control, normalizer, afterFlush, shared, workers, rawQueue, pending,
                      offered, batchQueue, metrics, window, outcome>>
    BY <1>2 DEF Send
  <2>1. PlacesOK' /\ FlagsOK'
    BY <2>a, <2>n DEF PlacesOK, FlagsOK, ConsumerStates
  <2>2. ChannelsOK'
    BY <2>a, <2>n DEF ChannelsOK
  <2>3. CountersOK'
    BY <2>a, <2>n DEF CountersOK
  <2>4. HandsAgree'
    BY <2>a, <2>n, <1>0, CapacityAssumption DEF NumbersOK, HandsAgree
  <2>5. EventsAccounted'
    BY <2>a, <2>n, <1>0 DEF NumbersOK, EventsAccounted, One
  <2>6. RateAgrees' /\ StopAgrees' /\ LeavingAgrees'
    BY <2>a, <2>n, <1>0 DEF NumbersOK, PlacesOK, FlagsOK, CountersOK, RateAgrees, RateBounded,
       StopAgrees, LeavingAgrees, LostOnlyWhenCancelled
  <2> QED BY <2>1, <2>2, <2>3, <2>4, <2>5, <2>6
<1> QED BY <1>1, <1>2

\* The normalizer begins, finds the channel empty, and looks at the flag.
LEMMA NormalizerStep ==
    ASSUME IInv,
           NormalizerBegins \/ ReceiveNothing \/ CheckCancellation
    PROVE  IInv'
<1>0. NumbersOK
  BY Numbers DEF IInv
<1> USE DEF IInv, TypeOK, shared, outcome, channels
<1>1. CASE NormalizerBegins
  <2>1. PlacesOK' /\ FlagsOK'
    BY <1>1 DEF NormalizerBegins, PlacesOK, FlagsOK, NormalizerStates
  <2>2. ChannelsOK'
    BY <1>1 DEF NormalizerBegins, ChannelsOK
  <2>3. CountersOK'
    BY <1>1 DEF NormalizerBegins, CountersOK
  <2>4. HandsAgree'
    BY <1>1, <1>0, CapacityAssumption DEF NormalizerBegins, NumbersOK, HandsAgree
  <2>5. EventsAccounted'
    BY <1>1, <1>0 DEF NormalizerBegins, NumbersOK, EventsAccounted, One
  <2>6. RateAgrees' /\ StopAgrees' /\ LeavingAgrees'
    BY <1>1, <1>0 DEF NormalizerBegins, NumbersOK, PlacesOK, FlagsOK, CountersOK, RateAgrees,
       RateBounded, StopAgrees, LeavingAgrees, LostOnlyWhenCancelled
  <2> QED BY <2>1, <2>2, <2>3, <2>4, <2>5, <2>6
<1>2. CASE ReceiveNothing
  <2>1. PlacesOK' /\ FlagsOK'
    BY <1>2 DEF ReceiveNothing, SenderAlive, PlacesOK, FlagsOK, NormalizerStates
  <2>2. ChannelsOK'
    BY <1>2 DEF ReceiveNothing, SenderAlive, ChannelsOK
  <2>3. CountersOK'
    BY <1>2 DEF ReceiveNothing, SenderAlive, CountersOK
  <2>4. HandsAgree'
    BY <1>2, <1>0, CapacityAssumption DEF ReceiveNothing, SenderAlive, NumbersOK, HandsAgree
  <2>5. EventsAccounted'
    BY <1>2, <1>0 DEF ReceiveNothing, SenderAlive, NumbersOK, EventsAccounted, One
  <2>6. RateAgrees' /\ StopAgrees' /\ LeavingAgrees'
    BY <1>2, <1>0 DEF ReceiveNothing, SenderAlive, NumbersOK, PlacesOK, FlagsOK, CountersOK,
       RateAgrees, RateBounded, StopAgrees, LeavingAgrees, LostOnlyWhenCancelled
  <2> QED BY <2>1, <2>2, <2>3, <2>4, <2>5, <2>6
<1>3. CASE CheckCancellation
  <2>1. PlacesOK' /\ FlagsOK'
    BY <1>3 DEF CheckCancellation, PlacesOK, FlagsOK, NormalizerStates
  <2>2. ChannelsOK'
    BY <1>3 DEF CheckCancellation, ChannelsOK
  <2>3. CountersOK'
    BY <1>3 DEF CheckCancellation, CountersOK
  <2>4. HandsAgree'
    BY <1>3, <1>0, CapacityAssumption DEF CheckCancellation, NumbersOK, HandsAgree
  <2>5. EventsAccounted'
    BY <1>3, <1>0 DEF CheckCancellation, NumbersOK, EventsAccounted, One
  <2>6. RateAgrees' /\ StopAgrees' /\ LeavingAgrees'
    BY <1>3, <1>0 DEF CheckCancellation, NumbersOK, PlacesOK, FlagsOK, CountersOK, RateAgrees,
       RateBounded, StopAgrees, LeavingAgrees, LostOnlyWhenCancelled
  <2> QED BY <2>1, <2>2, <2>3, <2>4, <2>5, <2>6
<1> QED BY <1>1, <1>2, <1>3

\* recv_timeout moves an event from the channel to the pending ones; a full batch is flushed.
LEMMA ReceiveStep ==
    ASSUME IInv,
           Receive
    PROVE  IInv'
<1>0. NumbersOK
  BY Numbers DEF IInv
<1> USE DEF IInv, TypeOK, shared, outcome, channels
<1>1. CASE pending + 1 >= BatchSize
  <2>a. /\ normalizer = "recv" /\ normalizer' = "flush" /\ rawQueue > 0
        /\ rawQueue' = rawQueue - 1 /\ pending' = pending + 1 /\ afterFlush' = "recv"
        /\ UNCHANGED <<control, consumer, shared, workers, offered, batchQueue, metrics,
                      window, outcome, tally>>
    BY <1>1 DEF Receive
  <2>1. PlacesOK' /\ FlagsOK'
    BY <2>a, <1>0, <1>1 DEF PlacesOK, FlagsOK, NormalizerStates
  <2>2. ChannelsOK'
    BY <2>a, <1>0, <1>1, <1>0, CapacityAssumption DEF NumbersOK, ChannelsOK, HandsAgree
  <2>3. CountersOK'
    BY <2>a, <1>0, <1>1 DEF CountersOK
  <2>4. HandsAgree'
    BY <2>a, <1>0, <1>1, <1>0, CapacityAssumption DEF NumbersOK, HandsAgree, ChannelsOK
  <2>5. EventsAccounted'
    BY <2>a, <1>0, <1>1, <1>0 DEF NumbersOK, EventsAccounted, One
  <2>6. RateAgrees' /\ StopAgrees' /\ LeavingAgrees'
    BY <2>a, <1>0, <1>1, <1>0 DEF NumbersOK, PlacesOK, FlagsOK, CountersOK, RateAgrees,
       RateBounded, StopAgrees, LeavingAgrees, LostOnlyWhenCancelled
  <2> QED BY <2>1, <2>2, <2>3, <2>4, <2>5, <2>6
<1>2. CASE ~(pending + 1 >= BatchSize)
  <2>a. /\ normalizer = "recv" /\ normalizer' = "recv" /\ rawQueue > 0
        /\ rawQueue' = rawQueue - 1 /\ pending' = pending + 1 /\ afterFlush' = "recv"
        /\ UNCHANGED <<control, consumer, shared, workers, offered, batchQueue, metrics,
                      window, outcome, tally>>
    BY <1>2 DEF Receive
  <2>1. PlacesOK' /\ FlagsOK'
    BY <2>a, <1>0, <1>2 DEF PlacesOK, FlagsOK, NormalizerStates
  <2>2. ChannelsOK'
    BY <2>a, <1>0, <1>2, <1>0, CapacityAssumption DEF NumbersOK, ChannelsOK, HandsAgree
  <2>3. CountersOK'
    BY <2>a, <1>0, <1>2 DEF CountersOK
  <2>4. HandsAgree'
    BY <2>a, <1>0, <1>2, <1>0, CapacityAssumption DEF NumbersOK, HandsAgree, ChannelsOK
  <2>5. EventsAccounted'
    BY <2>a, <1>0, <1>2, <1>0 DEF NumbersOK, EventsAccounted, One
  <2>6. RateAgrees' /\ StopAgrees' /\ LeavingAgrees'
    BY <2>a, <1>0, <1>2, <1>0 DEF NumbersOK, PlacesOK, FlagsOK, CountersOK, RateAgrees,
       RateBounded, StopAgrees, LeavingAgrees, LostOnlyWhenCancelled
  <2> QED BY <2>1, <2>2, <2>3, <2>4, <2>5, <2>6
<1> QED BY <1>1, <1>2

\* flush_normalized_batch counts what the batch accepted and offers it; without pending events
\* it returns.
LEMMA FlushStep ==
    ASSUME IInv,
           Flush
    PROVE  IInv'
<1>0. NumbersOK
  BY Numbers DEF IInv
<1> USE DEF IInv, TypeOK, shared, outcome, channels
<1>1. CASE pending = 0
  <2>a. /\ normalizer = "flush" /\ normalizer' = afterFlush /\ pending = 0
        /\ UNCHANGED <<control, consumer, afterFlush, shared, workers, rawQueue, pending,
                      offered, batchQueue, metrics, window, outcome, tally>>
    BY <1>1 DEF Flush
  <2>1. PlacesOK' /\ FlagsOK'
    BY <2>a, <1>0, CapacityAssumption DEF PlacesOK, FlagsOK, NormalizerStates
  <2>2. ChannelsOK'
    BY <2>a, <1>0, CapacityAssumption DEF ChannelsOK
  <2>3. CountersOK'
    BY <2>a, <1>0, CapacityAssumption DEF CountersOK
  <2>4. HandsAgree'
    BY <2>a, <1>0, CapacityAssumption, <1>0, CapacityAssumption DEF NumbersOK, HandsAgree,
       PlacesOK
  <2>5. EventsAccounted'
    BY <2>a, <1>0, CapacityAssumption, <1>0 DEF NumbersOK, EventsAccounted, One, PlacesOK,
       HandsAgree
  <2>6. RateAgrees' /\ StopAgrees' /\ LeavingAgrees'
    BY <2>a, <1>0, CapacityAssumption, <1>0 DEF NumbersOK, PlacesOK, FlagsOK, CountersOK,
       RateAgrees, RateBounded, StopAgrees, LeavingAgrees, LostOnlyWhenCancelled
  <2> QED BY <2>1, <2>2, <2>3, <2>4, <2>5, <2>6
<1>2. CASE pending # 0
  <2>p. PICK kept \in 0 .. pending :
          /\ Bump("normalized", kept) /\ Note("merged", pending - kept)
          /\ offered' = kept /\ pending' = 0 /\ normalizer' = "offer"
    BY <1>2 DEF Flush
  <2>w. kept \in Nat /\ pending - kept \in Nat /\ kept <= pending
    BY <1>0, <2>p DEF NumbersOK
  <2>b. /\ metrics' \in [Counters -> Nat] /\ metrics'.raw = metrics.raw
        /\ metrics'.normalized = metrics.normalized + kept
        /\ metrics'.dropped = metrics.dropped /\ metrics'.rateLimited = metrics.rateLimited
        /\ metrics'.schemaRejected = metrics.schemaRejected
    BY <2>p, <2>w, BumpValue DEF CountersOK, Counters
  <2>n. /\ tally' \in [Tallies -> Nat] /\ tally'.rejected = tally.rejected
        /\ tally'.queueFull = tally.queueFull
        /\ tally'.merged = tally.merged + (pending - kept)
        /\ tally'.batchFull = tally.batchFull /\ tally'.lost = tally.lost
    BY <2>p, <2>w, NoteValue DEF CountersOK, Tallies
  <2>a. /\ normalizer = "flush" /\ pending # 0
        /\ UNCHANGED <<control, consumer, afterFlush, shared, workers, rawQueue, batchQueue,
                      window, outcome>>
    BY <1>2 DEF Flush
  <2>1. PlacesOK' /\ FlagsOK'
    BY <2>a, <2>b, <2>n, <2>w, <2>p DEF PlacesOK, FlagsOK, NormalizerStates
  <2>2. ChannelsOK'
    BY <2>a, <2>b, <2>n, <2>w, <2>p, <1>0, CapacityAssumption DEF NumbersOK, ChannelsOK
  <2>3. CountersOK'
    BY <2>a, <2>b, <2>n, <2>w, <2>p DEF CountersOK
  <2>4. HandsAgree'
    BY <2>a, <2>b, <2>n, <2>w, <2>p, <1>0, CapacityAssumption DEF NumbersOK, HandsAgree
  <2>5. EventsAccounted'
    BY <2>a, <2>b, <2>n, <2>w, <2>p, <1>0 DEF NumbersOK, EventsAccounted, One
  <2>6. RateAgrees' /\ StopAgrees' /\ LeavingAgrees'
    BY <2>a, <2>b, <2>n, <2>w, <2>p, <1>0 DEF NumbersOK, PlacesOK, FlagsOK, CountersOK,
       RateAgrees, RateBounded, StopAgrees, LeavingAgrees, LostOnlyWhenCancelled
  <2> QED BY <2>1, <2>2, <2>3, <2>4, <2>5, <2>6
<1> QED BY <1>1, <1>2

\* try_send queues the batch, or finds the channel full and leaves the batch to be dropped.
LEMMA OfferStep ==
    ASSUME IInv,
           Offer
    PROVE  IInv'
<1>0. NumbersOK
  BY Numbers DEF IInv
<1> USE DEF IInv, TypeOK, shared, outcome, channels
<1>1. CASE Len(batchQueue) < BatchCapacity
  <2>q. batchQueue' \in Seq(0 .. BatchSize) /\ Len(batchQueue') <= BatchCapacity
    <3>1. /\ batchQueue' = Append(batchQueue, offered) /\ offered \in 0 .. BatchSize
          /\ batchQueue \in Seq(0 .. BatchSize) /\ Len(batchQueue) \in Nat
      BY <1>1 DEF Offer, ChannelsOK
    <3> QED BY <1>1, <3>1, AppendProperties, CapacityAssumption
  <2>a. /\ normalizer = "offer" /\ normalizer' = afterFlush /\ offered' = 0
        /\ UNCHANGED <<control, consumer, afterFlush, shared, workers, rawQueue, pending,
                      metrics, window, outcome, tally>>
    BY <1>1 DEF Offer
  <2>1. PlacesOK' /\ FlagsOK'
    BY <2>a, <2>q, <1>0, CapacityAssumption DEF PlacesOK, FlagsOK, NormalizerStates
  <2>2. ChannelsOK'
    BY <2>a, <2>q, <1>0, CapacityAssumption DEF ChannelsOK
  <2>3. CountersOK'
    BY <2>a, <2>q, <1>0, CapacityAssumption DEF CountersOK
  <2>4. HandsAgree'
    BY <2>a, <2>q, <1>0, CapacityAssumption, <1>0, CapacityAssumption DEF NumbersOK,
       HandsAgree, PlacesOK
  <2>5. EventsAccounted'
    BY <2>a, <2>q, <1>0, CapacityAssumption, <1>0 DEF NumbersOK, EventsAccounted, One,
       PlacesOK, HandsAgree
  <2>6. RateAgrees' /\ StopAgrees' /\ LeavingAgrees'
    BY <2>a, <2>q, <1>0, CapacityAssumption, <1>0 DEF NumbersOK, PlacesOK, FlagsOK,
       CountersOK, RateAgrees, RateBounded, StopAgrees, LeavingAgrees, LostOnlyWhenCancelled
  <2> QED BY <2>1, <2>2, <2>3, <2>4, <2>5, <2>6
<1>2. CASE ~(Len(batchQueue) < BatchCapacity)
  <2>n. /\ tally' \in [Tallies -> Nat] /\ tally'.rejected = tally.rejected
        /\ tally'.queueFull = tally.queueFull /\ tally'.merged = tally.merged
        /\ tally'.batchFull = tally.batchFull + offered /\ tally'.lost = tally.lost
    BY <1>2, <1>0, NoteValue DEF Offer, CountersOK, NumbersOK, Tallies
  <2>a. /\ normalizer = "offer" /\ normalizer' = "drop"
        /\ UNCHANGED <<control, consumer, afterFlush, shared, workers, rawQueue, pending,
                      offered, batchQueue, metrics, window, outcome>>
    BY <1>2 DEF Offer
  <2>1. PlacesOK' /\ FlagsOK'
    BY <2>a, <2>n DEF PlacesOK, FlagsOK, NormalizerStates
  <2>2. ChannelsOK'
    BY <2>a, <2>n DEF ChannelsOK
  <2>3. CountersOK'
    BY <2>a, <2>n DEF CountersOK
  <2>4. HandsAgree'
    BY <2>a, <2>n, <1>0, CapacityAssumption DEF NumbersOK, HandsAgree, PlacesOK
  <2>5. EventsAccounted'
    BY <2>a, <2>n, <1>0 DEF NumbersOK, EventsAccounted, One, PlacesOK, HandsAgree
  <2>6. RateAgrees' /\ StopAgrees' /\ LeavingAgrees'
    BY <2>a, <2>n, <1>0 DEF NumbersOK, PlacesOK, FlagsOK, CountersOK, RateAgrees, RateBounded,
       StopAgrees, LeavingAgrees, LostOnlyWhenCancelled
  <2> QED BY <2>1, <2>2, <2>3, <2>4, <2>5, <2>6
<1> QED BY <1>1, <1>2

\* A dropped batch is counted; a normalizer that ends leaves what is in the channel.
LEMMA EndStep ==
    ASSUME IInv,
           DropBatch \/ NormalizerEnds
    PROVE  IInv'
<1>0. NumbersOK
  BY Numbers DEF IInv
<1> USE DEF IInv, TypeOK, shared, outcome, channels
<1>1. CASE DropBatch
  <2>b. /\ metrics' \in [Counters -> Nat] /\ metrics'.raw = metrics.raw
        /\ metrics'.normalized = metrics.normalized
        /\ metrics'.dropped = metrics.dropped + offered
        /\ metrics'.rateLimited = metrics.rateLimited
        /\ metrics'.schemaRejected = metrics.schemaRejected
    BY <1>1, <1>0, BumpValue DEF DropBatch, CountersOK, NumbersOK, Counters
  <2>a. /\ normalizer = "drop" /\ normalizer' = afterFlush /\ offered' = 0
        /\ UNCHANGED <<control, consumer, afterFlush, shared, workers, rawQueue, pending,
                      batchQueue, window, outcome, tally>>
    BY <1>1 DEF DropBatch
  <2>1. PlacesOK' /\ FlagsOK'
    BY <2>a, <2>b, <1>0, CapacityAssumption DEF PlacesOK, FlagsOK, NormalizerStates
  <2>2. ChannelsOK'
    BY <2>a, <2>b, <1>0, CapacityAssumption DEF ChannelsOK
  <2>3. CountersOK'
    BY <2>a, <2>b, <1>0, CapacityAssumption DEF CountersOK
  <2>4. HandsAgree'
    BY <2>a, <2>b, <1>0, CapacityAssumption, <1>0, CapacityAssumption DEF NumbersOK,
       HandsAgree, PlacesOK
  <2>5. EventsAccounted'
    BY <2>a, <2>b, <1>0, CapacityAssumption, <1>0 DEF NumbersOK, EventsAccounted, One,
       PlacesOK, HandsAgree
  <2>6. RateAgrees' /\ StopAgrees' /\ LeavingAgrees'
    BY <2>a, <2>b, <1>0, CapacityAssumption, <1>0 DEF NumbersOK, PlacesOK, FlagsOK,
       CountersOK, RateAgrees, RateBounded, StopAgrees, LeavingAgrees, LostOnlyWhenCancelled
  <2> QED BY <2>1, <2>2, <2>3, <2>4, <2>5, <2>6
<1>2. CASE NormalizerEnds
  <2>n. /\ tally' \in [Tallies -> Nat] /\ tally'.rejected = tally.rejected
        /\ tally'.queueFull = tally.queueFull /\ tally'.merged = tally.merged
        /\ tally'.batchFull = tally.batchFull /\ tally'.lost = tally.lost + rawQueue
    BY <1>2, <1>0, NoteValue DEF NormalizerEnds, CountersOK, NumbersOK, Tallies
  <2>w. workers' \in [{"consumer", "normalizer"} -> BOOLEAN]
    BY <1>2 DEF NormalizerEnds, FlagsOK
  <2>a. /\ normalizer = "leaving" /\ normalizer' = "ended" /\ rawQueue' = 0
        /\ UNCHANGED <<control, consumer, afterFlush, shared, pending, offered, batchQueue,
                      metrics, window, outcome>>
    BY <1>2 DEF NormalizerEnds
  <2>1. PlacesOK' /\ FlagsOK'
    BY <2>a, <2>n, <2>w, <1>0, CapacityAssumption DEF PlacesOK, FlagsOK, NormalizerStates
  <2>2. ChannelsOK'
    BY <2>a, <2>n, <2>w, <1>0, CapacityAssumption DEF ChannelsOK
  <2>3. CountersOK'
    BY <2>a, <2>n, <2>w, <1>0, CapacityAssumption DEF CountersOK
  <2>4. HandsAgree'
    BY <2>a, <2>n, <2>w, <1>0, CapacityAssumption, <1>0, CapacityAssumption DEF NumbersOK,
       HandsAgree
  <2>5. EventsAccounted'
    BY <2>a, <2>n, <2>w, <1>0, CapacityAssumption, <1>0 DEF NumbersOK, EventsAccounted, One
  <2>6. RateAgrees' /\ StopAgrees' /\ LeavingAgrees'
    <3>1. RateAgrees' /\ StopAgrees'
      BY <2>a DEF RateAgrees, RateBounded, StopAgrees
    <3>2. cancellation \/ rawQueue = 0
      BY <2>a DEF LeavingAgrees
    <3>3. LostOnlyWhenCancelled'
      BY <2>a, <2>n, <3>2, <1>0 DEF LeavingAgrees, LostOnlyWhenCancelled, NumbersOK
    <3> QED BY <2>a, <3>1, <3>3 DEF LeavingAgrees
  <2> QED BY <2>1, <2>2, <2>3, <2>4, <2>5, <2>6
<1> QED BY <1>1, <1>2

-----------------------------------------------------------------------------

\* The inductive invariant holds in every reachable state.
THEOREM Invariance == Spec => []IInv
<1>1. IInv /\ [Next]_vars => IInv'
  <2> SUFFICES ASSUME IInv, [Next]_vars PROVE IInv'
    OBVIOUS
  <2>1. CASE Next /\ ~Stopped
    <3>1. CASE Control \/ Start \/ RequestStop \/ Drain
      BY <3>1, ControlStep, ReadingStep DEF Control
    <3>2. CASE Consumer \/ ForeignEvent \/ Event \/ NextSecond \/ TraceEnds
      BY <3>2, ConsumerStep, CallbackStep, RateCheckStep, ClassifyStep, SendStep DEF Consumer
    <3>3. CASE Normalizer
      BY <3>3, NormalizerStep, ReceiveStep, FlushStep, OfferStep, EndStep DEF Normalizer
    <3> QED BY <2>1, <3>1, <3>2, <3>3 DEF Next
  <2>2. CASE UNCHANGED vars
    <3>1. TypeOK'
      BY <2>2 DEF vars, IInv, TypeOK, PlacesOK, FlagsOK, ChannelsOK, CountersOK
    <3>2. HandsAgree' /\ EventsAccounted'
      BY <2>2 DEF vars, IInv, HandsAgree, EventsAccounted, One
    <3>3. RateAgrees' /\ StopAgrees' /\ LeavingAgrees'
      BY <2>2 DEF vars, IInv, RateAgrees, RateBounded, StopAgrees, LeavingAgrees,
         LostOnlyWhenCancelled
    <3> QED BY <3>1, <3>2, <3>3 DEF IInv
  <2> QED BY <2>1, <2>2 DEF Stopped
<1> QED BY <1>1, InitIInv, PTL DEF Spec

\* Threads, channels and counters keep their types, and the channels their capacities.
THEOREM TypeCorrect == Spec => []TypeOK
<1>1. IInv => TypeOK
  BY DEF IInv
<1> QED BY <1>1, Invariance, PTL

\* Every observed event is accounted for, whatever the threads do in between.
THEOREM Accounting == Spec => []EventsAccounted
<1>1. IInv => EventsAccounted
  BY DEF IInv
<1> QED BY <1>1, Invariance, PTL

\* Events vanish uncounted only in a session that was cancelled.
THEOREM NoSilentLoss == Spec => []LostOnlyWhenCancelled
<1>1. IInv => LostOnlyWhenCancelled
  BY DEF IInv, LeavingAgrees
<1> QED BY <1>1, Invariance, PTL

\* No event of a trace session is without an explanation, for all capacities, batch
\* sizes and rates and in every interleaving of its three threads.
THEOREM NoneUnexplained == Spec => []LossesExplained
BY Accounting, NoSilentLoss, PTL DEF LossesExplained

\* At most ETW_MAX_EVENTS_PER_SECOND events of a second get through.
THEOREM RateLimited == Spec => []RateBounded
<1>1. IInv => RateBounded
  BY DEF IInv, RateAgrees
<1> QED BY <1>1, Invariance, PTL

\* The counters that a stopped session reports keep the contract's rules: both threads
\* have ended, so no event is between two counters.
THEOREM StoppedValid == Spec => []StoppedCountersValid
<1>1. IInv => StoppedCountersValid
  <2> SUFFICES ASSUME IInv, control = "stopped" PROVE ValidCounters(metrics)
    BY DEF StoppedCountersValid
  <2>1. NumbersOK
    BY Numbers DEF IInv
  <2>2. consumer = "ended" /\ normalizer = "ended"
    BY DEF IInv, StopAgrees
  <2> QED BY <2>1, <2>2 DEF IInv, NumbersOK, EventsAccounted, One, ValidCounters
<1> QED BY <1>1, Invariance, PTL

\* When stop has returned the session is at rest: a step that any thread still takes
\* touches neither counters nor channels.
THEOREM AtRest == Spec => NothingAfterStop
<1>1. IInv /\ [Next]_vars =>
        [control = "stopped" => /\ ~handle
                                /\ UNCHANGED <<metrics, rawQueue, pending, batchQueue, workers>>]_vars
  <2> SUFFICES ASSUME IInv, Next, control = "stopped"
               PROVE  ~handle /\ UNCHANGED <<metrics, rawQueue, pending, batchQueue, workers>>
    BY DEF vars
  <2>1. ~handle /\ consumer = "ended" /\ normalizer = "ended"
    BY DEF IInv, StopAgrees
  <2>2. ~(Control \/ Start \/ RequestStop \/ Drain)
    BY DEF Control, Start, RequestStop, Drain, Ready, Report, ReadCounter, Cancel, CloseTrace,
       StopTrace, JoinConsumer, JoinNormalizer
  <2>3. ~(Consumer \/ ForeignEvent \/ Event)
    BY <2>1 DEF Consumer, ForeignEvent, Event, OpenTrace, ProcessTrace, RateCheck, Classify, Send,
       CountDrop, ProcessTraceReturns, ConsumerEnds
  <2>4. ~Normalizer
    BY <2>1 DEF Normalizer, NormalizerBegins, Receive, ReceiveNothing, Flush, Offer, DropBatch,
       CheckCancellation, NormalizerEnds
  <2>5. CASE NextSecond
    BY <2>1, <2>5 DEF NextSecond, channels
  <2>6. CASE TraceEnds
    BY <2>1, <2>6 DEF TraceEnds, channels
  <2>7. CASE Stopped
    BY <2>1, <2>7 DEF Stopped, vars
  <2> QED BY <2>2, <2>3, <2>4, <2>5, <2>6, <2>7 DEF Next
<1> QED BY <1>1, Invariance, PTL DEF Spec, NothingAfterStop


-----------------------------------------------------------------------------
(***************************************************************************)
(* Part 2, the localhost metadata proxy.                                   *)
(*                                                                         *)
(* The properties speak of the moments between two commands; ProxyInv says *)
(* what holds in the middle of one.  The batches known to the main thread  *)
(* (handed, in hand, in the channel) form one sequence, which a drain or   *)
(* a stop only cuts differently.  The pending count is compared with the   *)
(* batches of channel and hand together, since a drain takes first and     *)
(* uncounts later; while the worker stands between its send and its count  *)
(* the difference is one lower.                                            *)
(***************************************************************************)

-----------------------------------------------------------------------------
(* The inductive invariant.                                                *)

Stats == [pending : Nat, drained : Nat, faulty : BOOLEAN]

\* Type correctness of the threads, the channel and the statistics.
ProxyTypes ==
    /\ runtime \in BOOLEAN /\ worker \in WorkerPoints /\ command \in ProxyCommands
    /\ channel \in Seq(Nat) /\ inHand \in Seq(Nat) /\ handed \in Seq(Nat)
    /\ sent \in Nat /\ stats \in Stats /\ statsRead \in Stats /\ last.stats \in Stats

\* The batches the main thread has or can take, oldest first.
Known == (handed \o inHand) \o channel

Increasing(q) == \A i, j \in 1..Len(q) : i < j => q[i] < q[j]

\* What was sent is known, once and in order, or was lost with a channel.
BatchesKnown ==
    /\ Increasing(Known)
    /\ ToSet(Known) \cup lost = 1..sent
    /\ ToSet(Known) \cap lost = {}

\* What the commands rely on: only a drain holds batches, it has a runtime, and a stop
\* returns when the worker is gone and the channel is empty.
Phases ==
    /\ command \in {"signalled", "joining"} => ~runtime
    /\ command = "drain" => runtime
    /\ command # "drain" => inHand = << >>
    /\ ~runtime /\ command \in {"idle", "report"} =>
          channel = << >> /\ worker \in {"none", "ended", "panicked"}

\* The statistics that count what was handed on: the worker's while it runs, then the ones
\* that stop() read, then the ones of last_status.
DrainedCount ==
    /\ runtime \/ command = "signalled" => Len(handed) = stats.drained
    /\ command = "joining" => Len(handed) = statsRead.drained
    /\ ~runtime /\ command \in {"idle", "report"} => Len(handed) = last.stats.drained

\* How far the pending count is from the batches it counts.
PendingError == stats.pending - Len(channel) - Len(inHand)

PendingCount ==
    /\ runtime \/ command = "signalled" =>
          PendingError \in IF worker = "sent" THEN {-1, 0} ELSE {0, 1}
    /\ command = "joining" => statsRead.pending <= Len(channel) + 1
    /\ ~runtime /\ command \in {"idle", "report"} /\ worker # "panicked" =>
          last.stats.pending \in {0, 1}

ProxyInv == ProxyTypes /\ BatchesKnown /\ Phases /\ DrainedCount /\ PendingCount

-----------------------------------------------------------------------------
(* Sequences of batches.                                                   *)

\* Lengths and elements of a concatenation.
LEMMA ConcatFacts ==
    ASSUME NEW p \in Seq(Nat), NEW q \in Seq(Nat)
    PROVE  /\ p \o q \in Seq(Nat) /\ Len(p \o q) = Len(p) + Len(q)
           /\ ToSet(p \o q) = ToSet(p) \cup ToSet(q)
           /\ Increasing(p \o q) => Increasing(p) /\ ToSet(p) \cap ToSet(q) = {}
<1> DEFINE r == p \o q
<1>1. /\ r \in Seq(Nat) /\ Len(r) = Len(p) + Len(q)
      /\ \A i \in 1 .. Len(p) + Len(q) : r[i] = IF i <= Len(p) THEN p[i] ELSE q[i - Len(p)]
  BY ConcatProperties
<1>2. /\ Len(p) \in Nat /\ Len(q) \in Nat
      /\ DOMAIN p = 1 .. Len(p) /\ DOMAIN q = 1 .. Len(q) /\ DOMAIN r = 1 .. Len(r)
      /\ \A i \in 1 .. Len(r) : r[i] \in Nat
  BY <1>1, LenProperties, ElementOfSeq
<1> HIDE DEF r
<1>3. \A i \in 1 .. Len(p) : i \in 1 .. Len(r) /\ r[i] = p[i]
  BY <1>1, <1>2
<1>4. \A i \in 1 .. Len(q) : Len(p) + i \in 1 .. Len(r) /\ r[Len(p) + i] = q[i]
  <2> SUFFICES ASSUME NEW i \in 1 .. Len(q)
               PROVE  Len(p) + i \in 1 .. Len(r) /\ r[Len(p) + i] = q[i]
    OBVIOUS
  <2>1. Len(p) + i \in 1 .. Len(p) + Len(q) /\ ~(Len(p) + i <= Len(p)) /\ (Len(p) + i) - Len(p) = i
    BY <1>2
  <2> QED BY <1>1, <2>1
<1>5. \A i \in 1 .. Len(r) : i \in 1 .. Len(p) \/ (i - Len(p) \in 1 .. Len(q) /\ r[i] = q[i - Len(p)])
  BY <1>1, <1>2
<1>6. ToSet(r) = ToSet(p) \cup ToSet(q)
  <2>1. ToSet(r) = {r[i] : i \in 1 .. Len(r)} /\ ToSet(p) = {p[i] : i \in 1 .. Len(p)}
        /\ ToSet(q) = {q[i] : i \in 1 .. Len(q)}
    BY <1>2 DEF ToSet
  <2>2. ToSet(r) \subseteq ToSet(p) \cup ToSet(q)
    BY <1>3, <1>5, <2>1
  <2>3. ToSet(p) \cup ToSet(q) \subseteq ToSet(r)
    BY <1>3, <1>4, <2>1
  <2> QED BY <2>2, <2>3
<1>7. ASSUME Increasing(r) PROVE Increasing(p) /\ ToSet(p) \cap ToSet(q) = {}
  <2>1. Increasing(p)
    BY <1>3, <1>7 DEF Increasing
  <2>2. \A i \in 1 .. Len(p), j \in 1 .. Len(q) : p[i] # q[j]
    <3> SUFFICES ASSUME NEW i \in 1 .. Len(p), NEW j \in 1 .. Len(q) PROVE p[i] # q[j]
      OBVIOUS
    <3>1. i \in 1 .. Len(r) /\ Len(p) + j \in 1 .. Len(r) /\ i < Len(p) + j
      BY <1>2, <1>3, <1>4
    <3>2. r[i] < r[Len(p) + j]
      BY <1>7, <3>1 DEF Increasing
    <3> QED BY <1>2, <1>3, <1>4, <3>1, <3>2
  <2>3. ToSet(p) = {p[i] : i \in 1 .. Len(p)} /\ ToSet(q) = {q[i] : i \in 1 .. Len(q)}
    BY <1>2 DEF ToSet
  <2> QED BY <2>1, <2>2, <2>3
<1> QED
  BY <1>1, <1>6, <1>7 DEF r

\* The worker sends the batch with the next number.
LEMMA SendFacts ==
    ASSUME NEW q \in Seq(Nat), Increasing(q), NEW n \in Nat, \A x \in ToSet(q) : x <= n
    PROVE  Increasing(Append(q, n + 1)) /\ ToSet(Append(q, n + 1)) = ToSet(q) \cup {n + 1}
<1> DEFINE r == Append(q, n + 1)
<1>1. /\ r \in Seq(Nat) /\ Len(r) = Len(q) + 1
      /\ \A i \in 1 .. Len(q) : r[i] = q[i]
      /\ r[Len(q) + 1] = n + 1
  BY AppendProperties
<1>2. /\ Len(q) \in Nat /\ DOMAIN q = 1 .. Len(q) /\ DOMAIN r = 1 .. Len(q) + 1
      /\ \A i \in 1 .. Len(q) : q[i] \in Nat
  BY <1>1, LenProperties, ElementOfSeq
<1> HIDE DEF r
<1>3. \A i \in 1 .. Len(q) + 1 : i \in 1 .. Len(q) \/ i = Len(q) + 1
  BY <1>2
<1>4. ToSet(q) = {q[i] : i \in 1 .. Len(q)} /\ ToSet(r) = {r[i] : i \in 1 .. Len(q) + 1}
  BY <1>2 DEF ToSet
<1>5. 1 .. Len(q) \subseteq 1 .. Len(q) + 1 /\ Len(q) + 1 \in 1 .. Len(q) + 1
  BY <1>2
<1>6. ToSet(r) = ToSet(q) \cup {n + 1}
  BY <1>1, <1>3, <1>4, <1>5
<1>7. Increasing(r)
  <2> SUFFICES ASSUME NEW i \in 1 .. Len(q) + 1, NEW j \in 1 .. Len(q) + 1, i < j
               PROVE  r[i] < r[j]
    BY <1>1 DEF Increasing
  <2>1. i \in 1 .. Len(q)
    BY <1>2
  <2>2. q[i] <= n /\ r[i] = q[i] /\ q[i] \in Nat
    BY <1>1, <1>2, <1>4, <2>1
  <2>3. CASE j \in 1 .. Len(q)
    BY <1>1, <2>1, <2>3 DEF Increasing
  <2>4. CASE j = Len(q) + 1
    BY <1>1, <2>2, <2>4
  <2> QED BY <1>3, <2>3, <2>4
<1> QED
  BY <1>6, <1>7 DEF r

\* Where a sequence of batches is cut does not matter.
LEMMA Associative ==
    ASSUME NEW u \in Seq(Nat), NEW v \in Seq(Nat), NEW w \in Seq(Nat)
    PROVE  (u \o v) \o w = u \o (v \o w)
OBVIOUS

\* Sending extends what is known, and taking a batch in hand leaves it as it is.
LEMMA KnownFacts ==
    ASSUME NEW h \in Seq(Nat), NEW i \in Seq(Nat), NEW c \in Seq(Nat)
    PROVE  /\ \A x \in Nat : (h \o i) \o Append(c, x) = Append((h \o i) \o c, x)
           /\ c # << >> => (h \o Append(i, Head(c))) \o Tail(c) = (h \o i) \o c
           /\ ((h \o i) \o << >>) \o c = (h \o i) \o c
           /\ (h \o << >>) \o c = h \o c
           /\ (h \o c) \o << >> = h \o c
<1> DEFINE p == h \o i
<1>1. p \in Seq(Nat) /\ p \o c \in Seq(Nat) /\ h \o c \in Seq(Nat)
  BY ConcatFacts
<1> HIDE DEF p
<1>2. ASSUME NEW x \in Nat PROVE p \o Append(c, x) = Append(p \o c, x)
  <2>1. <<x>> \in Seq(Nat)
    OBVIOUS
  <2>2. Append(c, x) = c \o <<x>> /\ Append(p \o c, x) = (p \o c) \o <<x>>
    BY <1>1, AppendIsConcat
  <2> QED BY <1>1, <2>1, <2>2, ConcatAssociative
<1>3. ASSUME c # << >> PROVE (h \o Append(i, Head(c))) \o Tail(c) = p \o c
  <2> DEFINE x == Head(c)
             y == <<x>>
             t == Tail(c)
  <2>1. x \in Nat /\ t \in Seq(Nat) /\ y \in Seq(Nat)
    BY <1>3, HeadTailProperties
  <2>2. Append(i, x) = i \o y
    BY <2>1, AppendIsConcat
  <2>3. c = y \o t
    <3>1. Len(c) \in Nat /\ Len(c) # 0 /\ 1 \in 1 .. Len(c) /\ Len(c) \in 1 .. Len(c) /\ x = c[1]
      BY <1>3, EmptySeq
    <3>2. SubSeq(c, 1, Len(c)) = <<c[1]>> \o SubSeq(c, 1 + 1, Len(c))
      BY <3>1, SubSeqRecursiveFirst
    <3>3. SubSeq(c, 1, Len(c)) = c /\ t = SubSeq(c, 2, Len(c)) /\ 1 + 1 = 2
      BY <1>3, SubSeqFull, TailIsSubSeq
    <3> QED BY <3>1, <3>2, <3>3
  <2> HIDE DEF x, y, t
  <2>4. h \o (i \o y) = p \o y
    BY <2>1, SMT DEF p
  <2>5. (p \o y) \o t = p \o (y \o t)
    <3> HIDE DEF p
    <3>1. p \in Seq(Nat)
      BY <1>1
    <3>2. y \in Seq(Nat)
      BY <2>1
    <3>3. t \in Seq(Nat)
      BY <2>1
    <3> DEFINE Same(a, b, d) == (a \o b) \o d = a \o (b \o d)
    <3>4. \A a, b, d \in Seq(Nat) : Same(a, b, d)
      BY Associative
    <3> HIDE DEF Same
    <3>5. Same(p, y, t)
      BY <3>1, <3>2, <3>3, <3>4, Zenon
    <3> QED BY <3>5 DEF Same
  <2>6. (h \o Append(i, x)) \o t = p \o c
    BY <2>2, <2>3, <2>4, <2>5
  <2> QED BY <2>6 DEF x, t
<1>4. p \o << >> = p /\ h \o << >> = h /\ (h \o c) \o << >> = h \o c
  BY <1>1, ConcatEmptySeq
<1> QED
  BY <1>2, <1>3, <1>4 DEF p

\* A batch sent is the last one known.
LEMMA KnownGrows ==
    ASSUME NEW h \in Seq(Nat), NEW i \in Seq(Nat), NEW c \in Seq(Nat), NEW x \in Nat
    PROVE  (h \o i) \o Append(c, x) = Append((h \o i) \o c, x)
BY KnownFacts

-----------------------------------------------------------------------------
(* The worker.                                                             *)

\* What every step lemma starts from.
LEMMA SequencesTyped ==
    ASSUME ProxyTypes
    PROVE  /\ Known \in Seq(Nat) /\ handed \o inHand \in Seq(Nat)
           /\ Len(channel) \in Nat /\ Len(inHand) \in Nat /\ Len(handed) \in Nat
           /\ stats.pending \in Nat /\ stats.drained \in Nat
           /\ statsRead.pending \in Nat /\ statsRead.drained \in Nat
<1>1. channel \in Seq(Nat) /\ inHand \in Seq(Nat) /\ handed \in Seq(Nat)
  BY DEF ProxyTypes
<1>2. Len(channel) \in Nat /\ Len(inHand) \in Nat /\ Len(handed) \in Nat
  BY <1>1, LenProperties
<1>3. handed \o inHand \in Seq(Nat)
  BY <1>1, ConcatFacts
<1>4. Known \in Seq(Nat)
  BY <1>1, <1>3, ConcatFacts DEF Known
<1>5. stats \in Stats /\ statsRead \in Stats
  BY DEF ProxyTypes
<1> QED
  BY <1>2, <1>3, <1>4, <1>5 DEF Stats

\* A step of the worker that neither sends nor counts.
LEMMA WorkerMoves ==
    ASSUME ProxyInv, worker \notin {"sent", "none", "ended", "panicked"},
           worker' \in WorkerPoints \ {"sent"}, UNCHANGED <<mainVars, sent, channel>>,
           stats' \in Stats, stats'.pending = stats.pending, stats'.drained = stats.drained
    PROVE  ProxyInv'
<1>1. ProxyTypes /\ BatchesKnown /\ Phases /\ DrainedCount /\ PendingCount
  BY DEF ProxyInv
<1>2. UNCHANGED <<runtime, command, inHand, statsRead, last, handed, lost, sent, channel>>
  BY DEF mainVars
<1>3. ProxyTypes'
  BY <1>1, <1>2 DEF ProxyTypes
<1>4. BatchesKnown'
  BY <1>1, <1>2 DEF BatchesKnown, Known
<1>5. Phases' /\ DrainedCount'
  BY <1>1, <1>2 DEF Phases, DrainedCount
<1>6. PendingCount'
  BY <1>1, <1>2 DEF PendingCount, PendingError, Phases
<1> QED
  BY <1>3, <1>4, <1>5, <1>6 DEF ProxyInv

\* try_send puts the next batch behind the ones that are known.
LEMMA WorkerSends ==
    ASSUME ProxyInv, WorkerAt("prepared", "sent"), channel' = Append(channel, sent + 1),
           sent' = sent + 1, UNCHANGED <<mainVars, stats>>
    PROVE  ProxyInv'
<1>1. ProxyTypes /\ BatchesKnown /\ Phases /\ DrainedCount /\ PendingCount
  BY DEF ProxyInv
<1>2. /\ UNCHANGED <<runtime, command, inHand, statsRead, last, handed, lost, stats>>
      /\ worker = "prepared" /\ worker' = "sent"
  BY DEF mainVars, WorkerAt
<1>3. /\ Known \in Seq(Nat) /\ Len(channel) \in Nat /\ Len(inHand) \in Nat /\ sent \in Nat
      /\ stats.pending \in Nat /\ statsRead.pending \in Nat
      /\ channel \in Seq(Nat) /\ inHand \in Seq(Nat) /\ handed \in Seq(Nat)
  BY <1>1, SequencesTyped DEF ProxyTypes
<1>4. channel' \in Seq(Nat) /\ Len(channel') = Len(channel) + 1
  BY <1>3, AppendProperties
<1>5. ProxyTypes'
  BY <1>1, <1>2, <1>3, <1>4 DEF ProxyTypes, WorkerPoints
<1>6. BatchesKnown'
  <2>1. Known' = Append(Known, sent + 1)
    <3>1. Known' = (handed \o inHand) \o Append(channel, sent + 1)
      BY <1>2 DEF Known
    <3> DEFINE n == sent + 1
    <3>2. n \in Nat
      BY <1>3
    <3> HIDE DEF n
    <3>3. channel \in Seq(Nat)
      BY <1>3
    <3>4. inHand \in Seq(Nat)
      BY <1>3
    <3>5. handed \in Seq(Nat)
      BY <1>3
    <3>6. (handed \o inHand) \o Append(channel, n) = Append((handed \o inHand) \o channel, n)
      BY <3>2, <3>3, <3>4, <3>5, KnownGrows, Zenon
    <3> QED BY <3>1, <3>6, Zenon DEF Known, n
  <2>2. \A x \in ToSet(Known) \cup lost : x \in 1..sent /\ x <= sent
    BY <1>1, <1>3 DEF BatchesKnown
  <2>3. Increasing(Known)
    BY <1>1 DEF BatchesKnown
  <2>4. Increasing(Append(Known, sent + 1)) /\ ToSet(Append(Known, sent + 1)) = ToSet(Known) \cup {sent + 1}
    BY <1>3, <2>2, <2>3, SendFacts
  <2>5. 1..(sent + 1) = (1..sent) \cup {sent + 1} /\ sent + 1 \notin 1..sent
    BY <1>3
  <2> QED BY <1>1, <1>2, <2>1, <2>2, <2>4, <2>5 DEF BatchesKnown
<1>7. Phases' /\ DrainedCount'
  BY <1>1, <1>2 DEF Phases, DrainedCount
<1>8. PendingCount'
  <2>1. runtime \/ command = "signalled" => PendingError \in {0, 1}
    BY <1>1, <1>2 DEF PendingCount
  <2>2. PendingError' = PendingError - 1 /\ PendingError \in Int
    <3>1. PendingError' = stats.pending - (Len(channel) + 1) - Len(inHand)
      BY <1>2, <1>4, Zenon DEF PendingError
    <3>2. \A a, b, d \in Nat : a - (b + 1) - d = (a - b - d) - 1 /\ a - b - d \in Int
      OBVIOUS
    <3> QED BY <1>3, <3>1, <3>2, Zenon DEF PendingError
  <2>3. runtime' \/ command' = "signalled" => PendingError' \in {-1, 0}
    BY <1>2, <2>1, <2>2
  <2>4. command' = "joining" => statsRead'.pending <= Len(channel') + 1
    BY <1>1, <1>2, <1>3, <1>4 DEF PendingCount
  <2>5. ~(~runtime' /\ command' \in {"idle", "report"})
    BY <1>1, <1>2 DEF Phases
  <2> QED BY <1>2, <2>3, <2>4, <2>5 DEF PendingCount
<1> QED
  BY <1>5, <1>6, <1>7, <1>8 DEF ProxyInv

\* The worker counts what it sent.
LEMMA WorkerCounts ==
    ASSUME ProxyInv, RecordCapture
    PROVE  ProxyInv'
<1>1. ProxyTypes /\ BatchesKnown /\ Phases /\ DrainedCount /\ PendingCount
  BY DEF ProxyInv
<1>2. /\ UNCHANGED <<runtime, command, inHand, statsRead, last, handed, lost, sent, channel>>
      /\ worker = "sent" /\ worker' = "check" /\ stats' = [stats EXCEPT !.pending = @ + 1]
  BY DEF mainVars, WorkerAt, RecordCapture
<1>3. /\ Len(channel) \in Nat /\ Len(inHand) \in Nat /\ stats.pending \in Nat /\ stats \in Stats
  BY <1>1, SequencesTyped DEF ProxyTypes
<1>4. stats' \in Stats /\ stats'.pending = stats.pending + 1 /\ stats'.drained = stats.drained
  BY <1>2, <1>3 DEF Stats
<1>5. ProxyTypes'
  BY <1>1, <1>2, <1>4 DEF ProxyTypes, WorkerPoints
<1>6. BatchesKnown'
  BY <1>1, <1>2 DEF BatchesKnown, Known
<1>7. Phases' /\ DrainedCount'
  BY <1>1, <1>2, <1>4 DEF Phases, DrainedCount
<1>8. PendingCount'
  BY <1>1, <1>2, <1>3, <1>4 DEF PendingCount, PendingError, Phases
<1> QED
  BY <1>5, <1>6, <1>7, <1>8 DEF ProxyInv

\* Every step of the worker thread.
LEMMA WorkerKeepsInv ==
    ASSUME ProxyInv, WorkerStep
    PROVE  ProxyInv'
<1>0. stats \in Stats
  BY DEF ProxyInv, ProxyTypes
<1>1. CASE CheckShutdown \/ NoConnection \/ AcceptConnection \/ PrepareBatch \/ WorkerPanics
  <2>1. /\ worker \notin {"sent", "none", "ended", "panicked"}
        /\ worker' \in WorkerPoints \ {"sent"} /\ UNCHANGED <<mainVars, sent, channel, stats>>
    BY <1>1 DEF CheckShutdown, NoConnection, AcceptConnection, PrepareBatch, WorkerPanics,
                WorkerAt, WorkerPoints
  <2> QED BY <1>0, <2>1, WorkerMoves
<1>2. CASE RejectRequest \/ RecordDrop
  <2>1. /\ worker \notin {"sent", "none", "ended", "panicked"}
        /\ worker' \in WorkerPoints \ {"sent"} /\ UNCHANGED <<mainVars, sent, channel>>
        /\ stats' = [stats EXCEPT !.faulty = TRUE]
    BY <1>2 DEF RejectRequest, RecordDrop, WorkerAt, WorkerPoints
  <2>2. stats' \in Stats /\ stats'.pending = stats.pending /\ stats'.drained = stats.drained
    BY <1>0, <2>1 DEF Stats
  <2> QED BY <2>1, <2>2, WorkerMoves
<1>3. CASE TrySend
  <2>1. CASE WorkerAt("prepared", "sent") /\ channel' = Append(channel, sent + 1) /\ sent' = sent + 1
    BY <1>3, <2>1, WorkerSends DEF TrySend
  <2>2. CASE WorkerAt("prepared", "full") /\ UNCHANGED <<channel, sent>>
    <3>1. /\ worker \notin {"sent", "none", "ended", "panicked"}
          /\ worker' \in WorkerPoints \ {"sent"} /\ UNCHANGED <<mainVars, sent, channel, stats>>
      BY <1>3, <2>2 DEF TrySend, WorkerAt, WorkerPoints
    <3> QED BY <1>0, <3>1, WorkerMoves
  <2> QED BY <1>3, <2>1, <2>2 DEF TrySend
<1> QED
  BY <1>1, <1>2, <1>3, WorkerCounts DEF WorkerStep

-----------------------------------------------------------------------------
(* The commands.                                                           *)

\* A drain counts what it took; the pending count does not go below zero.
LEMMA DrainedFacts ==
    ASSUME NEW s \in Stats, NEW n \in Nat
    PROVE  /\ Drained(s, n) \in Stats /\ Drained(s, n).drained = s.drained + n
           /\ Drained(s, n).pending = IF s.pending < n THEN 0 ELSE s.pending - n
<1> DEFINE m == IF s.pending < n THEN 0 ELSE s.pending - n
           d == s.drained + n
<1>1. Drained(s, n) = [s EXCEPT !.pending = m, !.drained = d]
  BY DEF Drained
<1>2. m \in Nat /\ d \in Nat
  BY DEF Stats
<1> HIDE DEF m, d
<1>3. /\ [s EXCEPT !.pending = m, !.drained = d] \in Stats
      /\ [s EXCEPT !.pending = m, !.drained = d].drained = d
      /\ [s EXCEPT !.pending = m, !.drained = d].pending = m
  BY <1>2 DEF Stats
<1> QED
  BY <1>1, <1>3, Zenon DEF m, d

\* Commands that only look, and the first step of a drain or a stop.
LEMMA CommandMoves ==
    ASSUME ProxyInv, UNCHANGED <<inHand, handed, lost, workerVars, channel, stats>>,
           \/ /\ UNCHANGED <<runtime, statsRead>> /\ last'.stats \in Stats
              /\ last' = last \/ runtime
              /\ \/ command = "report" /\ command' = "idle"
                 \/ command = "idle" /\ command' \in {"idle", "report"}
                 \/ command = "idle" /\ command' = "drain" /\ runtime
           \/ /\ command = "idle" /\ command' = "signalled" /\ runtime /\ runtime' = FALSE
              /\ UNCHANGED <<statsRead, last>>
           \/ /\ command = "signalled" /\ command' = "joining" /\ statsRead' = stats
              /\ UNCHANGED <<runtime, last>>
    PROVE  ProxyInv'
<1>1. ProxyTypes /\ BatchesKnown /\ Phases /\ DrainedCount /\ PendingCount
  BY DEF ProxyInv
<1>2. UNCHANGED <<inHand, handed, lost, worker, sent, channel, stats>>
  BY DEF workerVars
<1>3. /\ Len(channel) \in Nat /\ Len(inHand) \in Nat /\ stats.pending \in Nat
  BY <1>1, SequencesTyped
<1>4. ProxyTypes'
  BY <1>1, <1>2 DEF ProxyTypes, ProxyCommands
<1>5. BatchesKnown'
  BY <1>1, <1>2 DEF BatchesKnown, Known
<1>6. Phases'
  BY <1>1, <1>2 DEF Phases
<1>7. DrainedCount'
  BY <1>1, <1>2 DEF DrainedCount, Phases
<1>8. PendingCount'
  <2>1. inHand = << >> => Len(inHand) = 0
    BY EmptySeq
  <2> QED BY <1>1, <1>2, <1>3, <2>1 DEF PendingCount, PendingError, Phases
<1> QED
  BY <1>4, <1>5, <1>6, <1>7, <1>8 DEF ProxyInv

\* Taking a batch in hand leaves what is known as it is.
LEMMA KnownShifts ==
    ASSUME NEW h \in Seq(Nat), NEW i \in Seq(Nat), NEW c \in Seq(Nat), c # << >>
    PROVE  /\ (h \o Append(i, Head(c))) \o Tail(c) = (h \o i) \o c
           /\ Append(i, Head(c)) \in Seq(Nat) /\ Tail(c) \in Seq(Nat)
           /\ Len(Append(i, Head(c))) = Len(i) + 1 /\ Len(Tail(c)) = Len(c) - 1
<1>1. (h \o Append(i, Head(c))) \o Tail(c) = (h \o i) \o c
  BY KnownFacts
<1>2. Head(c) \in Nat /\ Tail(c) \in Seq(Nat) /\ Len(Tail(c)) = Len(c) - 1
  BY HeadTailProperties
<1> QED
  BY <1>1, <1>2, AppendProperties

\* A drain takes the next batch.
LEMMA TakeKeepsInv ==
    ASSUME ProxyInv, TakeBatch
    PROVE  ProxyInv'
<1>1. ProxyTypes /\ BatchesKnown /\ Phases /\ DrainedCount /\ PendingCount
  BY DEF ProxyInv
<1>2. /\ UNCHANGED <<runtime, command, statsRead, last, handed, lost, worker, sent, stats>>
      /\ command = "drain" /\ channel # << >>
      /\ inHand' = Append(inHand, Head(channel)) /\ channel' = Tail(channel)
  BY DEF TakeBatch, workerVars
<1>3. channel \in Seq(Nat)
  BY <1>1 DEF ProxyTypes
<1>4. inHand \in Seq(Nat)
  BY <1>1 DEF ProxyTypes
<1>5. handed \in Seq(Nat)
  BY <1>1 DEF ProxyTypes
<1>6. /\ Known' = Known
      /\ inHand' \in Seq(Nat) /\ channel' \in Seq(Nat)
      /\ Len(inHand') = Len(inHand) + 1 /\ Len(channel') = Len(channel) - 1
  BY <1>2, <1>3, <1>4, <1>5, KnownShifts, Zenon DEF Known
<1>7. ProxyTypes'
  BY <1>1, <1>2, <1>6 DEF ProxyTypes
<1>8. BatchesKnown'
  BY <1>1, <1>2, <1>6 DEF BatchesKnown
<1>9. Phases' /\ DrainedCount'
  BY <1>1, <1>2 DEF Phases, DrainedCount
<1>10. PendingCount'
  <2>1. /\ Len(channel) \in Nat /\ Len(inHand) \in Nat /\ stats.pending \in Nat
    BY <1>1, SequencesTyped
  <2>2. \A a, b, d \in Nat : a - (b - 1) - (d + 1) = a - b - d
    OBVIOUS
  <2>3. stats' = stats /\ Len(channel') = Len(channel) - 1 /\ Len(inHand') = Len(inHand) + 1
    BY <1>2, <1>6
  <2>4. PendingError' = stats.pending - (Len(channel) - 1) - (Len(inHand) + 1)
    BY <2>3 DEF PendingError
  <2>5. PendingError' = PendingError
    BY <2>1, <2>2, <2>4 DEF PendingError
  <2> QED BY <1>1, <1>2, <2>5 DEF PendingCount, Phases
<1> QED
  BY <1>7, <1>8, <1>9, <1>10 DEF ProxyInv

\* Handing on what was in hand, or in a channel behind an empty hand.
LEMMA KnownHanded ==
    ASSUME NEW h \in Seq(Nat), NEW i \in Seq(Nat)
    PROVE  /\ ((h \o i) \o << >>) \o << >> = (h \o i) \o << >>
           /\ ((h \o i) \o << >>) \o << >> = (h \o << >>) \o i
           /\ h \o i \in Seq(Nat) /\ Len(h \o i) = Len(h) + Len(i)
           /\ (h \o << >>) \o << >> = h
<1> DEFINE p == h \o i
<1>1. p \in Seq(Nat) /\ Len(p) = Len(h) + Len(i)
  BY ConcatFacts
<1> HIDE DEF p
<1>2. p \o << >> = p /\ h \o << >> = h
  BY <1>1, ConcatEmptySeq
<1> QED
  BY <1>1, <1>2, Zenon DEF p

\* The drain ends: what it took is handed on and uncounted.
LEMMA DrainKeepsInv ==
    ASSUME ProxyInv, FinishDrain
    PROVE  ProxyInv'
<1>1. ProxyTypes /\ BatchesKnown /\ Phases /\ DrainedCount /\ PendingCount
  BY DEF ProxyInv
<1>2. /\ UNCHANGED <<runtime, statsRead, last, lost, worker, sent, channel>>
      /\ command = "drain" /\ command' = "report" /\ channel = << >>
      /\ handed' = handed \o inHand /\ inHand' = << >>
      /\ stats' = Drained(stats, Len(inHand))
  BY DEF FinishDrain, workerVars
<1>3. inHand \in Seq(Nat)
  BY <1>1 DEF ProxyTypes
<1>4. handed \in Seq(Nat)
  BY <1>1 DEF ProxyTypes
<1>5. /\ Known' = Known
      /\ handed' \in Seq(Nat) /\ Len(handed') = Len(handed) + Len(inHand)
  BY <1>2, <1>3, <1>4, KnownHanded, Zenon DEF Known
<1>6. /\ Len(inHand) \in Nat /\ stats.pending \in Nat /\ Len(handed) \in Nat /\ stats.drained \in Nat
      /\ stats \in Stats /\ runtime
  BY <1>1, <1>2, SequencesTyped DEF ProxyTypes, Phases
<1>7. /\ stats' \in Stats /\ stats'.drained = stats.drained + Len(inHand)
      /\ stats'.pending = IF stats.pending < Len(inHand) THEN 0 ELSE stats.pending - Len(inHand)
  BY <1>2, <1>6, DrainedFacts, Zenon
<1>8. ProxyTypes'
  BY <1>1, <1>2, <1>5, <1>7, EmptySeq DEF ProxyTypes, ProxyCommands
<1>9. BatchesKnown'
  BY <1>1, <1>2, <1>5 DEF BatchesKnown
<1>10. Phases'
  BY <1>2, <1>6 DEF Phases
<1>11. DrainedCount'
  BY <1>1, <1>2, <1>5, <1>6, <1>7 DEF DrainedCount
<1>12. PendingCount'
  <2>1. Len(channel) = 0 /\ Len(inHand') = 0 /\ Len(channel') = 0
    BY <1>2, EmptySeq
  <2>2. stats.pending - 0 - Len(inHand) \in IF worker = "sent" THEN {-1, 0} ELSE {0, 1}
    BY <1>1, <1>6, <2>1, Zenon DEF PendingCount, PendingError
  <2>3. PendingError' = stats'.pending - 0 - 0
    BY <2>1, Zenon DEF PendingError
  <2>4. stats'.pending \in IF worker = "sent" THEN {0} ELSE {0, 1}
    <3> DEFINE a == stats.pending
               b == Len(inHand)
    <3>1. a \in Nat /\ b \in Nat
      BY <1>6
    <3>2. a - 0 - b \in IF worker = "sent" THEN {-1, 0} ELSE {0, 1}
      BY <2>2
    <3>3. stats'.pending = IF a < b THEN 0 ELSE a - b
      BY <1>7
    <3> HIDE DEF a, b
    <3> QED BY <3>1, <3>2, <3>3
  <2>5. stats'.pending \in Nat
    BY <2>4
  <2> QED BY <1>2, <1>6, <2>3, <2>4, <2>5 DEF PendingCount
<1> QED
  BY <1>8, <1>9, <1>10, <1>11, <1>12 DEF ProxyInv

\* A start counts on from what was handed on before.
LEMMA StartKeepsInv ==
    ASSUME ProxyInv, StartProxy
    PROVE  ProxyInv'
<1>1. ProxyTypes /\ BatchesKnown /\ Phases /\ DrainedCount /\ PendingCount
  BY DEF ProxyInv
<1>2. /\ UNCHANGED <<statsRead, last, handed, lost, sent, inHand>>
      /\ command = "idle" /\ command' = "report" /\ ~runtime /\ runtime' = TRUE
      /\ worker' = "check" /\ channel' = << >> /\ stats' = Carryover
  BY DEF StartProxy, Call
<1>3. channel = << >> /\ inHand = << >>
  BY <1>1, <1>2 DEF Phases
<1>4. last.stats \in Stats /\ last.stats.drained \in Nat
  BY <1>1 DEF ProxyTypes, Stats
<1>5. stats' \in Stats /\ stats'.pending = 0 /\ stats'.drained = last.stats.drained
  <2> DEFINE n == last.stats.drained
  <2>1. stats' = [pending |-> 0, drained |-> n, faulty |-> FALSE]
    BY <1>2 DEF Carryover, NoStats
  <2> HIDE DEF n
  <2>2. n \in Nat
    BY <1>4 DEF n
  <2>3. stats' \in Stats /\ stats'.pending = 0 /\ stats'.drained = n
    BY <2>1, <2>2 DEF Stats
  <2> QED BY <2>3 DEF n
<1>6. ProxyTypes'
  BY <1>1, <1>2, <1>3, <1>5 DEF ProxyTypes, ProxyCommands, WorkerPoints
<1>7. BatchesKnown'
  BY <1>1, <1>2, <1>3 DEF BatchesKnown, Known
<1>8. Phases' /\ DrainedCount'
  BY <1>1, <1>2, <1>3, <1>5 DEF Phases, DrainedCount
<1>9. PendingCount'
  <2>1. Len(channel') = 0 /\ Len(inHand') = 0
    BY <1>2, <1>3, EmptySeq
  <2>2. PendingError' = 0
    BY <1>5, <2>1 DEF PendingError
  <2> QED BY <1>2, <2>2 DEF PendingCount
<1> QED
  BY <1>6, <1>7, <1>8, <1>9 DEF ProxyInv

\* stop() hands on what the worker left and settles the counters from its reading.
LEMMA JoinKeepsInv ==
    ASSUME ProxyInv, JoinWorker
    PROVE  ProxyInv'
<1>1. ProxyTypes /\ BatchesKnown /\ Phases /\ DrainedCount /\ PendingCount
  BY DEF ProxyInv
<1>2. /\ UNCHANGED <<runtime, statsRead, lost, worker, sent, inHand, stats>>
      /\ command = "joining" /\ command' = "idle" /\ worker = "ended"
      /\ handed' = handed \o channel /\ channel' = << >>
      /\ last' = StoppedStatus(Drained(statsRead, Len(channel)), 0)
  BY DEF JoinWorker, AfterJoin, workerVars
<1>3. inHand = << >> /\ ~runtime
  BY <1>1, <1>2 DEF Phases
<1>4. channel \in Seq(Nat)
  BY <1>1 DEF ProxyTypes
<1>5. handed \in Seq(Nat)
  BY <1>1 DEF ProxyTypes
<1>6. /\ Known' = Known
      /\ handed' \in Seq(Nat) /\ Len(handed') = Len(handed) + Len(channel)
  BY <1>2, <1>3, <1>4, <1>5, KnownHanded, Zenon DEF Known
<1>7. /\ Len(channel) \in Nat /\ statsRead.pending \in Nat /\ Len(handed) \in Nat
      /\ statsRead.drained \in Nat /\ statsRead \in Stats
  BY <1>1, SequencesTyped DEF ProxyTypes
<1>8. last'.stats = Drained(statsRead, Len(channel))
  BY <1>2 DEF StoppedStatus
<1>9. /\ last'.stats \in Stats /\ last'.stats.drained = statsRead.drained + Len(channel)
      /\ last'.stats.pending = IF statsRead.pending < Len(channel) THEN 0
                               ELSE statsRead.pending - Len(channel)
  BY <1>7, <1>8, DrainedFacts, Zenon
<1>10. ProxyTypes'
  BY <1>1, <1>2, <1>6, <1>9, EmptySeq DEF ProxyTypes, ProxyCommands
<1>11. BatchesKnown'
  BY <1>1, <1>2, <1>6 DEF BatchesKnown
<1>12. Phases'
  BY <1>2, <1>3 DEF Phases
<1>13. DrainedCount'
  BY <1>1, <1>2, <1>3, <1>6, <1>7, <1>9 DEF DrainedCount
<1>14. PendingCount'
  <2>1. statsRead.pending <= Len(channel) + 1
    BY <1>1, <1>2 DEF PendingCount
  <2>2. last'.stats.pending \in {0, 1}
    <3> DEFINE a == statsRead.pending
               b == Len(channel)
    <3>1. a \in Nat /\ b \in Nat /\ a <= b + 1
      BY <1>7, <2>1
    <3>2. last'.stats.pending = IF a < b THEN 0 ELSE a - b
      BY <1>9
    <3> HIDE DEF a, b
    <3> QED BY <3>1, <3>2
  <2> QED BY <1>2, <1>3, <2>2 DEF PendingCount
<1> QED
  BY <1>10, <1>11, <1>12, <1>13, <1>14 DEF ProxyInv

\* The channel of a worker that panicked is dropped.
LEMMA PanicKeepsInv ==
    ASSUME ProxyInv, JoinPanicked
    PROVE  ProxyInv'
<1>1. ProxyTypes /\ BatchesKnown /\ Phases /\ DrainedCount /\ PendingCount
  BY DEF ProxyInv
<1>2. /\ UNCHANGED <<runtime, statsRead, handed, worker, sent, inHand, stats>>
      /\ command = "joining" /\ command' = "idle" /\ worker = "panicked"
      /\ lost' = lost \cup ToSet(channel) /\ channel' = << >>
      /\ last' = StoppedStatus([statsRead EXCEPT !.faulty = TRUE], statsRead.pending)
  BY DEF JoinPanicked, workerVars
<1>3. inHand = << >> /\ ~runtime
  BY <1>1, <1>2 DEF Phases
<1>4. channel \in Seq(Nat)
  BY <1>1 DEF ProxyTypes
<1>5. handed \in Seq(Nat)
  BY <1>1 DEF ProxyTypes
<1>6. handed \o << >> = handed /\ (handed \o << >>) \o << >> = handed
  BY <1>5, ConcatEmptySeq
<1>7. Known = handed \o channel /\ Known' = handed
  BY <1>2, <1>3, <1>6, Zenon DEF Known
<1>8. statsRead \in Stats
  BY <1>1 DEF ProxyTypes
<1>9. last'.stats = [statsRead EXCEPT !.faulty = TRUE]
  BY <1>2 DEF StoppedStatus
<1>10. last'.stats \in Stats /\ last'.stats.drained = statsRead.drained
  BY <1>8, <1>9 DEF Stats
<1>11. ProxyTypes'
  BY <1>1, <1>2, <1>10, EmptySeq DEF ProxyTypes, ProxyCommands
<1>12. BatchesKnown'
  <2>1. /\ ToSet(Known) = ToSet(handed) \cup ToSet(channel)
        /\ Increasing(Known) => Increasing(handed) /\ ToSet(handed) \cap ToSet(channel) = {}
    BY <1>4, <1>5, <1>7, ConcatFacts, Zenon
  <2>2. Increasing(Known) /\ ToSet(Known) \cup lost = 1..sent /\ ToSet(Known) \cap lost = {}
    BY <1>1 DEF BatchesKnown
  <2>3. Increasing(Known')
    BY <1>7, <2>1, <2>2, Zenon
  <2>4. ToSet(Known') = ToSet(handed)
    BY <1>7, Zenon
  <2>5. ToSet(Known') \cup lost' = 1..sent
    BY <1>2, <2>1, <2>2, <2>4, Zenon
  <2>6. ToSet(Known') \cap lost' = {}
    BY <1>2, <2>1, <2>2, <2>4, Zenon
  <2> QED BY <1>2, <2>3, <2>5, <2>6, Zenon DEF BatchesKnown
<1>13. Phases'
  BY <1>2, <1>3 DEF Phases
<1>14. DrainedCount'
  BY <1>1, <1>2, <1>3, <1>10 DEF DrainedCount
<1>15. PendingCount'
  BY <1>2, <1>3 DEF PendingCount
<1> QED
  BY <1>11, <1>12, <1>13, <1>14, <1>15 DEF ProxyInv

\* Every other step of a command.
LEMMA OtherCommands ==
    ASSUME ProxyInv,
           ReportStatus \/ QueryStatus \/ BeginDrain \/ StopStopped \/ SignalShutdown \/ TakeSnapshot
    PROVE  ProxyInv'
<1>1. stats \in Stats /\ last.stats \in Stats
  BY DEF ProxyInv, ProxyTypes
<1>2. Running.stats = stats
  BY DEF Running
<1>3. CASE ReportStatus
  <2>1. /\ UNCHANGED <<inHand, handed, lost, workerVars, channel, stats, runtime, statsRead>>
        /\ command = "report" /\ command' = "idle" /\ last' = IF runtime THEN Running ELSE last
    BY <1>3 DEF ReportStatus
  <2>2. last'.stats \in Stats /\ (last' = last \/ runtime)
    BY <1>1, <1>2, <2>1
  <2> QED BY <2>1, <2>2, CommandMoves
<1>4. CASE QueryStatus
  <2>1. /\ UNCHANGED <<inHand, handed, lost, workerVars, channel, stats, runtime, statsRead>>
        /\ command = "idle" /\ command' = "idle" /\ last' = Running /\ runtime
    BY <1>4 DEF QueryStatus, Call
  <2>2. last'.stats \in Stats
    BY <1>1, <1>2, <2>1
  <2> QED BY <2>1, <2>2, CommandMoves
<1>5. CASE BeginDrain
  BY <1>1, <1>5, CommandMoves DEF BeginDrain, Call
<1>6. CASE StopStopped
  BY <1>1, <1>6, CommandMoves DEF StopStopped, Call
<1>7. CASE SignalShutdown
  BY <1>7, CommandMoves DEF SignalShutdown, Call
<1>8. CASE TakeSnapshot
  BY <1>8, CommandMoves DEF TakeSnapshot
<1> QED
  BY <1>3, <1>4, <1>5, <1>6, <1>7, <1>8

-----------------------------------------------------------------------------
(* The theorems.                                                           *)

\* The threads' statistics, channel and command follow each other through every
\* interleaving of the worker's sends with drains, stops and restarts.
THEOREM ProxyInvariant == ProxySpec => []ProxyInv
<1>1. ProxyInit => ProxyInv
  <2> SUFFICES ASSUME ProxyInit PROVE ProxyInv
    OBVIOUS
  <2>1. /\ runtime = FALSE /\ worker = "none" /\ command = "idle" /\ sent = 0 /\ lost = {}
        /\ channel = << >> /\ inHand = << >> /\ handed = << >>
        /\ stats = NoStats /\ statsRead = NoStats /\ last = StoppedStatus(NoStats, 0)
    BY DEF ProxyInit
  <2>2. NoStats \in Stats /\ NoStats.pending = 0 /\ NoStats.drained = 0
    BY DEF NoStats, Stats
  <2>3. last.stats = NoStats
    BY <2>1 DEF StoppedStatus
  <2>4. << >> \in Seq(Nat) /\ Len(<< >>) = 0
    OBVIOUS
  <2>5. ProxyTypes
    BY <2>1, <2>2, <2>3, <2>4 DEF ProxyTypes, WorkerPoints, ProxyCommands
  <2>6. BatchesKnown
    <3>1. Known = << >>
      <4>1. << >> \o << >> = << >>
        BY <2>4, ConcatEmptySeq
      <4> QED BY <2>1, <4>1, Zenon DEF Known
    <3>2. Increasing(Known) /\ ToSet(Known) = {}
      <4>1. 1 .. 0 = {} /\ DOMAIN << >> = {}
        OBVIOUS
      <4> QED BY <2>4, <3>1, <4>1, Zenon DEF Increasing, ToSet
    <3> QED BY <2>1, <3>2 DEF BatchesKnown
  <2>7. Phases
    BY <2>1 DEF Phases
  <2>8. DrainedCount
    BY <2>1, <2>2, <2>3, <2>4 DEF DrainedCount
  <2>9. PendingCount
    BY <2>1, <2>2, <2>3 DEF PendingCount
  <2> QED BY <2>5, <2>6, <2>7, <2>8, <2>9 DEF ProxyInv
<1>2. ProxyInv /\ [ProxyNext]_proxyVars => ProxyInv'
  <2> SUFFICES ASSUME ProxyInv, [ProxyNext]_proxyVars PROVE ProxyInv'
    OBVIOUS
  <2>1. CASE WorkerStep
    BY <2>1, WorkerKeepsInv
  <2>2. CASE CommandStep
    BY <2>2, OtherCommands, TakeKeepsInv, DrainKeepsInv, JoinKeepsInv, PanicKeepsInv DEF CommandStep
  <2>3. CASE CommandBegins
    BY <2>3, OtherCommands, StartKeepsInv DEF CommandBegins
  <2>4. CASE UNCHANGED proxyVars
    <3>1. UNCHANGED <<runtime, worker, command, channel, inHand, handed, sent, lost, stats,
                      statsRead, last>>
      BY <2>4 DEF proxyVars, mainVars, workerVars
    <3> QED BY <3>1 DEF ProxyInv, ProxyTypes, BatchesKnown, Known, Phases, DrainedCount,
                        PendingCount, PendingError
  <2> QED BY <2>1, <2>2, <2>3, <2>4 DEF ProxyNext
<1> QED
  BY <1>1, <1>2, PTL DEF ProxySpec

\* Every batch the worker's try_send put into the channel is handed on once and in order;
\* only the channel of a worker that panicked is dropped (drain, stop_and_drain).
THEOREM BatchesAreHandedOnce == ProxySpec => []BatchesHandedOnce
<1>1. ProxyInv => BatchesHandedOnce
  <2> SUFFICES ASSUME ProxyInv PROVE BatchesHandedOnce
    OBVIOUS
  <2>1. Increasing(Known) /\ ToSet(Known) \cup lost = 1..sent /\ ToSet(Known) \cap lost = {}
    BY DEF ProxyInv, BatchesKnown
  <2>2. ~runtime /\ command = "idle" => channel = << >>
    BY DEF ProxyInv, Phases
  <2> QED BY <2>1, <2>2, Zenon DEF BatchesHandedOnce, Known, Increasing
<1> QED
  BY <1>1, ProxyInvariant, PTL

\* The counters of the status follow the batches, drained exactly and pending within one,
\* over drains that overtake the worker, stops that settle from an old reading, and restarts.
THEOREM CountersAreRight == ProxySpec => []CountersFollowBatches
<1>1. ProxyInv => CountersFollowBatches
  <2> SUFFICES ASSUME ProxyInv PROVE CountersFollowBatches
    OBVIOUS
  <2>1. ProxyTypes /\ Phases /\ DrainedCount /\ PendingCount
    BY DEF ProxyInv
  <2>2. DrainedIsExact
    BY <2>1 DEF DrainedIsExact, DrainedCount, ProxyTypes
  <2>3. PendingOffByOne
    <3> SUFFICES ASSUME command = "idle" PROVE PendingOffByOne
      BY DEF PendingOffByOne
    <3>1. ~runtime /\ worker # "panicked" => last.stats.pending \in {0, 1}
      BY <2>1 DEF PendingCount
    <3>2. ASSUME runtime, worker \in {"check", "accept", "request", "prepared", "full"}
          PROVE  stats.pending - Len(channel) \in {0, 1}
      <4>1. inHand = << >> /\ Len(inHand) = 0
        BY <2>1, EmptySeq DEF Phases
      <4>2. stats.pending - Len(channel) - 0 \in {0, 1}
        BY <2>1, <3>2, <4>1 DEF PendingCount, PendingError
      <4>3. stats.pending \in Nat /\ Len(channel) \in Nat
        BY <2>1, SequencesTyped
      <4> QED BY <4>2, <4>3
    <3> QED BY <3>1, <3>2 DEF PendingOffByOne
  <2> QED BY <2>2, <2>3 DEF CountersFollowBatches
<1> QED
  BY <1>1, ProxyInvariant, PTL

=============================================================================
