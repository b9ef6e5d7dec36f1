---------------------------- MODULE Jobs_proofs ----------------------------
(***************************************************************************)
(* The three components whose work is done by tasks and jobs, each proved  *)
(* by itself: EmbeddingCache, ContextEmbedding and BidLogPipeline.         *)
(***************************************************************************)
EXTENDS EmbeddingCache, ContextEmbedding, BidLogPipeline, FiniteSetTheorems, SequenceTheorems, TLAPS

-----------------------------------------------------------------------------
-----------------------------------------------------------------------------
(***************************************************************************)
(* EmbeddingCache.  One flight for a text and every slot counted, for      *)
(* every number of texts and calls and every limit.                        *)
(***************************************************************************)

CallStates == {NewCall} \union [at : {"probing"} \union Answered, key : Keys]
                        \union [at : {"waiting"}, key : Keys, on : Calls]

CacheTypes ==
    /\ inFlight \in [Keys -> Calls \union {None}]
    /\ flight \in [Calls -> Flights \union {NoFlight}]
    /\ active \in Nat
    /\ queue \in Seq(Calls)
    /\ call \in [Calls -> CallStates]

(***************************************************************************)
(* The map of flights holds all that are live and nothing else.            *)
(***************************************************************************)
Tracked ==
    /\ \A f \in Calls : Live(f) => inFlight[flight[f].key] = f
    /\ \A k \in Keys : inFlight[k] # None => Live(inFlight[k]) /\ flight[inFlight[k]].key = k

(***************************************************************************)
(* A call that may yet start a flight has started none.                    *)
(***************************************************************************)
Fresh == \A r \in Calls : call[r].at \in {"new", "probing"} => flight[r] = NoFlight

(***************************************************************************)
(* The queue holds tasks that wait for a slot, each once.                  *)
(***************************************************************************)
Waits == \A i \in DOMAIN queue : flight[queue[i]].at = "queued" /\ flight[queue[i]].kind = "background"

Once == \A i, j \in DOMAIN queue : queue[i] = queue[j] => i = j

RunningTasks == {f \in Calls : Running(f)}

Counted == IsFiniteSet(RunningTasks) /\ active = Cardinality(RunningTasks)

Bounded ==
    /\ active <= MaxActive
    /\ Len(queue) <= MaxQueue
    /\ queue # <<>> => active = MaxActive

(***************************************************************************)
(* Inductive: that a task is in the queue once, and only while it waits,   *)
(* makes the start of the first of the queue the start of one task; that   *)
(* a call starts at most one flight makes its name free when it does.      *)
(***************************************************************************)
CacheInv == CacheTypes /\ Tracked /\ Fresh /\ Waits /\ Once /\ Counted /\ Bounded

LEMMA CacheInit == Init => CacheInv
<1> SUFFICES ASSUME Init
             PROVE  CacheInv
  OBVIOUS
<1>1. CacheTypes
  <2>1. <<>> \in Seq(Calls)
    BY EmptySeq
  <2> QED
    BY <2>1 DEF Init, CacheTypes, CallStates
<1>2. \A f \in Calls : flight[f] = NoFlight /\ ~Live(f)
  BY DEF Init, Live, NoFlight
<1>3. Tracked /\ Fresh /\ Waits /\ Once
  BY <1>2 DEF Init, Tracked, Fresh, Waits, Once
<1>4. RunningTasks = {}
  BY <1>2 DEF RunningTasks, Running
<1>5. Counted
  BY <1>4, FS_EmptySet DEF Counted, Init
<1>6. Bounded
  <2>1. Len(queue) = 0 /\ active = 0 /\ queue = <<>>
    BY DEF Init
  <2> QED
    BY <2>1, CacheAssumption DEF Bounded
<1> QED
  BY <1>1, <1>3, <1>5, <1>6 DEF CacheInv

-----------------------------------------------------------------------------
(***************************************************************************)
(* The count of the running tasks when one starts and when one ends.       *)
(***************************************************************************)
LEMMA TaskStarts ==
    ASSUME Counted, NEW f \in Calls, ~Running(f), Running(f)',
           \A g \in Calls \ {f} : Running(g)' <=> Running(g),
           active' = active + 1
    PROVE  Counted'
<1>1. RunningTasks' = RunningTasks \union {f} /\ f \notin RunningTasks
  BY DEF RunningTasks
<1> QED
  BY <1>1, FS_AddElement DEF Counted

LEMMA TaskEnds ==
    ASSUME Counted, NEW f \in Calls, Running(f), ~Running(f)',
           \A g \in Calls \ {f} : Running(g)' <=> Running(g),
           active' = active - 1
    PROVE  Counted'
<1>1. RunningTasks' = RunningTasks \ {f} /\ f \in RunningTasks
  BY DEF RunningTasks
<1> QED
  BY <1>1, FS_RemoveElement DEF Counted

LEMMA TaskFollows ==
    ASSUME Counted, active \in Nat,
           NEW f \in Calls, Running(f), ~Running(f)',
           NEW h \in Calls \ {f}, ~Running(h), Running(h)',
           \A g \in Calls \ {f, h} : Running(g)' <=> Running(g),
           active' = active
    PROVE  Counted'
<1> DEFINE Rest == RunningTasks \ {f}
<1>1. /\ RunningTasks' = Rest \union {h}
      /\ f \in RunningTasks /\ h \notin Rest
  BY DEF RunningTasks
<1>2. IsFiniteSet(Rest) /\ Cardinality(Rest) = active - 1
  BY <1>1, FS_RemoveElement DEF Counted
<1>3. IsFiniteSet(Rest \union {h}) /\ Cardinality(Rest \union {h}) = (active - 1) + 1
  BY <1>1, <1>2, FS_AddElement
<1> QED
  BY <1>1, <1>3 DEF Counted

LEMMA TasksStay ==
    ASSUME Counted, \A g \in Calls : Running(g)' <=> Running(g), active' = active
    PROVE  Counted'
<1>1. RunningTasks' = RunningTasks
  BY DEF RunningTasks
<1> QED
  BY <1>1 DEF Counted

\* Whoever runs is counted.
LEMMA SomebodyRuns ==
    ASSUME Counted, active \in Nat, NEW f \in Calls, Running(f)
    PROVE  active >= 1
<1>1. f \in RunningTasks
  BY DEF RunningTasks
<1>2. Cardinality(RunningTasks) # 0
  BY <1>1, FS_EmptySet DEF Counted
<1> QED
  BY <1>2 DEF Counted

-----------------------------------------------------------------------------
(***************************************************************************)
(* A task that ends has its slot taken by the first of the queue, and by   *)
(* nobody else: while anything waits, the slots were all in use.           *)
(***************************************************************************)
LEMMA SlotsFree ==
    ASSUME CacheInv, NEW f \in Calls, Running(f)
    PROVE  /\ queue = <<>> => Started = 0
           /\ queue # <<>> => Started = 1
<1>1. active \in Nat /\ active >= 1 /\ active <= MaxActive /\ MaxActive \in Nat
  BY SomebodyRuns, CacheAssumption DEF CacheInv, CacheTypes, Bounded
<1>2. Len(queue) \in Nat /\ (queue = <<>> => Len(queue) = 0) /\ (queue # <<>> => Len(queue) >= 1)
  BY EmptySeq DEF CacheInv, CacheTypes
<1>3. queue # <<>> => active = MaxActive
  BY DEF CacheInv, Bounded
<1> QED
  BY <1>1, <1>2, <1>3 DEF Started

LEMMA LastTaskEnds ==
    ASSUME CacheInv, NEW f \in Calls, Running(f), EndBackground(f), queue = <<>>
    PROVE  /\ flight' = [flight EXCEPT ![f].at = "ended"]
           /\ queue' = <<>>
           /\ active' = active - 1
<1>1. Started = 0 /\ active \in Nat /\ Len(queue) = 0
  BY SlotsFree, EmptySeq DEF CacheInv, CacheTypes
<1>2. queue' = <<>>
  BY <1>1, SubSeqEmpty DEF EndBackground
<1>3. 1..Started = {}
  BY <1>1
<1>4. flight' = [g \in Calls |-> IF g = f THEN [flight[f] EXCEPT !.at = "ended"] ELSE flight[g]]
  BY <1>3, Zenon DEF EndBackground
<1>5. flight' = [flight EXCEPT ![f].at = "ended"]
  BY <1>4 DEF CacheInv, CacheTypes
<1>6. active' = active - 1
  BY <1>1 DEF EndBackground
<1> QED
  BY <1>2, <1>5, <1>6

LEMMA NextTaskStarts ==
    ASSUME CacheInv, NEW f \in Calls, Running(f), EndBackground(f), queue # <<>>
    PROVE  LET h == queue[1]
           IN  /\ h \in Calls \ {f} /\ 1 \in DOMAIN queue
               /\ flight' = [flight EXCEPT ![f].at = "ended", ![h].at = "generate"]
               /\ queue' = Tail(queue)
               /\ active' = active
<1> DEFINE h == queue[1]
<1>1. Started = 1 /\ active \in Nat /\ queue \in Seq(Calls)
  BY SlotsFree DEF CacheInv, CacheTypes
<1>2. h \in Calls /\ 1 \in DOMAIN queue
  BY <1>1, EmptySeq
<1>3. h # f
  BY <1>2 DEF CacheInv, Waits, Running
<1>4. queue' = Tail(queue)
  BY <1>1, TailIsSubSeq DEF EndBackground
<1>5. \A g : (\E i \in 1..Started : queue[i] = g) <=> g = h
  BY <1>1
<1>6. flight' = [g \in Calls |-> IF g = f THEN [flight[f] EXCEPT !.at = "ended"]
                                 ELSE IF g = h THEN [flight[g] EXCEPT !.at = "generate"] ELSE flight[g]]
  BY <1>5, Zenon DEF EndBackground
<1>7. flight' = [flight EXCEPT ![f].at = "ended", ![h].at = "generate"]
  BY <1>2, <1>3, <1>6 DEF CacheInv, CacheTypes
<1>8. active' = active
  BY <1>1 DEF EndBackground
<1> QED
  BY <1>2, <1>3, <1>4, <1>7, <1>8

-----------------------------------------------------------------------------
(***************************************************************************)
(* A flight lands: it leaves the map, and no other flight is disturbed.    *)
(***************************************************************************)
Delivered == {"ready", "error"}

LEMMA DeliverTypes ==
    ASSUME CacheTypes, NEW f \in Calls, flight[f] \in Flights, NEW answer \in Delivered, Deliver(f, answer)
    PROVE  /\ call' \in [Calls -> CallStates]
           /\ \A r \in Calls : call'[r].at \in {"new", "probing"} => call[r].at \in {"new", "probing"}
<1>1. flight[f].key \in Keys
  BY DEF Flights
<1>2. [at |-> answer, key |-> flight[f].key] \in CallStates
  BY <1>1 DEF CallStates, Answered, Delivered
<1>3. \A r \in Calls : call'[r] = call[r] \/ call'[r] = [at |-> answer, key |-> flight[f].key]
  BY DEF Deliver
<1>4. call' \in [Calls -> CallStates]
  BY <1>2 DEF Deliver, CacheTypes
<1> QED
  BY <1>3, <1>4 DEF Delivered

LEMMA EndedOnly ==
    ASSUME flight \in [Calls -> Flights \union {NoFlight}], NEW f \in Calls, flight[f] \in Flights,
           flight' = [flight EXCEPT ![f].at = "ended"]
    PROVE  /\ flight' \in [Calls -> Flights \union {NoFlight}]
           /\ flight'[f] \in Flights /\ flight'[f].at = "ended"
           /\ \A g \in Calls \ {f} : flight'[g] = flight[g]
BY DEF Flights, Stages

LEMMA EndedAndStarted ==
    ASSUME flight \in [Calls -> Flights \union {NoFlight}], NEW f \in Calls, flight[f] \in Flights,
           NEW h \in Calls \ {f}, flight[h] \in Flights,
           flight' = [flight EXCEPT ![f].at = "ended", ![h].at = "generate"]
    PROVE  /\ flight' \in [Calls -> Flights \union {NoFlight}]
           /\ flight'[f] \in Flights /\ flight'[f].at = "ended"
           /\ flight'[h] = [flight[h] EXCEPT !.at = "generate"]
           /\ \A g \in Calls \ {f, h} : flight'[g] = flight[g]
BY DEF Flights, Stages

\* The map of flights, once it is known which flights stay alive.
LEMMA LandTracked ==
    ASSUME CacheTypes, Tracked, NEW f \in Calls, Live(f), ~Live(f)',
           \A g \in Calls \ {f} : flight'[g].key = flight[g].key /\ (Live(g)' <=> Live(g)),
           \A g \in Calls : Live(g) => flight[g] \in Flights,
           inFlight' = [inFlight EXCEPT ![flight[f].key] = None]
    PROVE  Tracked'
<1> DEFINE k == flight[f].key
<1>1. k \in Keys /\ inFlight[k] = f /\ f # None
  BY CacheAssumption DEF Tracked, Flights
<1>2. inFlight' = [j \in Keys |-> IF j = k THEN None ELSE inFlight[j]]
  BY DEF CacheTypes
<1> HIDE DEF k
<1>3. ASSUME NEW g \in Calls, Live(g)'
      PROVE  inFlight'[flight'[g].key] = g
  <2>1. g # f /\ Live(g) /\ flight'[g].key = flight[g].key
    BY <1>3
  <2>2. inFlight[flight[g].key] = g /\ flight[g].key \in Keys
    BY <2>1 DEF Tracked, Flights
  <2>3. flight[g].key # k
    BY <1>1, <2>1, <2>2
  <2> QED
    BY <1>2, <2>1, <2>2, <2>3
<1>4. ASSUME NEW j \in Keys, inFlight'[j] # None
      PROVE  (Live(inFlight[j]) /\ flight[inFlight[j]].key = j)'
  <2>1. j # k /\ inFlight'[j] = inFlight[j] /\ inFlight[j] \in Calls
    BY <1>2, <1>4 DEF CacheTypes
  <2>2. Live(inFlight[j]) /\ flight[inFlight[j]].key = j
    BY <1>4, <2>1 DEF Tracked
  <2>3. inFlight[j] # f
    BY <2>1, <2>2 DEF k
  <2> QED
    BY <2>1, <2>2, <2>3 DEF Live
<1> QED
  BY <1>3, <1>4 DEF Tracked

\* What the queue says of flights that are not moved.
LEMMA QueueStays ==
    ASSUME CacheTypes, Waits, Once, UNCHANGED queue,
           \A i \in DOMAIN queue : flight'[queue[i]] = flight[queue[i]]
    PROVE  Waits' /\ Once'
BY DEF Waits, Once

LEMMA QueueMoves ==
    ASSUME CacheTypes, Waits, Once, queue # <<>>, queue' = Tail(queue),
           \A i \in DOMAIN queue : i > 1 => flight'[queue[i]] = flight[queue[i]]
    PROVE  Waits' /\ Once' /\ Len(queue') = Len(queue) - 1 /\ queue' \in Seq(Calls)
<1>1. /\ Tail(queue) \in Seq(Calls) /\ Len(Tail(queue)) = Len(queue) - 1
      /\ \A i \in 1..Len(Tail(queue)) : Tail(queue)[i] = queue[i + 1]
  BY HeadTailProperties DEF CacheTypes
<1>2. Len(queue) \in Nat /\ DOMAIN queue = 1..Len(queue) /\ DOMAIN queue' = 1..(Len(queue) - 1)
  BY <1>1, LenProperties DEF CacheTypes
<1>3. \A i \in DOMAIN queue' : i + 1 \in DOMAIN queue /\ i + 1 > 1 /\ queue'[i] = queue[i + 1]
  BY <1>1, <1>2
<1>4. Waits'
  BY <1>3 DEF Waits
<1>5. Once'
  <2> SUFFICES ASSUME NEW i \in DOMAIN queue', NEW j \in DOMAIN queue', queue'[i] = queue'[j]
               PROVE  i = j
    BY DEF Once
  <2>1. i + 1 = j + 1
    BY <1>3 DEF Once
  <2> QED
    BY <1>2, <2>1
<1> QED
  BY <1>1, <1>4, <1>5

LEMMA LandInv ==
    ASSUME CacheInv, NEW f \in Calls, flight[f].at \in {"lookup", "generate", "write"},
           NEW answer \in Delivered, Land(f, answer)
    PROVE  CacheInv'
<1> USE DEF CacheInv
<1>1. Live(f) /\ flight[f] \in Flights /\ flight[f].key \in Keys /\ flight[f].kind \in Kinds
  BY DEF Live, CacheTypes, Flights, NoFlight
<1>2. \A g \in Calls : Live(g) => flight[g] \in Flights
  BY DEF Live, CacheTypes, NoFlight
<1>3. /\ call' \in [Calls -> CallStates]
      /\ \A r \in Calls : call'[r].at \in {"new", "probing"} => call[r].at \in {"new", "probing"}
  BY <1>1, DeliverTypes DEF Land
<1>4. inFlight' = [inFlight EXCEPT ![flight[f].key] = None]
  BY <1>1 DEF Land, Tracked
<1>5. inFlight' \in [Keys -> Calls \union {None}]
  BY <1>4 DEF CacheTypes
<1>6. \A i \in DOMAIN queue : queue[i] # f
  BY DEF Waits
<1>7. CASE flight[f].kind = "waited" \/ queue = <<>>
  <2>1. UNCHANGED queue /\ flight' = [flight EXCEPT ![f].at = "ended"]
    <3>1. CASE flight[f].kind = "waited"
      BY <3>1 DEF Land, EndWaited, Goto
    <3>2. CASE flight[f].kind = "background"
      BY <1>1, <1>7, <3>2, LastTaskEnds DEF Land, Running
    <3> QED
      BY <1>1, <3>1, <3>2 DEF Kinds
  <2>2. /\ flight' \in [Calls -> Flights \union {NoFlight}]
        /\ flight'[f] \in Flights /\ flight'[f].at = "ended"
        /\ \A g \in Calls \ {f} : flight'[g] = flight[g]
    BY <1>1, <2>1, EndedOnly DEF CacheTypes
  <2>3. Counted' /\ active' \in Nat /\ active' <= active
    <3>1. \A g \in Calls \ {f} : Running(g)' <=> Running(g)
      BY <2>2 DEF Running, Live
    <3>2. ~Running(f)'
      BY <2>2 DEF Running, Live
    <3>3. CASE flight[f].kind = "waited"
      <4>1. ~Running(f) /\ active' = active
        BY <3>3 DEF Land, EndWaited, Running
      <4> QED
        BY <3>1, <3>2, <4>1, TasksStay DEF CacheTypes
    <3>4. CASE flight[f].kind = "background"
      <4>1. Running(f) /\ EndBackground(f)
        BY <1>1, <3>4 DEF Land, Running
      <4>2. active' = active - 1
        BY <1>7, <3>4, <4>1, LastTaskEnds
      <4>3. active >= 1 /\ active \in Nat
        BY <4>1, SomebodyRuns DEF CacheTypes
      <4>4. Counted'
        BY <3>1, <3>2, <4>1, <4>2, TaskEnds
      <4> QED
        BY <4>2, <4>3, <4>4
    <3> QED
      BY <1>1, <3>3, <3>4 DEF Kinds
  <2>4. CacheTypes'
    BY <1>3, <1>5, <2>1, <2>2, <2>3 DEF CacheTypes
  <2>5. Tracked'
    BY <1>1, <1>2, <1>4, <2>2, LandTracked DEF Live
  <2>6. Fresh'
    BY <1>1, <1>3, <2>2 DEF Fresh, Live, NoFlight
  <2>7. Waits' /\ Once'
    BY <1>6, <2>1, <2>2, QueueStays DEF CacheTypes
  <2>8. Bounded'
    <3>1. queue' # <<>> => active' = active
      BY <1>7, <2>1 DEF Land, EndWaited
    <3>2. MaxActive \in Nat /\ active \in Nat
      BY CacheAssumption DEF CacheTypes
    <3> QED
      BY <2>1, <2>3, <3>1, <3>2 DEF Bounded
  <2> QED
    BY <2>3, <2>4, <2>5, <2>6, <2>7, <2>8
<1>8. CASE flight[f].kind = "background" /\ queue # <<>>
  <2>1. Running(f) /\ EndBackground(f)
    BY <1>1, <1>8 DEF Land, Running
  <2>2. PICK h \in Calls \ {f} :
        /\ h = queue[1] /\ 1 \in DOMAIN queue
        /\ flight' = [flight EXCEPT ![f].at = "ended", ![h].at = "generate"]
        /\ queue' = Tail(queue)
        /\ active' = active
    BY <1>8, <2>1, NextTaskStarts
  <2>3. flight[h].at = "queued" /\ flight[h].kind = "background" /\ Live(h) /\ ~Running(h)
    BY <2>2 DEF Waits, Live, Running
  <2>4. \A i \in DOMAIN queue : i > 1 => queue[i] \in Calls \ {f, h}
    BY <1>6, <2>2 DEF Once, CacheTypes
  <2>5. flight[h] \in Flights
    BY <1>2, <2>2, <2>3
  <2>6. /\ flight' \in [Calls -> Flights \union {NoFlight}]
        /\ flight'[f] \in Flights /\ flight'[f].at = "ended"
        /\ flight'[h] = [flight[h] EXCEPT !.at = "generate"]
        /\ \A g \in Calls \ {f, h} : flight'[g] = flight[g]
    BY <1>1, <2>2, <2>5, EndedAndStarted DEF CacheTypes
  <2>7. flight'[h].at = "generate" /\ flight'[h].key = flight[h].key /\ flight'[h].kind = flight[h].kind
    BY <2>5, <2>6 DEF Flights
  <2>8. Waits' /\ Once' /\ Len(queue') = Len(queue) - 1 /\ queue' \in Seq(Calls)
    BY <1>8, <2>2, <2>4, <2>6, QueueMoves DEF CacheTypes
  <2>9. CacheTypes'
    BY <1>3, <1>5, <2>2, <2>6, <2>8 DEF CacheTypes
  <2>10. Tracked'
    <3>1. \A g \in Calls \ {f} : flight'[g].key = flight[g].key /\ (Live(g)' <=> Live(g))
      BY <2>3, <2>6, <2>7 DEF Live
    <3>2. ~Live(f)'
      BY <2>6 DEF Live
    <3> QED
      BY <1>1, <1>2, <1>4, <3>1, <3>2, LandTracked DEF CacheTypes
  <2>11. Fresh'
    BY <1>1, <1>3, <2>3, <2>6 DEF Fresh, Live, NoFlight
  <2>12. Counted'
    <3>1. ~Running(f)' /\ Running(h)'
      BY <2>3, <2>6, <2>7 DEF Running, Live
    <3>2. \A g \in Calls \ {f, h} : Running(g)' <=> Running(g)
      BY <2>6 DEF Running, Live
    <3> QED
      BY <2>1, <2>2, <2>3, <3>1, <3>2, TaskFollows DEF CacheTypes
  <2>13. Bounded'
    <3>1. Len(queue) \in Nat /\ MaxQueue \in Nat
      BY CacheAssumption DEF CacheTypes
    <3> QED
      BY <1>8, <2>2, <2>8, <3>1 DEF Bounded
  <2> QED
    BY <2>8, <2>9, <2>10, <2>11, <2>12, <2>13
<1> QED
  BY <1>1, <1>7, <1>8 DEF Kinds

-----------------------------------------------------------------------------
(***************************************************************************)
(* A flight moves on; a call starts one, or none.                          *)
(***************************************************************************)
LEMMA GotoInv ==
    ASSUME CacheInv, NEW f \in Calls, flight[f].at \in {"lookup", "generate"},
           NEW stage \in {"generate", "write"}, Goto(f, stage),
           UNCHANGED <<inFlight, active, queue, call>>
    PROVE  CacheInv'
<1> USE DEF CacheInv
<1>1. flight[f] \in Flights
  BY DEF CacheTypes, NoFlight
<1>2. /\ flight' \in [Calls -> Flights \union {NoFlight}]
      /\ flight'[f] = [flight[f] EXCEPT !.at = stage]
      /\ \A g \in Calls \ {f} : flight'[g] = flight[g]
  BY <1>1 DEF CacheTypes, Goto, Flights, Stages
<1>3. flight'[f].at = stage /\ flight'[f].key = flight[f].key /\ flight'[f].kind = flight[f].kind
  BY <1>1, <1>2 DEF Flights
<1>4. \A g \in Calls : flight'[g].key = flight[g].key /\ (Live(g)' <=> Live(g)) /\ (Running(g)' <=> Running(g))
  BY <1>2, <1>3 DEF Live, Running
<1>5. CacheTypes'
  BY <1>2 DEF CacheTypes
<1>6. Tracked'
  <2>1. \A k \in Keys : inFlight[k] # None => inFlight[k] \in Calls
    BY DEF CacheTypes
  <2> QED
    BY <1>4, <2>1 DEF Tracked, Live
<1>7. Fresh'
  BY <1>1, <1>2 DEF Fresh, NoFlight
<1>8. Waits' /\ Once'
  BY <1>2, QueueStays DEF Waits, CacheTypes
<1>9. Counted'
  BY <1>4, TasksStay
<1>10. Bounded'
  BY DEF Bounded
<1> QED
  BY <1>5, <1>6, <1>7, <1>8, <1>9, <1>10

\* A call is answered, or goes to look, and no flight knows of it.
LEMMA AnswerInv ==
    ASSUME CacheInv, UNCHANGED <<inFlight, flight, active, queue>>,
           NEW r \in Calls, call[r].at \in {"new", "probing"},
           NEW state \in CallStates, call' = [call EXCEPT ![r] = state]
    PROVE  CacheInv'
<1> USE DEF CacheInv
<1>1. CacheTypes'
  BY DEF CacheTypes
<1>2. \A g \in Calls : call'[g].at \in {"new", "probing"} => call[g].at \in {"new", "probing"}
  BY DEF CacheTypes
<1>3. Fresh'
  BY <1>2 DEF Fresh
<1>4. Tracked' /\ Waits' /\ Once' /\ Bounded'
  BY DEF Tracked, Waits, Once, Bounded, Live
<1>5. Counted'
  BY TasksStay DEF Running, Live
<1> QED
  BY <1>1, <1>3, <1>4, <1>5

(***************************************************************************)
(* The call r starts its flight for the text k, which has none.            *)
(***************************************************************************)
Starts(r, k, kind, stage) ==
    /\ call[r].at \in {"new", "probing"}
    /\ inFlight[k] = None
    /\ inFlight' = [inFlight EXCEPT ![k] = r]
    /\ Launched(r, k, kind, stage)

LEMMA LaunchShape ==
    ASSUME CacheInv, NEW r \in Calls, NEW k \in Keys, NEW kind \in Kinds,
           NEW stage \in Stages, Starts(r, k, kind, stage)
    PROVE  /\ flight[r] = NoFlight
           /\ flight' \in [Calls -> Flights \union {NoFlight}]
           /\ inFlight' \in [Keys -> Calls \union {None}]
           /\ flight'[r] = [at |-> stage, key |-> k, kind |-> kind]
           /\ \A g \in Calls \ {r} : flight'[g] = flight[g]
           /\ inFlight'[k] = r /\ \A j \in Keys \ {k} : inFlight'[j] = inFlight[j]
BY DEF CacheInv, CacheTypes, Fresh, Starts, Launched, Flights

LEMMA LaunchTracked ==
    ASSUME CacheInv, NEW r \in Calls, NEW k \in Keys, NEW kind \in Kinds,
           NEW stage \in Stages \ {"ended"}, Starts(r, k, kind, stage)
    PROVE  Tracked'
<1>1. /\ flight[r] = NoFlight
      /\ flight'[r] = [at |-> stage, key |-> k, kind |-> kind]
      /\ \A g \in Calls \ {r} : flight'[g] = flight[g]
      /\ inFlight'[k] = r /\ \A j \in Keys \ {k} : inFlight'[j] = inFlight[j]
  BY LaunchShape
<1>2. ~Live(r) /\ Live(r)' /\ flight'[r].key = k
  BY <1>1 DEF NoFlight, Live, Stages
<1>3. \A g \in Calls \ {r} : (Live(g)' <=> Live(g)) /\ flight'[g].key = flight[g].key
  BY <1>1 DEF Live
<1>4. ASSUME NEW g \in Calls, Live(g)'
      PROVE  inFlight'[flight'[g].key] = g
  <2>1. CASE g = r
    BY <1>1, <1>2, <2>1
  <2>2. CASE g # r
    <3>1. Live(g) /\ flight'[g].key = flight[g].key
      BY <1>3, <1>4, <2>2
    <3>2. inFlight[flight[g].key] = g /\ g # None
      BY <3>1, CacheAssumption DEF CacheInv, Tracked
    <3>3. flight[g].key \in Keys
      BY <3>1 DEF CacheInv, CacheTypes, Live, Flights, NoFlight
    <3> QED
      BY <1>1, <3>1, <3>2, <3>3 DEF Starts
  <2> QED
    BY <2>1, <2>2
<1>5. ASSUME NEW j \in Keys, inFlight'[j] # None
      PROVE  (Live(inFlight[j]) /\ flight[inFlight[j]].key = j)'
  <2>1. CASE j = k
    BY <1>1, <1>2, <2>1 DEF Live
  <2>2. CASE j # k
    <3>1. inFlight'[j] = inFlight[j] /\ inFlight[j] \in Calls
      BY <1>1, <1>5, <2>2 DEF CacheInv, CacheTypes
    <3>2. Live(inFlight[j]) /\ flight[inFlight[j]].key = j
      BY <1>5, <3>1 DEF CacheInv, Tracked
    <3>3. inFlight[j] # r
      BY <1>2, <3>2
    <3> QED
      BY <1>1, <3>1, <3>2, <3>3 DEF Live
  <2> QED
    BY <2>1, <2>2
<1> QED
  BY <1>4, <1>5 DEF Tracked

\* Whoever has started a flight is answered or waits for it.
LEMMA LaunchFresh ==
    ASSUME CacheInv, NEW r \in Calls, NEW k \in Keys, NEW kind \in Kinds,
           NEW stage \in Stages, Starts(r, k, kind, stage),
           NEW state \in CallStates, state.at \notin {"new", "probing"},
           call' = [call EXCEPT ![r] = state]
    PROVE  call' \in [Calls -> CallStates] /\ Fresh'
<1>1. call'[r] = state /\ \A g \in Calls \ {r} : call'[g] = call[g]
  BY DEF CacheInv, CacheTypes
<1>2. \A g \in Calls \ {r} : flight'[g] = flight[g]
  BY LaunchShape
<1>3. Fresh'
  BY <1>1, <1>2 DEF Fresh, CacheInv
<1> QED
  BY <1>3 DEF CacheInv, CacheTypes

\* resolve waits for its own flight.
LEMMA LaunchWaited ==
    ASSUME CacheInv, NEW r \in Calls, NEW k \in Keys,
           NEW stage \in {"lookup", "generate"}, Starts(r, k, "waited", stage),
           NEW state \in CallStates, state.at \notin {"new", "probing"},
           call' = [call EXCEPT ![r] = state],
           UNCHANGED <<active, queue>>
    PROVE  CacheInv'
<1>1. "waited" \in Kinds /\ stage \in Stages \ {"ended"}
  BY DEF Kinds, Stages
<1>2. /\ flight[r] = NoFlight
      /\ flight' \in [Calls -> Flights \union {NoFlight}]
      /\ inFlight' \in [Keys -> Calls \union {None}]
      /\ flight'[r] = [at |-> stage, key |-> k, kind |-> "waited"]
      /\ \A g \in Calls \ {r} : flight'[g] = flight[g]
  BY <1>1, LaunchShape
<1>3. Tracked'
  BY <1>1, LaunchTracked
<1>4. call' \in [Calls -> CallStates] /\ Fresh'
  BY <1>1, LaunchFresh
<1>5. CacheTypes'
  BY <1>2, <1>4 DEF CacheInv, CacheTypes
<1>6. Waits' /\ Once'
  <2>1. \A i \in DOMAIN queue : queue[i] \in Calls \ {r}
    BY <1>2 DEF CacheInv, CacheTypes, Waits, NoFlight
  <2> QED
    BY <1>2, <2>1, QueueStays DEF CacheInv
<1>7. Counted'
  <2>1. \A g \in Calls : Running(g)' <=> Running(g)
    BY <1>2 DEF Running, Live, NoFlight
  <2> QED
    BY <2>1, TasksStay DEF CacheInv
<1>8. Bounded'
  BY DEF CacheInv, Bounded
<1> QED
  BY <1>3, <1>4, <1>5, <1>6, <1>7, <1>8 DEF CacheInv

\* A background task finds a slot, and nobody waits before it.
LEMMA LaunchNow ==
    ASSUME CacheInv, NEW r \in Calls, NEW k \in Keys,
           Starts(r, k, "background", "generate"),
           NEW state \in CallStates, state.at \notin {"new", "probing"},
           call' = [call EXCEPT ![r] = state],
           active < MaxActive, active' = active + 1, UNCHANGED queue
    PROVE  CacheInv'
<1>1. "background" \in Kinds /\ "generate" \in Stages \ {"ended"}
  BY DEF Kinds, Stages
<1>2. /\ flight[r] = NoFlight
      /\ flight' \in [Calls -> Flights \union {NoFlight}]
      /\ inFlight' \in [Keys -> Calls \union {None}]
      /\ flight'[r] = [at |-> "generate", key |-> k, kind |-> "background"]
      /\ \A g \in Calls \ {r} : flight'[g] = flight[g]
  BY <1>1, LaunchShape
<1>3. Tracked'
  BY <1>1, LaunchTracked
<1>4. call' \in [Calls -> CallStates] /\ Fresh'
  BY <1>1, LaunchFresh
<1>5. active \in Nat /\ MaxActive \in Nat
  BY CacheAssumption DEF CacheInv, CacheTypes
<1>6. CacheTypes'
  BY <1>2, <1>4, <1>5 DEF CacheInv, CacheTypes
<1>7. Waits' /\ Once'
  <2>1. \A i \in DOMAIN queue : queue[i] \in Calls \ {r}
    BY <1>2 DEF CacheInv, CacheTypes, Waits, NoFlight
  <2> QED
    BY <1>2, <2>1, QueueStays DEF CacheInv
<1>8. Counted'
  <2>1. ~Running(r) /\ Running(r)'
    BY <1>2 DEF Running, Live, NoFlight
  <2>2. \A g \in Calls \ {r} : Running(g)' <=> Running(g)
    BY <1>2 DEF Running, Live
  <2> QED
    BY <2>1, <2>2, TaskStarts DEF CacheInv
<1>9. Bounded'
  BY <1>5 DEF CacheInv, Bounded
<1> QED
  BY <1>3, <1>4, <1>6, <1>7, <1>8, <1>9 DEF CacheInv

\* A background task finds no slot and a place in the queue.
LEMMA LaunchLater ==
    ASSUME CacheInv, NEW r \in Calls, NEW k \in Keys,
           Starts(r, k, "background", "queued"),
           NEW state \in CallStates, state.at \notin {"new", "probing"},
           call' = [call EXCEPT ![r] = state],
           active >= MaxActive, Len(queue) < MaxQueue,
           queue' = Append(queue, r), UNCHANGED active
    PROVE  CacheInv'
<1>1. "background" \in Kinds /\ "queued" \in Stages \ {"ended"}
  BY DEF Kinds, Stages
<1>2. /\ flight[r] = NoFlight
      /\ flight' \in [Calls -> Flights \union {NoFlight}]
      /\ inFlight' \in [Keys -> Calls \union {None}]
      /\ flight'[r] = [at |-> "queued", key |-> k, kind |-> "background"]
      /\ \A g \in Calls \ {r} : flight'[g] = flight[g]
  BY <1>1, LaunchShape
<1>3. Tracked'
  BY <1>1, LaunchTracked
<1>4. call' \in [Calls -> CallStates] /\ Fresh'
  BY <1>1, LaunchFresh
<1>5. /\ queue \in Seq(Calls) /\ queue' \in Seq(Calls)
      /\ Len(queue) \in Nat /\ Len(queue') = Len(queue) + 1
      /\ DOMAIN queue' = DOMAIN queue \union {Len(queue) + 1}
      /\ queue'[Len(queue) + 1] = r
      /\ \A i \in DOMAIN queue : queue'[i] = queue[i]
  BY DEF CacheInv, CacheTypes
<1>6. \A i \in DOMAIN queue : queue[i] \in Calls \ {r}
  BY <1>2 DEF CacheInv, CacheTypes, Waits, NoFlight
<1>7. CacheTypes'
  BY <1>2, <1>4, <1>5 DEF CacheInv, CacheTypes
<1>8. Waits'
  BY <1>2, <1>5, <1>6 DEF CacheInv, Waits
<1>9. Once'
  BY <1>5, <1>6 DEF CacheInv, Once
<1>10. Counted'
  <2>1. \A g \in Calls : Running(g)' <=> Running(g)
    BY <1>2 DEF Running, Live, NoFlight
  <2> QED
    BY <2>1, TasksStay DEF CacheInv
<1>11. Bounded'
  <2>1. active \in Nat /\ MaxActive \in Nat /\ MaxQueue \in Nat
    BY CacheAssumption DEF CacheInv, CacheTypes
  <2> QED
    BY <1>5, <2>1 DEF CacheInv, Bounded
<1> QED
  BY <1>3, <1>4, <1>7, <1>8, <1>9, <1>10, <1>11 DEF CacheInv

LEMMA ScheduleInv ==
    ASSUME CacheInv, NEW r \in Calls, NEW k \in Keys,
           call[r].at \in {"new", "probing"}, Schedule(r, k), Become(r, "pending", k)
    PROVE  CacheInv'
<1> DEFINE state == [at |-> "pending", key |-> k]
<1>1. state \in CallStates /\ state.at \notin {"new", "probing"} /\ call' = [call EXCEPT ![r] = state]
  BY DEF CallStates, Answered, Become
<1> HIDE DEF state
<1>2. CASE UNCHANGED <<inFlight, flight, active, queue>>
  BY <1>1, <1>2, AnswerInv
<1>3. CASE /\ Starts(r, k, "background", "generate")
           /\ active < MaxActive /\ active' = active + 1 /\ UNCHANGED queue
  BY <1>1, <1>3, LaunchNow
<1>4. CASE /\ Starts(r, k, "background", "queued")
           /\ active >= MaxActive /\ Len(queue) < MaxQueue
           /\ queue' = Append(queue, r) /\ UNCHANGED active
  BY <1>1, <1>4, LaunchLater
<1> QED
  BY <1>2, <1>3, <1>4 DEF Schedule, Starts

-----------------------------------------------------------------------------
LEMMA ResolveInv ==
    ASSUME CacheInv, NEW r \in Calls, NEW k \in Keys, Resolve(r, k)
    PROVE  CacheInv'
<1>1. call[r].at \in {"new", "probing"}
  BY DEF Resolve, NewCall
<1>2. CASE Become(r, "ready", k) /\ UNCHANGED <<inFlight, flight>>
  <2>1. [at |-> "ready", key |-> k] \in CallStates
    BY DEF CallStates, Answered
  <2> QED
    BY <1>1, <1>2, <2>1, AnswerInv DEF Become, Resolve
<1>3. CASE /\ inFlight[k] # None /\ UNCHANGED <<l1, inFlight, flight>>
           /\ call' = [call EXCEPT ![r] = [at |-> "waiting", key |-> k, on |-> inFlight[k]]]
  <2>1. [at |-> "waiting", key |-> k, on |-> inFlight[k]] \in CallStates
    BY <1>3 DEF CacheInv, CacheTypes, CallStates
  <2> QED
    BY <1>1, <1>3, <2>1, AnswerInv DEF Resolve
<1>4. CASE /\ inFlight[k] = None /\ inFlight' = [inFlight EXCEPT ![k] = r]
           /\ Launched(r, k, "waited", IF l2Enabled THEN "lookup" ELSE "generate")
           /\ call' = [call EXCEPT ![r] = [at |-> "waiting", key |-> k, on |-> r]]
  <2> DEFINE state == [at |-> "waiting", key |-> k, on |-> r]
  <2>1. state \in CallStates /\ state.at \notin {"new", "probing"}
    BY DEF CallStates
  <2>2. PICK stage \in {"lookup", "generate"} : Launched(r, k, "waited", stage)
    BY <1>4
  <2>3. Starts(r, k, "waited", stage)
    BY <1>1, <1>4, <2>2 DEF Starts
  <2>4. call' = [call EXCEPT ![r] = state] /\ UNCHANGED <<active, queue>>
    BY <1>4 DEF Resolve
  <2> HIDE DEF state
  <2> QED
    BY <2>1, <2>3, <2>4, LaunchWaited
<1> QED
  BY <1>2, <1>3, <1>4 DEF Resolve

LEMMA ProbeInv ==
    ASSUME CacheInv, NEW r \in Calls, NEW k \in Keys, Probe(r, k)
    PROVE  CacheInv'
<1>1. call[r].at \in {"new", "probing"}
  BY DEF Probe, NewCall
<1>2. CASE UNCHANGED <<inFlight, flight, active, queue>> /\ \E at \in {"ready", "pending", "probing"} : Become(r, at, k)
  <2>1. PICK at \in {"ready", "pending", "probing"} : Become(r, at, k)
    BY <1>2
  <2>2. [at |-> at, key |-> k] \in CallStates
    BY DEF CallStates, Answered
  <2> QED
    BY <1>1, <1>2, <2>1, <2>2, AnswerInv DEF Become
<1>3. CASE Schedule(r, k) /\ Become(r, "pending", k)
  BY <1>1, <1>3, ScheduleInv
<1> QED
  BY <1>2, <1>3 DEF Probe

LEMMA ProbeLookupInv ==
    ASSUME CacheInv, NEW r \in Calls, ProbeLookup(r)
    PROVE  CacheInv'
<1> DEFINE k == call[r].key
<1>1. call[r].at = "probing" /\ k \in Keys
  BY DEF ProbeLookup, CacheInv, CacheTypes, CallStates, NewCall
<1>2. CASE Become(r, "ready", k) /\ UNCHANGED <<inFlight, flight, active, queue>>
  <2>1. [at |-> "ready", key |-> k] \in CallStates
    BY <1>1 DEF CallStates, Answered
  <2> QED
    BY <1>1, <1>2, <2>1, AnswerInv DEF Become
<1>3. CASE Schedule(r, k) /\ Become(r, "pending", k)
  <2>1. PICK j \in Keys : j = k
    BY <1>1
  <2> QED
    BY <1>1, <1>3, <2>1, ScheduleInv
<1> QED
  BY <1>2, <1>3 DEF ProbeLookup

LEMMA FlightLookupInv ==
    ASSUME CacheInv, NEW f \in Calls, FlightLookup(f)
    PROVE  CacheInv'
<1>1. CASE Land(f, "ready")
  BY <1>1, LandInv DEF FlightLookup, Delivered
<1>2. CASE Goto(f, "generate") /\ UNCHANGED <<l1, inFlight, active, queue, call>>
  BY <1>2, GotoInv DEF FlightLookup
<1> QED
  BY <1>1, <1>2 DEF FlightLookup

LEMMA GenerateInv ==
    ASSUME CacheInv, NEW f \in Calls, Generate(f)
    PROVE  CacheInv'
<1>1. CASE \E answer \in Delivered : Land(f, answer)
  BY <1>1, LandInv DEF Generate
<1>2. CASE Goto(f, "write") /\ UNCHANGED <<inFlight, active, queue, call>>
  BY <1>2, GotoInv DEF Generate
<1> QED
  BY <1>1, <1>2 DEF Generate, Delivered

LEMMA CacheNext == CacheInv /\ [Next]_vars => CacheInv'
<1> SUFFICES ASSUME CacheInv, [Next]_vars
             PROVE  CacheInv'
  OBVIOUS
<1>1. CASE \E r \in Calls, k \in Keys : Resolve(r, k) \/ Probe(r, k)
  BY <1>1, ResolveInv, ProbeInv
<1>2. CASE \E r \in Calls : Proceed(r)
  <2>1. PICK r \in Calls : Proceed(r)
    BY <1>2
  <2>2. CASE WriteL2(r)
    BY <2>2, LandInv DEF WriteL2, Delivered
  <2> QED
    BY <2>1, <2>2, ProbeLookupInv, FlightLookupInv, GenerateInv DEF Proceed
<1>3. CASE UNCHANGED vars
  <2>1. UNCHANGED <<inFlight, flight, active, queue, call>>
    BY <1>3 DEF vars
  <2>2. CacheTypes' /\ Tracked' /\ Fresh' /\ Waits' /\ Once' /\ Bounded'
    BY <2>1 DEF CacheInv, CacheTypes, Tracked, Fresh, Waits, Once, Bounded, Live
  <2>3. Counted'
    BY <2>1, TasksStay DEF CacheInv, Running, Live
  <2> QED
    BY <2>2, <2>3 DEF CacheInv
<1> QED
  BY <1>1, <1>2, <1>3 DEF Next

(***************************************************************************)
(* However calls of both kinds, lookups and failures overlap: one text is  *)
(* looked up or generated by one flight at a time, and the map of flights  *)
(* never names one that is over.                                           *)
(***************************************************************************)
THEOREM OneFlightPerText == Spec => []SingleFlight
<1>1. CacheInv => SingleFlight
  BY DEF CacheInv, Tracked, SingleFlight
<1> QED
  BY <1>1, CacheInit, CacheNext, PTL DEF Spec

(***************************************************************************)
(* backgroundActive is the number of background generations that run, it   *)
(* and the queue keep to their limits, and no task waits beside a free     *)
(* slot.                                                                   *)
(***************************************************************************)
THEOREM SlotsAreCounted == Spec => []SlotsAreUsed
<1>1. CacheInv => SlotsAreUsed
  BY DEF CacheInv, Counted, Bounded, RunningTasks, SlotsAreUsed
<1> QED
  BY <1>1, CacheInit, CacheNext, PTL DEF Spec

-----------------------------------------------------------------------------
-----------------------------------------------------------------------------
(***************************************************************************)
(* ContextEmbedding.  A page that waits has a job, for every number of     *)
(* requests, attempts and faults.                                          *)
(***************************************************************************)

Statuses == {"none", "PENDING", "READY", "FAILED"}
JobStages   == {"none", "waiting", "model", "unlock", "remove", "failing", "releasing", "keep", "kept"}
ObserverSteps    == {"idle", "claim", "raced", "write", "add", "mark", "unlock", "done"}

Jobs == [at : JobStages, made : Nat, stalled : Nat]

PageTypes ==
    /\ page \in Statuses /\ lock \in BOOLEAN
    /\ job \in Jobs
    /\ observer \in [Observers -> ObserverSteps]

Quiet == \A o \in Observers : observer[o] \in {"idle", "raced", "done"}

Adding == \E o \in Observers : observer[o] \in {"add", "mark"}

(***************************************************************************)
(* While the worker tidies up the page is READY, so that nobody can start  *)
(* anew; when the job leaves the queue the lock has left before it.        *)
(***************************************************************************)
Tidy ==
    /\ job.at \in {"unlock", "remove"} => page = "READY" /\ Quiet
    /\ job.at = "remove" => ~lock

Worked ==
    /\ page = "PENDING" => job.at # "none" \/ Adding
    /\ lock => job.at # "none" \/ Claiming

PageInv == PageTypes /\ (Orderly => Tidy /\ Worked)

LEMMA PageInit == ContextInit => PageInv
<1> SUFFICES ASSUME ContextInit
             PROVE  PageInv
  OBVIOUS
<1>1. job \in Jobs /\ job.at = "none"
  BY DEF ContextInit, NoJob, Jobs, JobStages
<1>2. PageTypes
  BY <1>1 DEF ContextInit, PageTypes, Statuses, ObserverSteps
<1>3. Tidy /\ Worked
  BY <1>1 DEF ContextInit, Tidy, Worked
<1> QED
  BY <1>2, <1>3 DEF PageInv

-----------------------------------------------------------------------------
(***************************************************************************)
(* The steps of a request move one observer.                               *)
(***************************************************************************)
LEMMA ObservingTypes ==
    ASSUME PageTypes, NEW o \in Observers, NEW at \in ObserverSteps, Observing(o, at)
    PROVE  /\ observer' \in [Observers -> ObserverSteps]
           /\ observer'[o] = at
           /\ \A p \in Observers \ {o} : observer'[p] = observer[p]
BY DEF PageTypes, Observing

LEMMA JobMoves ==
    ASSUME PageTypes, NEW at, NEW next \in JobStages, Working(at, next)
    PROVE  job.at = at /\ job' \in Jobs /\ job'.at = next
BY DEF PageTypes, Working, Jobs

LEMMA QueuedMoves ==
    ASSUME PageTypes
    PROVE  /\ Queued \in Jobs /\ Queued.at # "none"
           /\ job.at # "none" => Queued = job
           /\ job.at = "none" => Queued.at = "waiting"
BY DEF PageTypes, Queued, Jobs, NoJob, JobStages

-----------------------------------------------------------------------------
LEMMA ObserversKeepPage ==
    ASSUME PageInv, NEW o \in Observers,
           \/ Observe(o) \/ Claim(o) \/ ReadRaced(o) \/ WritePending(o) \/ AddJob(o) \/ AddFails(o)
           \/ MarkFailed(o) \/ Unlock(o) \/ ObserverDies(o) \/ ObserveAgain(o)
    PROVE  PageInv'
<1> USE DEF PageInv, PageTypes, Orderly, Tidy, Worked, Quiet, Adding, Claiming, Statuses, ObserverSteps
<1>1. ASSUME Observe(o)
      PROVE  PageInv'
  BY <1>1, ObservingTypes DEF Observe
<1>2. ASSUME Claim(o)
      PROVE  PageInv'
  BY <1>2, ObservingTypes DEF Claim
<1>3. ASSUME ReadRaced(o)
      PROVE  PageInv'
  BY <1>3, ObservingTypes DEF ReadRaced
<1>4. ASSUME WritePending(o)
      PROVE  PageInv'
  BY <1>4, ObservingTypes DEF WritePending
<1>5. ASSUME AddJob(o)
      PROVE  PageInv'
  BY <1>5, ObservingTypes, QueuedMoves DEF AddJob
<1>6. ASSUME AddFails(o)
      PROVE  PageInv'
  BY <1>6, ObservingTypes, QueuedMoves DEF AddFails
<1>7. ASSUME MarkFailed(o)
      PROVE  PageInv'
  BY <1>7, ObservingTypes DEF MarkFailed
<1>8. ASSUME Unlock(o)
      PROVE  PageInv'
  BY <1>8, ObservingTypes DEF Unlock
<1>9. ASSUME ObserverDies(o)
      PROVE  PageInv'
  BY <1>9, ObservingTypes DEF ObserverDies, Fault
<1>10. ASSUME ObserveAgain(o)
       PROVE  PageInv'
  BY <1>10, ObservingTypes DEF ObserveAgain
<1> QED
  BY <1>1, <1>2, <1>3, <1>4, <1>5, <1>6, <1>7, <1>8, <1>9, <1>10

LEMMA WorkerKeepsPage ==
    ASSUME PageInv,
           \/ TakeJob \/ CompleteJob \/ ReleaseLock \/ RemoveJob \/ FailJob \/ KeepFailedJob
           \/ AttemptFails \/ WorkerDies \/ ForgetFailedJob
    PROVE  PageInv'
<1> USE DEF PageInv, PageTypes, Orderly, Tidy, Worked, Quiet, Adding, Claiming, Statuses, JobStages
<1>1. ASSUME TakeJob
      PROVE  PageInv'
  BY <1>1, JobMoves DEF TakeJob
<1>2. ASSUME CompleteJob
      PROVE  PageInv'
  BY <1>2, JobMoves DEF CompleteJob
<1>3. ASSUME ReleaseLock
      PROVE  PageInv'
  BY <1>3, JobMoves DEF ReleaseLock
<1>4. ASSUME RemoveJob
      PROVE  PageInv'
  BY <1>4 DEF RemoveJob, NoJob, Jobs
<1>5. ASSUME FailJob
      PROVE  PageInv'
  BY <1>5, JobMoves DEF FailJob
<1>6. ASSUME KeepFailedJob
      PROVE  PageInv'
  BY <1>6, JobMoves DEF KeepFailedJob
<1>7. ASSUME AttemptFails
      PROVE  PageInv'
  <2>1. job' \in Jobs /\ job'.at \in {"failing", "waiting"}
    <3>1. CASE job.made + 1 >= Attempts
      BY <1>7, <3>1 DEF AttemptFails, Jobs
    <3>2. CASE ~(job.made + 1 >= Attempts)
      <4>1. job.made + 1 \in Nat /\ job.stalled \in Nat
        BY DEF Jobs
      <4>2. job' = [at |-> "waiting", made |-> job.made + 1, stalled |-> job.stalled]
        BY <1>7, <3>2 DEF AttemptFails, Jobs
      <4> QED
        BY <4>1, <4>2 DEF Jobs
    <3> QED
      BY <3>1, <3>2
  <2> QED
    BY <1>7, <2>1 DEF AttemptFails
<1>8. ASSUME WorkerDies
      PROVE  PageInv'
  <2>1. job' \in Jobs
    BY <1>8 DEF WorkerDies, Jobs
  <2> QED
    BY <1>8, <2>1 DEF WorkerDies, Fault
<1>9. ASSUME ForgetFailedJob
      PROVE  PageInv'
  BY <1>9 DEF ForgetFailedJob, NoJob, Jobs
<1> QED
  BY <1>1, <1>2, <1>3, <1>4, <1>5, <1>6, <1>7, <1>8, <1>9

LEMMA OthersKeepPage ==
    ASSUME PageInv,
           ResolveForDecision \/ LeaveL1 \/ PageExpires \/ LockExpires \/ UNCHANGED contextVars
    PROVE  PageInv'
<1> USE DEF PageInv, PageTypes, Orderly, Tidy, Worked, Quiet, Adding, Claiming, Statuses, JobStages
<1>1. ASSUME ResolveForDecision \/ LeaveL1 \/ UNCHANGED contextVars
      PROVE  PageInv'
  BY <1>1 DEF ResolveForDecision, LeaveL1, contextVars
<1>2. ASSUME PageExpires
      PROVE  PageInv'
  BY <1>2 DEF PageExpires, MayExpire, AtWork
<1>3. ASSUME LockExpires
      PROVE  PageInv'
  BY <1>3 DEF LockExpires, MayExpire, AtWork
<1> QED
  BY <1>1, <1>2, <1>3

(***************************************************************************)
(* Unless a process dies, a time to live passes or the job overtakes a     *)
(* request: a page that is PENDING has a job in the queue, or a request on *)
(* its way to put one there; and a lock nobody works under has a job too.  *)
(***************************************************************************)
THEOREM PendingPagesHaveJobs == ContextSpec => []PendingHasJob
<1>1. PageInv => PendingHasJob
  BY DEF PageInv, Worked, Adding, PendingHasJob, AtWork
<1>2. PageInv /\ [ContextNext]_contextVars => PageInv'
  BY ObserversKeepPage, WorkerKeepsPage, OthersKeepPage DEF ContextNext, ObserverStep, WorkerStep
<1> QED
  BY <1>1, <1>2, PageInit, PTL DEF ContextSpec

-----------------------------------------------------------------------------
-----------------------------------------------------------------------------
(***************************************************************************)
(* BidLogPipeline.  Bids are logged once and told to who watches, for      *)
(* every number of auctions, campaigns, attempts and mishaps.              *)
(***************************************************************************)

JobStates == {"open", "waiting", "upsert", "find", "publish", "done", "failed", "unqueued"}

BidJobs == [at : JobStates, made : Nat, stalled : Nat]

BidTypes ==
    /\ bidJob \in [Auctions -> BidJobs]
    /\ rows \in [Bids -> {0, 1}]
    /\ inbox \subseteq Auctions /\ subscribed \in BOOLEAN /\ watching \subseteq Users
    /\ heard \in [Bids -> Nat]
    /\ attentive \in [Auctions -> SUBSET Users]

Stored(a) == \A b \in BidsOf(a) : rows[b] = 1

(***************************************************************************)
(* What comes after the rows: the rest of the job, the message, the        *)
(* dashboards.                                                             *)
(***************************************************************************)
RowsComeFirst ==
    /\ \A a \in Auctions : bidJob[a].at \in {"find", "publish", "done"} \/ a \in inbox => Stored(a)
    /\ \A b \in Bids : heard[b] > 0 => rows[b] = 1

(***************************************************************************)
(* Who has watched since the rows were stored still watches, on a server   *)
(* that is still subscribed; so the message finds them.                    *)
(***************************************************************************)
WatchersHear ==
    /\ \A a \in Auctions : attentive[a] \subseteq watching
    /\ \A a \in Auctions : ~subscribed => attentive[a] = {}
    /\ \A a \in Auctions : bidJob[a].at = "done" /\ a \notin inbox =>
         \A b \in BidsOf(a) : UserOf[b[2]] \in attentive[a] => heard[b] > 0

BidInv == BidTypes /\ RowsComeFirst /\ WatchersHear

LEMMA BidInitInv == BidInit => BidInv
<1> SUFFICES ASSUME BidInit
             PROVE  BidInv
  OBVIOUS
<1>1. \A a \in Auctions : bidJob[a].at = "open" /\ bidJob[a] \in BidJobs
  BY DEF BidInit, BidJobs, JobStates
<1>2. BidTypes
  BY <1>1 DEF BidInit, BidTypes
<1>3. RowsComeFirst /\ WatchersHear
  BY <1>1 DEF BidInit, RowsComeFirst, WatchersHear
<1> QED
  BY <1>2, <1>3 DEF BidInv

-----------------------------------------------------------------------------
(***************************************************************************)
(* The steps of a job move that job and no other.                          *)
(***************************************************************************)
LEMMA AtMoves ==
    ASSUME BidTypes, NEW a \in Auctions, NEW at, NEW next \in JobStates, At(a, at, next)
    PROVE  /\ bidJob[a].at = at /\ bidJob' \in [Auctions -> BidJobs]
           /\ bidJob'[a].at = next
           /\ \A o \in Auctions \ {a} : bidJob'[o] = bidJob[o]
<1>1. bidJob[a] \in BidJobs
  BY DEF BidTypes
<1>2. [bidJob[a] EXCEPT !.at = next] \in BidJobs
  BY <1>1 DEF BidJobs
<1>3. bidJob' = [bidJob EXCEPT ![a] = [bidJob[a] EXCEPT !.at = next]]
  BY DEF At
<1> QED
  BY <1>1, <1>2, <1>3 DEF At, BidTypes, BidJobs

LEMMA JobsStayJobs ==
    ASSUME NEW work \in BidJobs
    PROVE  /\ [work EXCEPT !.at = "failed"] \in BidJobs
           /\ [work EXCEPT !.at = "failed"].at = "failed"
           /\ [work EXCEPT !.at = "waiting", !.stalled = 1] \in BidJobs
           /\ [work EXCEPT !.at = "waiting", !.stalled = 1].at = "waiting"
           /\ Retried(work) \in BidJobs /\ Retried(work).at \in {"waiting", "failed"}
<1>1. work.made + 1 \in Nat /\ work.made \in Nat /\ work.stalled \in Nat
  BY DEF BidJobs
<1>2. ASSUME NEW next, next = [work EXCEPT !.at = "failed"]
      PROVE  next \in BidJobs /\ next.at = "failed"
  BY <1>2 DEF BidJobs, JobStates
<1>3. ASSUME NEW next, next = [work EXCEPT !.at = "waiting", !.stalled = 1]
      PROVE  next \in BidJobs /\ next.at = "waiting"
  BY <1>3 DEF BidJobs, JobStates
<1>4. ASSUME NEW next, NEW at \in {"failed", "waiting"}, next = [work EXCEPT !.at = at, !.made = work.made + 1]
      PROVE  next \in BidJobs /\ next.at = at
  BY <1>1, <1>4 DEF BidJobs, JobStates
<1> QED
  BY <1>2, <1>3, <1>4 DEF Retried

LEMMA FailureMoves ==
    ASSUME BidTypes, NEW a \in Auctions, BidJobFails(a) \/ BidWorkerDies(a)
    PROVE  /\ bidJob' \in [Auctions -> BidJobs]
           /\ bidJob'[a].at \in {"waiting", "failed"}
           /\ \A o \in Auctions \ {a} : bidJob'[o] = bidJob[o]
<1>1. PICK next \in BidJobs : bidJob' = [bidJob EXCEPT ![a] = next] /\ next.at \in {"waiting", "failed"}
  <2>1. bidJob[a] \in BidJobs
    BY DEF BidTypes
  <2>2. CASE BidJobFails(a)
    BY <2>1, <2>2, JobsStayJobs DEF BidJobFails
  <2>3. CASE BidWorkerDies(a)
    BY <2>1, <2>3, JobsStayJobs DEF BidWorkerDies
  <2> QED
    BY <2>2, <2>3
<1> QED
  BY <1>1 DEF BidTypes

-----------------------------------------------------------------------------
LEMMA JobsKeepBids ==
    ASSUME BidInv, NEW a \in Auctions,
           \/ QueueBids(a) \/ QueueingFails(a) \/ StartBidJob(a) \/ UpsertBids(a) \/ FindBids(a)
           \/ PublishBids(a) \/ BidJobFails(a) \/ BidWorkerDies(a)
    PROVE  BidInv'
<1> USE DEF BidInv
<1>1. CASE QueueBids(a) \/ QueueingFails(a) \/ StartBidJob(a)
  <2>1. /\ bidJob' \in [Auctions -> BidJobs] /\ bidJob'[a].at \in {"waiting", "unqueued", "upsert"}
        /\ \A o \in Auctions \ {a} : bidJob'[o] = bidJob[o]
    BY <1>1, AtMoves DEF QueueBids, QueueingFails, StartBidJob, JobStates
  <2>2. UNCHANGED <<rows, inbox, subscribed, watching, heard, attentive>>
    BY <1>1 DEF QueueBids, QueueingFails, StartBidJob
  <2> QED
    BY <2>1, <2>2 DEF BidTypes, RowsComeFirst, WatchersHear, Stored
<1>2. CASE UpsertBids(a)
  <2>1. /\ bidJob[a].at = "upsert" /\ bidJob' \in [Auctions -> BidJobs] /\ bidJob'[a].at = "find"
        /\ \A o \in Auctions \ {a} : bidJob'[o] = bidJob[o]
    BY <1>2, AtMoves DEF UpsertBids, JobStates
  <2>2. /\ rows' \in [Bids -> {0, 1}]
        /\ \A b \in Bids : rows'[b] = IF b[1] = a THEN 1 ELSE rows[b]
    BY <1>2 DEF UpsertBids, BidTypes
  <2>3. /\ attentive' \in [Auctions -> SUBSET Users]
        /\ attentive'[a] \in {attentive[a], IF subscribed THEN watching ELSE {}}
        /\ \A o \in Auctions \ {a} : attentive'[o] = attentive[o]
    BY <1>2 DEF UpsertBids, BidTypes
  <2>4. UNCHANGED <<inbox, subscribed, watching, heard>>
    BY <1>2 DEF UpsertBids
  <2>5. BidTypes'
    BY <2>1, <2>2, <2>3, <2>4 DEF BidTypes
  <2>6. RowsComeFirst'
    BY <2>1, <2>2, <2>4 DEF RowsComeFirst, Stored, BidsOf
  <2>7. WatchersHear'
    BY <2>1, <2>3, <2>4 DEF WatchersHear
  <2> QED
    BY <2>5, <2>6, <2>7
<1>3. CASE FindBids(a)
  <2>1. /\ bidJob[a].at = "find" /\ bidJob' \in [Auctions -> BidJobs] /\ bidJob'[a].at = "publish"
        /\ \A o \in Auctions \ {a} : bidJob'[o] = bidJob[o]
    BY <1>3, AtMoves DEF FindBids, JobStates
  <2>2. UNCHANGED <<rows, inbox, subscribed, watching, heard, attentive>>
    BY <1>3 DEF FindBids
  <2> QED
    BY <2>1, <2>2 DEF BidTypes, RowsComeFirst, WatchersHear, Stored
<1>4. CASE PublishBids(a)
  <2>1. /\ bidJob[a].at = "publish" /\ bidJob' \in [Auctions -> BidJobs] /\ bidJob'[a].at = "done"
        /\ \A o \in Auctions \ {a} : bidJob'[o] = bidJob[o]
    BY <1>4, AtMoves DEF PublishBids, JobStates
  <2>2. /\ UNCHANGED <<rows, subscribed, watching, heard, attentive>>
        /\ inbox' = IF subscribed THEN inbox \union {a} ELSE inbox
    BY <1>4 DEF PublishBids
  <2>3. BidTypes' /\ RowsComeFirst'
    BY <2>1, <2>2 DEF BidTypes, RowsComeFirst, Stored
  <2>4. WatchersHear'
    BY <2>1, <2>2 DEF WatchersHear
  <2> QED
    BY <2>3, <2>4
<1>5. CASE BidJobFails(a) \/ BidWorkerDies(a)
  <2>1. UNCHANGED <<rows, subscribed, watching, heard, attentive>>
    BY <1>5 DEF BidJobFails, BidWorkerDies
  <2>2. inbox' = inbox \/ (bidJob[a].at = "publish" /\ inbox' = inbox \union {a})
    BY <1>5 DEF BidJobFails, BidWorkerDies, MayHavePublished
  <2>3. BidTypes' /\ RowsComeFirst'
    BY <1>5, <2>1, <2>2, FailureMoves DEF BidTypes, RowsComeFirst, Stored
  <2>4. WatchersHear'
    BY <1>5, <2>1, <2>2, FailureMoves DEF WatchersHear
  <2> QED
    BY <2>3, <2>4
<1> QED
  BY <1>1, <1>2, <1>3, <1>4, <1>5

LEMMA ListenersKeepBids ==
    ASSUME BidInv,
           \/ \E a \in Auctions : HandlePubSubMessage(a)
           \/ \E u \in Users : Watch(u) \/ Unwatch(u)
           \/ LoseSubscription \/ Resubscribe
    PROVE  BidInv'
<1> USE DEF BidInv
<1>1. UNCHANGED <<bidJob, rows>>
  BY DEF HandlePubSubMessage, Watch, Unwatch, LoseSubscription, Resubscribe
<1>2. ASSUME NEW a \in Auctions, HandlePubSubMessage(a)
      PROVE  BidInv'
  <2>1. /\ a \in inbox /\ inbox' = inbox \ {a}
        /\ UNCHANGED <<subscribed, watching, attentive>>
    BY <1>2 DEF HandlePubSubMessage
  <2>2. /\ heard' \in [Bids -> Nat]
        /\ \A b \in Bids : heard'[b] = IF b[1] = a /\ UserOf[b[2]] \in watching THEN heard[b] + 1 ELSE heard[b]
    BY <1>2 DEF HandlePubSubMessage, BidTypes
  <2>3. BidTypes'
    BY <1>1, <2>1, <2>2 DEF BidTypes
  <2>4. RowsComeFirst'
    BY <1>1, <2>1, <2>2 DEF RowsComeFirst, Stored, BidsOf
  <2>5. WatchersHear'
    <3>1. \A b \in Bids : heard[b] > 0 => heard'[b] > 0
      BY <2>2 DEF BidTypes
    <3>2. \A b \in BidsOf(a) : UserOf[b[2]] \in attentive[a] => heard'[b] > 0
      BY <2>2 DEF BidTypes, WatchersHear, BidsOf
    <3> QED
      BY <1>1, <2>1, <3>1, <3>2 DEF WatchersHear, BidsOf
  <2> QED
    BY <2>3, <2>4, <2>5
<1>3. ASSUME NEW u \in Users, Watch(u)
      PROVE  BidInv'
  BY <1>1, <1>3 DEF Watch, BidTypes, RowsComeFirst, WatchersHear, Stored
<1>4. ASSUME NEW u \in Users, Unwatch(u)
      PROVE  BidInv'
  <2>1. /\ UNCHANGED <<inbox, subscribed, heard>> /\ watching' = watching \ {u}
        /\ attentive' = [a \in Auctions |-> attentive[a] \ {u}]
    BY <1>4 DEF Unwatch
  <2> QED
    BY <1>1, <2>1 DEF BidTypes, RowsComeFirst, WatchersHear, Stored
<1>5. ASSUME LoseSubscription \/ Resubscribe
      PROVE  BidInv'
  BY <1>1, <1>5 DEF LoseSubscription, Resubscribe, BidTypes, RowsComeFirst, WatchersHear, Stored
<1> QED
  BY <1>2, <1>3, <1>4, <1>5

(***************************************************************************)
(* However often the job of an auction is tried and whatever fails in      *)
(* between: no bid is logged twice, no dashboard is told of a bid that is  *)
(* not in the log, and an auction whose job is done has its bids logged    *)
(* and told to who was watching all the time.                              *)
(***************************************************************************)
THEOREM BidsAreLoggedOnce == BidSpec => []BidsAreLogged
<1>1. BidInv => BidsAreLogged
  BY DEF BidInv, BidTypes, RowsComeFirst, WatchersHear, Stored, BidsOf, BidsAreLogged
<1>2. BidInv /\ UNCHANGED bidVars => BidInv'
  BY DEF bidVars, BidInv, BidTypes, RowsComeFirst, WatchersHear, Stored
<1>3. BidInv /\ [BidNext]_bidVars => BidInv'
  BY <1>2, JobsKeepBids, ListenersKeepBids DEF BidNext, BidJobStep
<1> QED
  BY <1>1, <1>3, BidInitInv, PTL DEF BidSpec
=============================================================================
