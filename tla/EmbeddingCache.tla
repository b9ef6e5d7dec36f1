---------------------------- MODULE EmbeddingCache ----------------------------
(***************************************************************************)
(* RequestEmbeddingCacheService: the embedding of a request's text from    *)
(* the LRU map of the process (L1), from Redis (L2), or from the model,    *)
(* which is slow and must run once for a text however many requests ask.   *)
(*                                                                         *)
(* A call of resolve waits for the model; a call of                        *)
(* resolveCachedOrSchedule answers "pending" and leaves the generation to  *)
(* a background task.  Node runs one continuation at a time, so what lies  *)
(* between two awaits is one action.  Every other server reads and writes  *)
(* Redis too, and a TTL runs there: a lookup may hit or miss at any time.  *)
(***************************************************************************)
EXTENDS Naturals, Sequences, FiniteSets

CONSTANTS
    Keys,      \* cache keys: texts under the model version
    Calls,     \* calls of the service; a call that starts a flight names it
    None,
    L1Max,     \* RTB_EMBEDDING_L1_MAX_SIZE
    MaxActive, \* RTB_EMBEDDING_BACKGROUND_MAX_CONCURRENCY
    MaxQueue   \* RTB_EMBEDDING_BACKGROUND_MAX_QUEUE_SIZE

ASSUME CacheAssumption ==
    /\ None \notin Calls
    /\ {L1Max, MaxActive, MaxQueue} \subseteq Nat \ {0}

VARIABLES
    l1,       \* the keys of the map, in insertion order
    l2Enabled, \* RTB_EMBEDDING_L2_ENABLED: is Redis asked
    inFlight, \* the flight of a key, or None
    flight,   \* the flight a call started: where it is
    active,   \* backgroundActive
    queue,    \* backgroundQueue
    call      \* what each call waits for, and its answer

vars == <<l1, l2Enabled, inFlight, flight, active, queue, call>>

-----------------------------------------------------------------------------
NoFlight == [at |-> "none"]

Stages == {"lookup", "queued", "generate", "write", "ended"}
Kinds  == {"waited", "background"}

Flights == [at : Stages, key : Keys, kind : Kinds]

\* Answers: an embedding, "pending", or an error of the model.
Answered == {"ready", "pending", "error"}

NewCall == [at |-> "new"]

TypeOK ==
    /\ l1 \in Seq(Keys)
    /\ l2Enabled \in BOOLEAN
    /\ inFlight \in [Keys -> Calls \union {None}]
    /\ flight \in [Calls -> Flights \union {NoFlight}]
    /\ active \in Nat
    /\ queue \in Seq(Calls)
    /\ call \in [Calls -> {NewCall} \union [at : {"probing"} \union Answered, key : Keys]
                                    \union [at : {"waiting"}, key : Keys, on : Calls]]

Init ==
    /\ l1 = <<>>
    /\ l2Enabled \in BOOLEAN
    /\ inFlight = [k \in Keys |-> None]
    /\ flight = [f \in Calls |-> NoFlight]
    /\ active = 0
    /\ queue = <<>>
    /\ call = [r \in Calls |-> NewCall]

-----------------------------------------------------------------------------
(***************************************************************************)
(* The LRU map.  A Map keeps its keys in insertion order, and a key is     *)
(* deleted and inserted again whenever it is read or written.              *)
(***************************************************************************)
InL1(k) == \E i \in DOMAIN l1 : l1[i] = k

MovedToEnd(s, k) == Append(SelectSeq(s, LAMBDA j : j # k), k)

\* while (size > max) delete the first key
Evicted(s) == IF Len(s) <= L1Max THEN s ELSE SubSeq(s, Len(s) - L1Max + 1, Len(s))

GetFromL1(k) == InL1(k) /\ l1' = MovedToEnd(l1, k)

SetL1(k) == l1' = Evicted(MovedToEnd(l1, k))

-----------------------------------------------------------------------------
(***************************************************************************)
(* Flights.                                                                *)
(***************************************************************************)
Goto(f, stage) == flight' = [flight EXCEPT ![f].at = stage]

Launched(f, k, kind, stage) ==
    flight' = [flight EXCEPT ![f] = [at |-> stage, key |-> k, kind |-> kind]]

Become(r, answer, k) == call' = [call EXCEPT ![r] = [at |-> answer, key |-> k]]

\* Everybody who waits for a flight gets its result.
Deliver(f, answer) ==
    call' = [r \in Calls |->
               IF call[r].at = "waiting" /\ call[r].on = f
               THEN [at |-> answer, key |-> flight[f].key] ELSE call[r]]

(***************************************************************************)
(* A background task gives its slot back, and queued tasks start while     *)
(* there are slots.                                                        *)
(***************************************************************************)
Started == LET free == MaxActive - (active - 1)
           IN  IF free <= Len(queue) THEN free ELSE Len(queue)

\* Mutant: the slot is given back and the queue is not looked at.
EndBackgroundOnly(f) ==
    /\ active' = active - 1
    /\ Goto(f, "ended")
    /\ UNCHANGED queue

EndBackground(f) ==
    /\ active' = active - 1 + Started
    /\ queue' = SubSeq(queue, Started + 1, Len(queue))
    /\ flight' = [g \in Calls |->
                    IF g = f THEN [flight[f] EXCEPT !.at = "ended"]
                    ELSE IF \E i \in 1..Started : queue[i] = g
                         THEN [flight[g] EXCEPT !.at = "generate"] ELSE flight[g]]

EndWaited(f) ==
    /\ Goto(f, "ended")
    /\ UNCHANGED <<active, queue>>

(***************************************************************************)
(* The promise settles: the waiters continue, and the flight leaves the    *)
(* map.  resolve deletes the key, a background flight only its own entry.  *)
(***************************************************************************)
Land(f, answer) ==
    LET k == flight[f].key
    IN  /\ IF flight[f].kind = "background" THEN EndBackground(f) ELSE EndWaited(f)
        /\ inFlight' = IF flight[f].kind = "waited" \/ inFlight[k] = f
                       THEN [inFlight EXCEPT ![k] = None] ELSE inFlight
        /\ Deliver(f, answer)

-----------------------------------------------------------------------------
\* resolve, up to its first await
Resolve(r, k) ==
    /\ call[r] = NewCall
    /\ \/ /\ GetFromL1(k)
          /\ Become(r, "ready", k)
          /\ UNCHANGED <<inFlight, flight>>
       \/ /\ ~InL1(k) /\ inFlight[k] # None
          /\ call' = [call EXCEPT ![r] = [at |-> "waiting", key |-> k, on |-> inFlight[k]]]
          /\ UNCHANGED <<l1, inFlight, flight>>
       \/ /\ ~InL1(k) /\ inFlight[k] = None
          /\ inFlight' = [inFlight EXCEPT ![k] = r]
          /\ Launched(r, k, "waited", IF l2Enabled THEN "lookup" ELSE "generate")
          /\ call' = [call EXCEPT ![r] = [at |-> "waiting", key |-> k, on |-> r]]
          /\ UNCHANGED l1
    /\ UNCHANGED <<l2Enabled, active, queue>>

\* Mutant: the map is asked before the lookup only.
ScheduleUnchecked(r, k) ==
    /\ \/ /\ active < MaxActive
          /\ Launched(r, k, "background", "generate")
          /\ active' = active + 1
          /\ UNCHANGED queue
       \/ /\ active >= MaxActive /\ Len(queue) < MaxQueue
          /\ Launched(r, k, "background", "queued")
          /\ queue' = Append(queue, r)
          /\ UNCHANGED active
    /\ inFlight' = [inFlight EXCEPT ![k] = r]

\* Mutant: the bound of the queue is tested after the task was pushed.
ScheduleOneMore(r, k) ==
    \/ /\ inFlight[k] # None \/ (active >= MaxActive /\ Len(queue) > MaxQueue)
       /\ UNCHANGED <<inFlight, flight, active, queue>>
    \/ /\ inFlight[k] = None
       /\ \/ /\ active < MaxActive
             /\ Launched(r, k, "background", "generate")
             /\ active' = active + 1
             /\ UNCHANGED queue
          \/ /\ active >= MaxActive /\ Len(queue) <= MaxQueue
             /\ Launched(r, k, "background", "queued")
             /\ queue' = Append(queue, r)
             /\ UNCHANGED active
       /\ inFlight' = [inFlight EXCEPT ![k] = r]

(***************************************************************************)
(* startBackgroundGeneration: somebody else may have started a flight      *)
(* during the lookup; a full queue drops the task.                         *)
(***************************************************************************)
Schedule(r, k) ==
    \/ /\ inFlight[k] # None \/ (active >= MaxActive /\ Len(queue) >= MaxQueue)
       /\ UNCHANGED <<inFlight, flight, active, queue>>
    \/ /\ inFlight[k] = None
       /\ \/ /\ active < MaxActive
             /\ Launched(r, k, "background", "generate")
             /\ active' = active + 1
             /\ UNCHANGED queue
          \/ /\ active >= MaxActive /\ Len(queue) < MaxQueue
             /\ Launched(r, k, "background", "queued")
             /\ queue' = Append(queue, r)
             /\ UNCHANGED active
       /\ inFlight' = [inFlight EXCEPT ![k] = r]

\* resolveCachedOrSchedule, up to its first await
Probe(r, k) ==
    /\ call[r] = NewCall
    /\ \/ /\ GetFromL1(k)
          /\ Become(r, "ready", k)
          /\ UNCHANGED <<inFlight, flight, active, queue>>
       \/ /\ ~InL1(k) /\ inFlight[k] # None
          /\ Become(r, "pending", k)
          /\ UNCHANGED <<l1, inFlight, flight, active, queue>>
       \/ /\ ~InL1(k) /\ inFlight[k] = None /\ l2Enabled
          /\ Become(r, "probing", k)
          /\ UNCHANGED <<l1, inFlight, flight, active, queue>>
       \/ /\ ~InL1(k) /\ inFlight[k] = None /\ ~l2Enabled
          /\ Schedule(r, k)
          /\ Become(r, "pending", k)
          /\ UNCHANGED l1
    /\ UNCHANGED l2Enabled

\* The lookup of a probe ends: a hit, or a miss, a timeout or an error.
ProbeLookup(r) ==
    LET k == call[r].key
    IN  /\ call[r].at = "probing"
        /\ \/ /\ SetL1(k)
              /\ Become(r, "ready", k)
              /\ UNCHANGED <<inFlight, flight, active, queue>>
           \/ /\ Schedule(r, k)
              /\ Become(r, "pending", k)
              /\ UNCHANGED l1
        /\ UNCHANGED l2Enabled

\* The lookup of a flight ends (loadOrGenerate).
FlightLookup(f) ==
    /\ flight[f].at = "lookup"
    /\ \/ /\ SetL1(flight[f].key)
          /\ Land(f, "ready")
       \/ /\ Goto(f, "generate")
          /\ UNCHANGED <<l1, inFlight, active, queue, call>>
    /\ UNCHANGED l2Enabled

\* The model answers, or fails, or what it answers is not an embedding (generateAndStore).
Generate(f) ==
    /\ flight[f].at = "generate"
    /\ \/ /\ Land(f, "error")
          /\ UNCHANGED l1
       \/ /\ SetL1(flight[f].key)
          /\ IF l2Enabled
             THEN Goto(f, "write") /\ UNCHANGED <<inFlight, active, queue, call>>
             ELSE Land(f, "ready")
    /\ UNCHANGED l2Enabled

\* setL2WithBudget: written, or given up.
WriteL2(f) ==
    /\ flight[f].at = "write"
    /\ Land(f, "ready")
    /\ UNCHANGED <<l1, l2Enabled>>

Proceed(r) == ProbeLookup(r) \/ FlightLookup(r) \/ Generate(r) \/ WriteL2(r)

Next ==
    \/ \E r \in Calls, k \in Keys : Resolve(r, k) \/ Probe(r, k)
    \/ \E r \in Calls : Proceed(r)

Spec == Init /\ [][Next]_vars

(***************************************************************************)
(* A lookup and a write of L2 end by their budget, and the model answers   *)
(* or fails; nobody is assumed to ask again.                               *)
(***************************************************************************)
FairSpec == Spec /\ \A r \in Calls : WF_vars(Proceed(r))

-----------------------------------------------------------------------------
(***************************************************************************)
(* Properties.                                                             *)
(***************************************************************************)
Live(f) == flight[f].at \in {"lookup", "queued", "generate", "write"}

Running(f) == Live(f) /\ flight[f].kind = "background" /\ flight[f].at # "queued"

(***************************************************************************)
(* However calls of both kinds, lookups and failures overlap, one text is  *)
(* looked up or generated by one flight at a time, and the map of flights  *)
(* never names one that is over: a stale entry would answer "pending" for  *)
(* that text until the process ends, and hand an old failure to every      *)
(* later resolve (request-embedding-cache.service.spec.ts:129, :155, :427).*)
(***************************************************************************)
SingleFlight ==
    /\ \A f, g \in Calls : Live(f) /\ Live(g) /\ flight[f].key = flight[g].key => f = g
    /\ \A k \in Keys : inFlight[k] # None => Live(inFlight[k]) /\ flight[inFlight[k]].key = k

(***************************************************************************)
(* backgroundActive counts the background generations that run; it stays   *)
(* within its limit, the queue within its own, and no task waits while a   *)
(* slot is free (spec.ts:461).                                             *)
(***************************************************************************)
SlotsAreUsed ==
    /\ active = Cardinality({f \in Calls : Running(f)})
    /\ active <= MaxActive
    /\ Len(queue) <= MaxQueue
    /\ queue # <<>> => active = MaxActive

(***************************************************************************)
(* Every call is answered: a flight that waits in the queue gets a slot,   *)
(* and its end reaches all who wait for it.                                *)
(***************************************************************************)
CallsAreAnswered ==
    \A r \in Calls : call[r].at \in {"waiting", "probing"} ~> call[r].at \in Answered
=============================================================================
