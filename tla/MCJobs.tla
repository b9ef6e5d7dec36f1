------------------------------- MODULE MCJobs -------------------------------
(***************************************************************************)
(* Three components whose work is done by tasks and jobs, each by itself:  *)
(* a behaviour is one of EmbeddingCache, of ContextEmbedding or of         *)
(* BidLogPipeline, and the other two stand still.                          *)
(***************************************************************************)
EXTENDS EmbeddingCache, ContextEmbedding, BidLogPipeline

CONSTANTS k1, k2, k3, r1, r2, r3, o1, o2, p, q

VARIABLE which

all == <<which, vars, contextVars, bidVars>>

MCDangers ==
    {{}, {"fail"}, {"lost"}, {"fail", "lost"}, {"crash", "fail"}, {"late", "fail"}, {"quick", "fail"}, {"quick", "lost"}}

\* p bids in the first auction, q in both.
MCCandidates == <<{p, q}, {q}>>
MCUserOf     == [c \in Campaigns |-> IF c = p THEN "u" ELSE "v"]

MCInit ==
    /\ which \in {"cache", "page", "bids"}
    /\ Init /\ (which = "cache" \/ l2Enabled)
    /\ ContextInit /\ (which = "page" \/ danger = {})
    /\ BidInit

Caching  == which = "cache" /\ UNCHANGED <<which, contextVars, bidVars>>
Observed == which = "page"  /\ UNCHANGED <<which, vars, bidVars>>
Logging  == which = "bids"  /\ UNCHANGED <<which, vars, contextVars>>

MCNext == (Caching /\ Next) \/ (Observed /\ ContextNext) \/ (Logging /\ BidNext)

MCSpec ==
    /\ MCInit /\ [][MCNext]_all
    /\ \A r \in Calls : WF_all(Caching /\ Proceed(r))
    /\ WF_all(Observed /\ ObserverStep) /\ WF_all(Observed /\ WorkerStep)
    /\ WF_all(Logging /\ BidJobStep)

=============================================================================
