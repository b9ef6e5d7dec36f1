---------------------------- MODULE MCClickCrashes ----------------------------
(***************************************************************************)
(* ClickFlow with handlers that run to their end (the configuration) and,  *)
(* in other behaviours, with handlers that may stop for good.              *)
(***************************************************************************)
EXTENDS MCClickFlow

VARIABLE crashes

Mortal == INSTANCE ClickFlow WITH MayCrash <- TRUE

all == <<crashes, vars>>

MCInit == \/ crashes = FALSE /\ Init
          \/ crashes = TRUE /\ Mortal!Init

MCNext == \/ crashes = FALSE /\ Next /\ UNCHANGED crashes
          \/ crashes = TRUE /\ Mortal!Next /\ UNCHANGED crashes

MCSpec ==
    /\ MCInit /\ [][MCNext]_all
    /\ \A q \in Clickers : WF_all(~crashes /\ ClickStep(q) /\ UNCHANGED crashes)
    /\ \A i \in 1..MaxClicks : WF_all(~crashes /\ FollowUp(i) /\ UNCHANGED crashes)

(***************************************************************************)
(* As long as no handler dies, what was billed reaches the log, with TTLs  *)
(* that deduplicate.                                                       *)
(***************************************************************************)
BilledReachesLog == \A a \in Auctions : ~crashes /\ a \in billed ~> IsLogged(a)
=============================================================================
