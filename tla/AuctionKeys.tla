----------------------------- MODULE AuctionKeys -----------------------------
(***************************************************************************)
(* The life of the auction:{auctionId} keys, as the other parts of the     *)
(* server see it: a reservation ends in exactly one of COMMITTED and       *)
(* RELEASED, the terminal marker stays for MarkerTtl, and then the key is  *)
(* gone.  AuctionLedger implements it; ClickFlow is built on it.           *)
(***************************************************************************)
EXTENDS Naturals

CONSTANTS Auctions,   \* auction ids
          MarkerTtl,  \* auctionTerminalTtlSeconds
          MaxClock    \* bound: the clock stops here

VARIABLES clock,  \* now
          key     \* auction:{auctionId}

keyVars == <<clock, key>>

Missing == [status |-> "missing"]

Reserved(expiresAt) == [status |-> "RESERVED", expiresAt |-> expiresAt]

Ended(status) == [status |-> status, ttlEnd |-> clock + MarkerTtl]

KeyInit ==
    /\ clock = 0
    /\ key = [a \in Auctions |-> Missing]

Win(a, expiresAt) ==
    /\ key[a] = Missing
    /\ key' = [key EXCEPT ![a] = Reserved(expiresAt)]

End(a, status) ==
    /\ key[a].status = "RESERVED"
    /\ key' = [key EXCEPT ![a] = Ended(status)]

\* Redis drops the markers whose TTL is over.
Elapse ==
    /\ clock < MaxClock
    /\ clock' = clock + 1
    /\ key' = [a \in Auctions |->
                 IF key[a].status \in {"COMMITTED", "RELEASED"} /\ key[a].ttlEnd <= clock + 1
                 THEN Missing ELSE key[a]]

KeyNext ==
    \/ \E a \in Auctions :
          /\ \/ key'[a].status = "RESERVED" /\ Win(a, key'[a].expiresAt)
             \/ End(a, "COMMITTED")
             \/ End(a, "RELEASED")
          /\ UNCHANGED clock
    \/ Elapse

KeySpec == KeyInit /\ [][KeyNext]_keyVars
=============================================================================
