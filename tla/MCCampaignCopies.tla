--------------------------- MODULE MCCampaignCopies ---------------------------
(***************************************************************************)
(* One campaign, three texts of which two share a tag, two requests that   *)
(* write.  Every behaviour has one hazard, or the pair of hazards that     *)
(* loses a key.                                                            *)
(***************************************************************************)
EXTENDS CampaignCopies

MCTexts   == 1..3
MCTags    == {"a", "b"}
MCTagOf   == <<"a", "b", "b">>
MCRegimes == {{"overlap"}, {"eager"}, {"refresh"}, {"repair"}, {"boot"}, {"expiry"}, {"expiry", "refresh"},
              {"error"}, {"failure"}, {"disabled"}}

\* An embedding job may start while the edit that asked for it goes on.
MCEager   == {{"eager"}}

=============================================================================
