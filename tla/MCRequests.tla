----------------------------- MODULE MCRequests -----------------------------
(***************************************************************************)
(* Five components that answer requests, each by itself: a behaviour is    *)
(* one of Matching, SdkPage, BlogKeys, OrphanImages or Accounts, and the   *)
(* other four stand still.                                                 *)
(***************************************************************************)
EXTENDS Integers, BlogKeys, OrphanImages, SdkPage, Accounts, Matching

CONSTANTS None, l1, l2, b1, b2, b3, g1

VARIABLE which

Known(tags, vector) == [there |-> TRUE, eligible |-> TRUE, tags |-> tags, document |-> vector]

\* Vectors nearer to the request than each other's bonus, at the threshold, and none at all.
MCCopies ==
    {Known({"t"}, 600), Known({"t", "u"}, 603), Known({"u"}, 604), Known({"u"}, 300), Known({"t"}, None),
     [there |-> TRUE, eligible |-> FALSE, tags |-> {"t"}, document |-> 700],
     [there |-> FALSE, eligible |-> FALSE, tags |-> {}, document |-> None]}

Config(ann, hybrid, fast) == [ann |-> ann, hybrid |-> hybrid, fast |-> fast]

MCSettings ==
    {Config("off", FALSE, FALSE), Config("tags", FALSE, TRUE), Config("documents", FALSE, TRUE),
     Config("documents", TRUE, FALSE)}

MCCpc           == <<100, 100, 120>>
MCTagSimilarity == [t \in {"t", "u"} |-> IF t = "t" THEN 800 ELSE 200]

\* Three zones on the first page, so that one is left over, and one on the second.
MCZonesOf     == << <<1, 2, 3>>, <<4>> >>
MCMaxMetrics  == [seconds |-> 80, copies |-> 1, code |-> 1, links |-> 1]
MCPageRegimes == {{}, {"zones"}, {"early"}, {"late"}, {"navigate"}, {"mutate"}}

\* b1 and b2 want the same domain, and b3 the one that differs by its www.
MCDomainOf == [c \in Creations |-> IF c = b3 THEN "www.x" ELSE "x"]
MCPlain    == [d \in Domains |-> IF d = "www.x" THEN "x" ELSE d]

\* Two people had the same address, one after the other.
MCEmailOf == [p \in People |-> "x"]
MCPlans   == {{<<1, 1>>, <<2, 1>>, <<3, 1>>}, {<<1, 1>>, <<1, 2>>, <<2, 1>>}}

Init ==
    /\ which \in {"match", "page", "blog", "image", "account"}
    /\ \/ which = "match" /\ MatchInit
       \/ /\ which # "match"
          /\ served = [c \in Campaigns |-> Known({"t"}, 600)] /\ changes = 0 /\ setting = Config("off", FALSE, FALSE)
          /\ MatchInit
    /\ PageInit /\ (which = "page" \/ (auto /\ habit = {}))
    /\ BlogInit
    /\ ImageInit /\ (which = "image" \/ slow)
    /\ AccountInit /\ (which = "account" \/ <<1, 2>> \in DOMAIN callback)

Next ==
    \/ which = "match"   /\ MatchNext /\ UNCHANGED <<which, pageVars, blogVars, imageVars, accountVars>>
    \/ which = "page"    /\ PageNext    /\ UNCHANGED <<which, matchVars, blogVars, imageVars, accountVars>>
    \/ which = "blog"    /\ BlogNext      /\ UNCHANGED <<which, matchVars, pageVars, imageVars, accountVars>>
    \/ which = "image"   /\ ImageNext     /\ UNCHANGED <<which, matchVars, pageVars, blogVars, accountVars>>
    \/ which = "account" /\ AccountNext /\ UNCHANGED <<which, matchVars, pageVars, blogVars, imageVars>>

Spec == Init /\ [][Next]_<<which, matchVars, pageVars, blogVars, imageVars, accountVars>>

=============================================================================
