------------------------------- MODULE Matching -------------------------------
(***************************************************************************)
(* One decision from its tags to a ranking of candidates.  Embed, search,  *)
(* load, look up tags, load again: every call waits, and campaigns change  *)
(* in between.  Similarities are thousandths, scores ten-thousandths of a  *)
(* point, and the 1e-9 that keeps a winner ahead is one unit.              *)
(***************************************************************************)
EXTENDS Integers, Sequences, FiniteSets, SequencesExt, FiniteSetsExt

CONSTANTS
    Campaigns,     \* ids, ordered as numbers
    Cpc,           \* maxCpc of each
    FALLBACK_CAMPAIGN_ID,
    Copies,        \* what may be known of a campaign: [there, eligible, tags, document]
    NoVector,      \* a document without embedding
    Tags,
    RequestTags,   \* tags of the request
    TagSimilarity, \* similarity of each tag's embedding to the request's
    DocumentThreshold, TagThreshold,
    TopL, TopM, LexicalTopM, SupplementLimit, FinalLimit,
    HitsPerCampaign,
    Settings,      \* configurations: [ann, hybrid, fast]
    MaxChanges     \* bound: changes of campaigns before and during the decision

ASSUME MatchAssumption ==
    /\ IsFiniteSet(Campaigns) /\ Campaigns \subseteq Int /\ FALLBACK_CAMPAIGN_ID \in Campaigns
    /\ Cpc \in [Campaigns -> Nat]
    /\ NoVector \notin Int /\ IsFiniteSet(Tags)
    /\ Copies \subseteq [there : BOOLEAN, eligible : BOOLEAN, tags : SUBSET Tags, document : Int \union {NoVector}]
    /\ DocumentThreshold \in Int
    /\ TopL \in Nat \ {0} /\ TopM \in Nat \ {0} /\ FinalLimit \in Nat \ {0}
    /\ LexicalTopM \in Nat /\ SupplementLimit \in Nat
    /\ Settings \subseteq [ann : {"off", "tags", "documents"}, hybrid : BOOLEAN, fast : BOOLEAN]

VARIABLES
    served,    \* what the snapshot or Redis answers about each campaign
    indexed,   \* what the vector index knows of it
    setting,
    request,   \* how far the decision is and what it has found
    ranking,   \* rankCandidates
    stopped,   \* history: campaigns that were not eligible at any time of the decision
    changes

matchVars == <<served, indexed, setting, request, ranking, stopped, changes>>

-----------------------------------------------------------------------------
Hit(c, sim) == [id |-> c, sim |-> sim]

\* The vector index takes campaigns that are ACTIVE, in their period and of the right intent.
Searchable(c) == indexed[c].there /\ indexed[c].eligible /\ indexed[c].document # NoVector

\* filterEligibleCampaigns on what was loaded.
Eligible(c) == served[c].there /\ served[c].eligible

Leading(s, n) == SubSeq(s, 1, Min({n, Len(s)}))

\* All of S, none later than one it goes before; and what passes a test, in order.
Sorted(S, Before(_, _)) ==
    CHOOSE s \in SetToSeqs(S) : \A i, j \in DOMAIN s : i < j => ~Before(s[j], s[i])

Ascending(S) == Sorted(S, <)

Selected(s, Test(_)) ==
    LET at == Ascending({i \in DOMAIN s : Test(s[i])})
    IN  [k \in DOMAIN at |-> s[at[k]]]

Ids(s) == {s[i].id : i \in DOMAIN s}

\* buildCandidate: 30 % CPC, 70 % similarity.
Score(c, sim) == 3000 * Cpc[c] + 700 * sim

Candidate(c, sim) == [id |-> c, sim |-> sim, score |-> Score(c, sim), dense |-> TRUE]

Fresh == [at |-> "start", hits |-> <<>>, primary |-> <<>>, fused |-> <<>>, searched |-> FALSE,
          path |-> "none", result |-> <<>>]

\* The index may be one change behind when the decision begins.
MatchInit ==
    /\ served \in [Campaigns -> Copies]
    /\ \/ changes = 0 /\ indexed = served
       \/ changes = 1 /\ \E c \in Campaigns : \E old \in Copies \ {served[c]} : indexed = [served EXCEPT ![c] = old]
    /\ setting \in Settings
    /\ request = Fresh
    /\ ranking = <<>>
    /\ stopped = {c \in Campaigns : ~served[c].eligible}

Matched(path, candidates) ==
    request' = [request EXCEPT !.at = "matched", !.path = path, !.result = candidates]

Unchanging == UNCHANGED <<served, indexed, setting, ranking, stopped, changes>>

-----------------------------------------------------------------------------
(***************************************************************************)
(* The request's embedding.                                                *)
(***************************************************************************)
ModelNotReady ==
    /\ request.at = "start"
    /\ IF setting.fast THEN request' = [request EXCEPT !.at = "lexical"] ELSE Matched("empty", <<>>)
    /\ Unchanging

\* The context, the cache or the model gives a vector.
HaveEmbedding ==
    /\ request.at = "start"
    /\ request' = [request EXCEPT !.at = IF setting.ann = "off" THEN "all" ELSE setting.ann]
    /\ Unchanging

\* The context is not READY, or the cache has no vector yet.
EmbeddingPending ==
    /\ request.at = "start" /\ setting.fast
    /\ request' = [request EXCEPT !.at = "lexical"]
    /\ Unchanging

-----------------------------------------------------------------------------
(***************************************************************************)
(* Tags as words.                                                          *)
(***************************************************************************)
Matches(c) == Cardinality(served[c].tags \intersect RequestTags)

\* Coverage has the same order as the number of matches: both count them.
LexicalOrder(c, d) ==
    \/ Matches(c) > Matches(d)
    \/ Matches(c) = Matches(d) /\ Cpc[c] > Cpc[d]
    \/ Matches(c) = Matches(d) /\ Cpc[c] = Cpc[d] /\ c < d

Coverage(c) == (1000 * Matches(c)) \div Cardinality(RequestTags)

TaggedCampaigns ==
    Leading(Sorted({c \in Campaigns : Eligible(c) /\ Matches(c) > 0}, LexicalOrder), LexicalTopM)

LexicalCandidate(c) ==
    [Candidate(c, Coverage(c)) EXCEPT !.score = 1000000 * Matches(c) + 100 * Coverage(c)]

FindCandidatesByLexicalFallback ==
    /\ request.at = "lexical"
    /\ Matched("lexical", [i \in DOMAIN TaggedCampaigns |-> LexicalCandidate(TaggedCampaigns[i])])
    /\ Unchanging

-----------------------------------------------------------------------------
(***************************************************************************)
(* Vectors of tags.                                                        *)
(***************************************************************************)
Weights == <<5, 3, 2>>

\* The weighted mean of the best three.
TopWeighted(sims) ==
    LET k == Min({3, Len(sims)})
    IN  IF k = 0 THEN 0
        ELSE FoldFunction(+, 0, [i \in 1..k |-> Weights[i] * sims[i]]) \div FoldFunction(+, 0, [i \in 1..k |-> Weights[i]])

\* The similarities of a set of tags, best first.
Similarities(tags) ==
    LET seq == Sorted(tags, LAMBDA s, t : TagSimilarity[s] > TagSimilarity[t])
    IN  [i \in DOMAIN seq |-> TagSimilarity[seq[i]]]

ScoreCampaignByTags(c) ==
    LET sims     == Similarities(served[c].tags)
        covered  == Min({1000, 500 * Cardinality({i \in DOMAIN sims : sims[i] >= 450})})
        exact    == IF Matches(c) > 0 THEN 1000 ELSE 0
    IN  IF sims = <<>> THEN 0 ELSE (70 * TopWeighted(sims) + 25 * covered + 5 * exact) \div 100

\* The best of a campaign's tags among the hits of the search.
RetrievalScore(tags) ==
    LET best == Leading(Similarities(tags), HitsPerCampaign)
    IN  (85 * TopWeighted(best) + (15 * 1000 * Len(best)) \div HitsPerCampaign) \div 100

\* Campaigns with an embedding of each tag; without, nothing can be compared.
HasTagEmbeddings(c) == served[c].document # NoVector /\ served[c].tags # {}

ScoreEligibleCampaigns(campaigns) ==
    LET scored == {c \in campaigns : Eligible(c) /\ HasTagEmbeddings(c) /\ ScoreCampaignByTags(c) >= TagThreshold}
        seq    == SetToSeq(scored)
    IN  [i \in DOMAIN seq |-> Candidate(seq[i], ScoreCampaignByTags(seq[i]))]

ScoreAllCampaigns ==
    /\ request.at = "all"
    /\ Matched("tags", ScoreEligibleCampaigns(Campaigns))
    /\ Unchanging

\* Campaigns of the same score come in the order of the index.
SearchTags ==
    /\ request.at = "tags"
    /\ \E ranked \in SetToSeqs({c \in Campaigns : Searchable(c) /\ indexed[c].tags # {}}) :
         LET hits == Leading(ranked, TopM)
         IN  /\ \A i, j \in DOMAIN ranked : i < j =>
                  RetrievalScore(indexed[ranked[i]].tags) >= RetrievalScore(indexed[ranked[j]].tags)
             /\ IF hits = <<>> THEN Matched("empty", <<>>)
                ELSE request' = [request EXCEPT !.at = "scoreTags",
                                 !.hits = [i \in DOMAIN hits |-> Hit(hits[i], 0)]]
    /\ Unchanging

ScoreTags ==
    /\ request.at = "scoreTags"
    /\ Matched("tags", ScoreEligibleCampaigns(Ids(request.hits)))
    /\ Unchanging

-----------------------------------------------------------------------------
(***************************************************************************)
(* Vectors of documents.                                                   *)
(***************************************************************************)
Nearer(c, d) ==
    \/ indexed[c].document > indexed[d].document
    \/ indexed[c].document = indexed[d].document /\ c < d

DocumentHits ==
    LET ranked == Leading(Sorted({c \in Campaigns : Searchable(c)}, Nearer), TopL)
    IN  [i \in DOMAIN ranked |-> Hit(ranked[i], indexed[ranked[i]].document)]

Retain(hit) == hit.sim >= DocumentThreshold

\* An index that answers nothing is taken to be not ready; an error answers nothing, too.
SearchDocuments ==
    LET hits == Leading(Selected(DocumentHits, Retain), TopM)
    IN  /\ request.at = "documents"
        /\ request' = [request EXCEPT !.searched = TRUE, !.hits = hits,
               !.at = IF DocumentHits = <<>> THEN "lexical" ELSE IF hits = <<>> THEN "matched" ELSE "load"]
        /\ Unchanging

SearchFails ==
    /\ request.at = "documents"
    /\ request' = [request EXCEPT !.at = "lexical"]
    /\ Unchanging

LoadAnyway ==
    LET primary == [i \in DOMAIN request.hits |-> Candidate(request.hits[i].id, request.hits[i].sim)]
    IN  /\ request.at = "load"
        /\ IF primary = <<>> THEN Matched("empty", <<>>)
           ELSE IF setting.hybrid THEN request' = [request EXCEPT !.at = "sparse", !.primary = primary]
           ELSE Matched("dense", primary)
        /\ Unchanging

LoadCampaigns ==
    LET kept    == Selected(request.hits, LAMBDA hit : Eligible(hit.id))
        primary == [i \in DOMAIN kept |-> Candidate(kept[i].id, kept[i].sim)]
    IN  /\ request.at = "load"
        /\ IF primary = <<>> THEN Matched("empty", <<>>)
           ELSE IF setting.hybrid THEN request' = [request EXCEPT !.at = "sparse", !.primary = primary]
           ELSE Matched("dense", primary)
        /\ Unchanging

-----------------------------------------------------------------------------
(***************************************************************************)
(* Hybrid retrieval: both rankings are fused by rank, and the campaigns    *)
(* found by tag only supplement those found by vector.                     *)
(***************************************************************************)
RankOf(c, s) == IF c \in Ids(s) THEN CHOOSE i \in DOMAIN s : s[i].id = c ELSE 0

\* The default weights 1 and 0.2 over 60 plus the rank, in millionths of a point.
DenseShare(rank)  == IF rank = 0 THEN 0 ELSE 100000000 \div (60 + rank)
SparseShare(rank) == IF rank = 0 THEN 0 ELSE 20000000 \div (60 + rank)

SourceCount(item) == Cardinality({r \in {"dense", "sparse"} : item[r] > 0})
BestRank(item)    == Min({item[r] : r \in {"dense", "sparse"}} \ {0})

FusionOrder(x, y) ==
    \/ x.share > y.share
    \/ x.share = y.share /\ SourceCount(x) > SourceCount(y)
    \/ x.share = y.share /\ SourceCount(x) = SourceCount(y) /\ BestRank(x) < BestRank(y)
    \/ x.share = y.share /\ SourceCount(x) = SourceCount(y) /\ BestRank(x) = BestRank(y) /\ x.id < y.id

FuseHybridRankings(dense, sparse) ==
    Sorted({[id |-> c, dense |-> RankOf(c, dense), sparse |-> RankOf(c, sparse),
                   share |-> DenseShare(RankOf(c, dense)) + SparseShare(RankOf(c, sparse))]
                  : c \in Ids(dense) \union Ids(sparse)}, FusionOrder)

RankSparse ==
    LET tagged == [i \in DOMAIN TaggedCampaigns |-> Hit(TaggedCampaigns[i], Coverage(TaggedCampaigns[i]))]
    IN  /\ request.at = "sparse"
        /\ request' = [request EXCEPT !.at = "rerank", !.fused = FuseHybridRankings(request.hits, tagged)]
        /\ Unchanging

Pool ==
    LET dense       == Selected(request.fused, LAMBDA item : item.dense > 0)
        supplements == Selected(request.fused, LAMBDA item : item.dense = 0)
    IN  dense \o Leading(supplements, SupplementLimit)

\* The exact similarity, and the tie-break bonus of the tags.
Exact(item) ==
    [Candidate(item.id, served[item.id].document) EXCEPT !.dense = item.dense > 0, !.score = @ + SparseShare(item.sparse) \div 100]

ExactReranked ==
    {Exact(item) : item \in {i \in ToSet(Pool) :
        Eligible(i.id) /\ served[i.id].document # NoVector /\ served[i.id].document >= DocumentThreshold}}

BestOf(candidates) == Max({x.score : x \in candidates})

DenseOf(candidates) == {x \in candidates : x.dense}

\* Campaigns found by tag only stay behind the best one found by vector.
Held(candidates) ==
    {IF ~x.dense /\ x.score >= BestOf(DenseOf(candidates))
     THEN [x EXCEPT !.score = BestOf(DenseOf(candidates)) - 1] ELSE x : x \in candidates}

CandidateOrder(x, y) ==
    \/ x.score > y.score
    \/ x.score = y.score /\ Cpc[x.id] > Cpc[y.id]
    \/ x.score = y.score /\ Cpc[x.id] = Cpc[y.id] /\ x.id < y.id

DenseWinner == CHOOSE x \in ToSet(request.primary) : \A y \in ToSet(request.primary) \ {x} : CandidateOrder(x, y)

LockNothing(candidates) == candidates

\* The winner among those found by vector stays the winner.
LockWinner(candidates) ==
    LET others == {x \in candidates : x.id # DenseWinner.id}
    IN  {IF x.id = DenseWinner.id /\ others # {} /\ x.score <= BestOf(others)
         THEN [x EXCEPT !.score = BestOf(others) + 1] ELSE x : x \in candidates}

RerankOrder(x, y) ==
    \/ x.score > y.score
    \/ x.score = y.score /\ x.sim > y.sim
    \/ x.score = y.score /\ x.sim = y.sim /\ Cpc[x.id] > Cpc[y.id]
    \/ x.score = y.score /\ x.sim = y.sim /\ Cpc[x.id] = Cpc[y.id] /\ x.id < y.id

Rerank ==
    /\ request.at = "rerank"
    /\ IF DenseOf(ExactReranked) = {} THEN Matched("primary", Leading(request.primary, FinalLimit))
       ELSE Matched("hybrid", Leading(Sorted(LockWinner(Held(ExactReranked)), RerankOrder), FinalLimit))
    /\ Unchanging

-----------------------------------------------------------------------------
(***************************************************************************)
(* Without candidates the fallback campaign is the only one, whatever its  *)
(* state: the reserve script looks at that.  The selector sorts what there *)
(* is, ties by chance.                                                     *)
(***************************************************************************)
UseFallback ==
    /\ request.at = "matched" /\ request.result = <<>>
    /\ IF served[FALLBACK_CAMPAIGN_ID].there
       THEN request' = [request EXCEPT !.at = "select", !.path = "fallback",
                        !.result = <<Candidate(FALLBACK_CAMPAIGN_ID, 0)>>]
       ELSE request' = [request EXCEPT !.at = "error"]
    /\ Unchanging

MatchedSome ==
    /\ request.at = "matched" /\ request.result # <<>>
    /\ request' = [request EXCEPT !.at = "select"]
    /\ Unchanging

\* x comes no later than y.
NoWorse(x, y) ==
    \/ x.score > y.score
    \/ x.score = y.score /\ Cpc[x.id] >= Cpc[y.id]

RankCandidates ==
    /\ request.at = "select"
    /\ \E order \in SetToSeqs(ToSet(request.result)) :
         /\ \A i, j \in DOMAIN order : i < j => NoWorse(order[i], order[j])
         /\ ranking' = order
    /\ request' = [request EXCEPT !.at = "ranked"]
    /\ UNCHANGED <<served, indexed, setting, stopped, changes>>

\* A campaign changes, or the index takes notice; the decision has begun and goes on.
ChangeCampaign(c, copy) ==
    /\ changes < MaxChanges /\ changes' = changes + 1
    /\ request.at \notin {"ranked", "error"}
    /\ copy # served[c]
    /\ served' = [served EXCEPT ![c] = copy]
    /\ stopped' = IF copy.eligible THEN stopped \ {c} ELSE stopped
    /\ UNCHANGED <<indexed, setting, request, ranking>>

Reindex(c) ==
    /\ request.at \notin {"ranked", "error"}
    /\ indexed[c] # served[c]
    /\ indexed' = [indexed EXCEPT ![c] = served[c]]
    /\ UNCHANGED <<served, setting, request, ranking, stopped, changes>>

MatchNext ==
    \/ ModelNotReady \/ HaveEmbedding \/ EmbeddingPending
    \/ FindCandidatesByLexicalFallback
    \/ ScoreAllCampaigns \/ SearchTags \/ ScoreTags
    \/ SearchDocuments \/ SearchFails \/ LoadCampaigns
    \/ RankSparse \/ Rerank
    \/ UseFallback \/ MatchedSome \/ RankCandidates
    \/ \E c \in Campaigns : Reindex(c) \/ \E copy \in Copies : ChangeCampaign(c, copy)

MatchSpec == MatchInit /\ [][MatchNext]_matchVars

-----------------------------------------------------------------------------
Ranked == request.at = "ranked"
Still  == changes = 0

(***************************************************************************)
(* Hybrid retrieval changes the places after the first.  A campaign found  *)
(* by its tags only never wins, whatever it pays and whatever changes      *)
(* meanwhile; and as long as nothing changes, the winner is the one        *)
(* vectors alone would have chosen, and the others found by vector stay in *)
(* the ranking up to its limit.                                            *)
(***************************************************************************)
HybridKeepsWinner ==
    Ranked /\ request.path = "hybrid" =>
        /\ ranking[1].dense
        /\ Still => /\ ranking[1].id = DenseWinner.id
                    /\ Ids(request.primary) \subseteq Ids(ranking) \/ Len(ranking) = FinalLimit

(***************************************************************************)
(* A campaign that was not eligible all the while is no candidate, though  *)
(* the index may not know of it; and the fallback campaign, which is not   *)
(* asked whether it is eligible, is the last resort: not as long as the    *)
(* search for documents worked and a servable campaign is near enough.     *)
(***************************************************************************)
CandidatesAreServable ==
    /\ Ranked /\ request.path # "fallback" => Ids(ranking) \intersect stopped = {}
    /\ Ranked /\ Still /\ request.path = "fallback" /\ request.searched =>
         ~\E c \in Campaigns : Searchable(c) /\ indexed[c].document >= DocumentThreshold

=============================================================================
