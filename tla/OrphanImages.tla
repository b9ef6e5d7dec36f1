------------------------------ MODULE OrphanImages ------------------------------
(***************************************************************************)
(* Images of campaigns: an owner uploads one and then creates or edits a   *)
(* campaign with it; the nightly job lists the images, then reads the      *)
(* campaigns, and deletes one by one the images no campaign uses.          *)
(***************************************************************************)
EXTENDS FiniteSets

CONSTANTS
    Images,  \* what owners upload, each with a name of its own
    Rows,    \* campaigns
    NoImage,
    Paces    \* subset of BOOLEAN: may the job start between an upload and its use?

VARIABLES
    stored,   \* images in the bucket
    draft,    \* uploaded for a form that has not been sent
    imageOf,  \* the image of each campaign
    cleanup,  \* the job: what it has listed, what it saw in use
    slow

imageVars == <<stored, draft, imageOf, cleanup, slow>>

-----------------------------------------------------------------------------
NoCleanup == [at |-> "idle", listed |-> {}, used |-> {}]

ImageInit ==
    /\ stored = {} /\ draft = {} /\ imageOf = [r \in Rows |-> NoImage]
    /\ cleanup = NoCleanup /\ slow \in Paces

InUse == {imageOf[r] : r \in Rows} \ {NoImage}

UploadImage(i) ==
    /\ i \notin stored /\ i \notin draft /\ i \notin InUse
    /\ stored' = stored \union {i} /\ draft' = draft \union {i}
    /\ UNCHANGED <<imageOf, cleanup, slow>>

\* Nothing looks whether the image is there.
UseImage(r, i) ==
    /\ i \in draft /\ draft' = draft \ {i}
    /\ imageOf' = [imageOf EXCEPT ![r] = i]
    /\ UNCHANGED <<stored, cleanup, slow>>

AbandonForm(i) ==
    /\ i \in draft /\ draft' = draft \ {i}
    /\ UNCHANGED <<stored, imageOf, cleanup, slow>>

\* One page of the bucket.
ListImages ==
    /\ cleanup.at = "idle"
    /\ slow \/ draft = {}
    /\ \E page \in SUBSET stored : cleanup' = [cleanup EXCEPT !.at = "campaigns", !.listed = page]
    /\ UNCHANGED <<stored, draft, imageOf, slow>>

ListAgain ==
    /\ cleanup.at = "campaigns"
    /\ \E page \in SUBSET stored :
         cleanup' = [at |-> "delete", listed |-> page, used |-> InUse \intersect cleanup.listed]
    /\ UNCHANGED <<stored, draft, imageOf, slow>>

ReadCampaigns ==
    /\ cleanup.at = "campaigns"
    /\ cleanup' = [cleanup EXCEPT !.at = "delete", !.used = InUse]
    /\ UNCHANGED <<stored, draft, imageOf, slow>>

\* An image that cannot be deleted is left for the next night.
DeleteImage(i) ==
    /\ cleanup.at = "delete" /\ i \in cleanup.listed
    /\ cleanup' = [cleanup EXCEPT !.listed = @ \ {i}]
    /\ stored' \in IF i \in cleanup.used THEN {stored} ELSE {stored, stored \ {i}}
    /\ UNCHANGED <<draft, imageOf, slow>>

EndCleanup ==
    /\ cleanup.at = "delete" /\ cleanup.listed = {}
    /\ cleanup' = NoCleanup
    /\ UNCHANGED <<stored, draft, imageOf, slow>>

ImageNext ==
    \/ \E i \in Images : UploadImage(i) \/ AbandonForm(i) \/ DeleteImage(i) \/ \E r \in Rows : UseImage(r, i)
    \/ ListImages \/ ReadCampaigns \/ EndCleanup

ImageSpec == ImageInit /\ [][ImageNext]_imageVars

-----------------------------------------------------------------------------
(***************************************************************************)
(* The image of a campaign is never deleted, also if it was uploaded and   *)
(* put to use while the job was at work.  An upload that waits for its     *)
(* form when the job starts is not safe.                                   *)
(***************************************************************************)
UsedImagesStay == ~slow => InUse \subseteq stored

=============================================================================
