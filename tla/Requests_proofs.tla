---------------------------- MODULE Requests_proofs ----------------------------
(***************************************************************************)
(* Five components of what a page, an owner and a visitor ask for, which   *)
(* do not meet: the guard of the script's requests, the nightly clean-up   *)
(* of images, registration and login, the script in the page, and the      *)
(* ranking of a decision's candidates; each for every number of requests   *)
(* and of what they are about.                                             *)
(***************************************************************************)
EXTENDS Integers, BlogKeys, OrphanImages, SdkPage, Accounts, Matching, FiniteSetTheorems, FunctionTheorems,
        SequenceTheorems, TLAPS

-----------------------------------------------------------------------------
(***************************************************************************)
(* The guard serves who is registered and nobody else.                     *)
(***************************************************************************)

Keys == Creations \union {NoKey}

Asked == [at     : {"idle", "index", "document", "row", "ok", "forbidden", "error"},
          key    : Keys,
          domain : Domains \union {NoKey},
          known  : BOOLEAN]

BlogTypes ==
    /\ blog \subseteq Creations /\ IsFiniteSet(blog)
    /\ creation \in [Creations -> {"idle", "refused", "insert", "failed", "save", "index", "done"}]
    /\ loading \in Seq(Creations)
    /\ guard \in [Guards -> Asked]

(***************************************************************************)
(* Redis never knows a blog that MySQL does not: whoever writes there has  *)
(* seen the row, and a row is never taken away.                            *)
(***************************************************************************)
RowComesFirst ==
    /\ document \subseteq blog
    /\ \A i \in 1..Len(loading) : loading[i] \in blog
    /\ \A c \in Creations : creation[c] \in {"save", "index"} => c \in blog

Honest(g) ==
    /\ guard[g].known => Registered(guard[g].key, guard[g].domain)
    /\ guard[g].at = "ok" => Registered(guard[g].key, guard[g].domain)
    /\ guard[g].at = "forbidden" => ~guard[g].known

OneEach == \A b, c \in blog : DomainOf[b] = DomainOf[c] => b = c

BlogInv == BlogTypes /\ RowComesFirst /\ OneEach /\ \A g \in Guards : Honest(g)

LEMMA BlogInitInv == BlogInit => BlogInv
<1> SUFFICES ASSUME BlogInit
             PROVE  BlogInv
  OBVIOUS
<1>1. NoGuard \in Asked /\ NoGuard.at = "idle" /\ NoGuard.known = FALSE
  BY DEF NoGuard, Asked, Keys
<1>2. blog = {} /\ IsFiniteSet(blog)
  BY FS_EmptySet DEF BlogInit
<1>3. loading \in Seq(Creations) /\ Len(loading) = 0
  BY DEF BlogInit
<1>4. BlogTypes
  BY <1>1, <1>2, <1>3 DEF BlogInit, BlogTypes
<1>5. RowComesFirst /\ OneEach
  BY <1>2, <1>3 DEF BlogInit, RowComesFirst, OneEach
<1>6. \A g \in Guards : Honest(g)
  BY <1>1 DEF BlogInit, Honest
<1> QED
  BY <1>4, <1>5, <1>6 DEF BlogInv

-----------------------------------------------------------------------------
(***************************************************************************)
(* The blogs in some order are all in the order they are loaded in.        *)
(***************************************************************************)
LEMMA LoadsBlogs ==
    ASSUME NEW S, IsFiniteSet(S)
    PROVE  SetToSeq(S) \in Seq(S)
<1>1. Cardinality(S) \in Nat /\ ExistsBijection(1..Cardinality(S), S)
  BY FS_CardinalityType
<1>2. PICK f : f \in Bijection(1..Cardinality(S), S)
  BY <1>1 DEF ExistsBijection
<1>3. f \in [1..Cardinality(S) -> S] /\ IsInjective(f)
  BY <1>2 DEF Bijection, Injection, IsInjective
<1>4. SetToSeq(S) \in [1..Cardinality(S) -> S]
  BY <1>3 DEF SetToSeq
<1> QED
  BY <1>1, <1>4, SeqDef, Zenon

-----------------------------------------------------------------------------
(***************************************************************************)
(* A row more, or what is in Redis, changes nothing for a request that is  *)
(* on its way.                                                             *)
(***************************************************************************)
LEMMA HonestStays ==
    ASSUME NEW g \in Guards, Honest(g), blog \subseteq blog', guard'[g] = guard[g]
    PROVE  Honest(g)'
BY DEF Honest, Registered, SameHost

LEMMA CreationsKeepInv ==
    ASSUME BlogInv, NEW c \in Creations,
           \/ CheckDomain(c) \/ InsertBlog(c) \/ SaveBlog(c) \/ SaveIndex(c) \/ SavingFails(c)
           \/ ExpireBlog(c)
    PROVE  BlogInv'
<1> USE DEF BlogInv
<1>1. ASSUME CheckDomain(c) \/ SaveBlog(c) \/ SaveIndex(c) \/ SavingFails(c) \/ ExpireBlog(c)
      PROVE  BlogInv'
  <2>1. UNCHANGED <<blog, loading, guard>>
    BY <1>1 DEF CheckDomain, SaveBlog, SaveIndex, SavingFails, ExpireBlog
  <2>2. BlogTypes'
    BY <1>1, <2>1 DEF BlogTypes, CheckDomain, SaveBlog, SaveIndex, SavingFails, ExpireBlog, Created
  <2>3. RowComesFirst'
    BY <1>1, <2>1 DEF BlogTypes, RowComesFirst, CheckDomain, SaveBlog, SaveIndex, SavingFails, ExpireBlog, Created
  <2> QED
    BY <2>1, <2>2, <2>3, HonestStays DEF OneEach
<1>2. ASSUME InsertBlog(c)
      PROVE  BlogInv'
  <2>1. blog \subseteq blog' /\ blog' \subseteq blog \union {c}
    BY <1>2 DEF InsertBlog
  <2>2. IsFiniteSet(blog')
    BY <2>1, FS_AddElement, FS_Subset DEF BlogTypes
  <2>3. BlogTypes'
    BY <1>2, <2>1, <2>2 DEF BlogTypes, InsertBlog, Created
  <2>4. RowComesFirst'
    BY <1>2, <2>1 DEF BlogTypes, RowComesFirst, InsertBlog, Created
  <2>5. OneEach'
    BY <1>2 DEF OneEach, InsertBlog
  <2> QED
    BY <1>2, <2>1, <2>3, <2>4, <2>5, HonestStays DEF InsertBlog
<1> QED
  BY <1>1, <1>2

LEMMA LoadingKeepsInv ==
    ASSUME BlogInv, StartLoading \/ LoadBlog \/ LoadingFails
    PROVE  BlogInv'
<1> USE DEF BlogInv
<1>1. UNCHANGED <<blog, creation, guard>>
  BY DEF StartLoading, LoadBlog, LoadingFails
<1>2. ASSUME StartLoading
      PROVE  BlogTypes' /\ RowComesFirst'
  <2>1. loading' \in Seq(blog) /\ blog \subseteq Creations
    BY <1>2, LoadsBlogs DEF StartLoading, BlogTypes
  <2>2. loading' \in Seq(Creations) /\ \A i \in 1..Len(loading') : loading'[i] \in blog
    BY <2>1
  <2> QED
    BY <1>1, <1>2, <2>2 DEF StartLoading, BlogTypes, RowComesFirst
<1>3. ASSUME loading # <<>>
      PROVE  /\ Head(loading) \in blog /\ Tail(loading) \in Seq(Creations)
             /\ \A i \in 1..Len(Tail(loading)) : Tail(loading)[i] \in blog
  BY <1>3 DEF BlogTypes, RowComesFirst
<1>4. ASSUME LoadBlog
      PROVE  BlogTypes' /\ RowComesFirst'
  BY <1>1, <1>3, <1>4 DEF LoadBlog, BlogTypes, RowComesFirst
<1>5. ASSUME LoadingFails
      PROVE  BlogTypes' /\ RowComesFirst'
  BY <1>1, <1>3, <1>5 DEF LoadingFails, BlogTypes, RowComesFirst
<1> QED
  BY <1>1, <1>2, <1>4, <1>5, HonestStays DEF OneEach

-----------------------------------------------------------------------------
LEMMA AnswerMoves ==
    ASSUME BlogTypes, NEW g \in Guards, NEW answer \in {"document", "row", "ok", "forbidden", "error"},
           Answer(g, answer)
    PROVE  /\ guard' \in [Guards -> Asked]
           /\ guard'[g].at = answer
           /\ guard'[g].key = guard[g].key /\ guard'[g].domain = guard[g].domain
           /\ guard'[g].known = guard[g].known
           /\ \A h \in Guards \ {g} : guard'[h] = guard[h]
<1>1. guard'[g] = [guard[g] EXCEPT !.at = answer] /\ guard[g] \in Asked
  BY DEF Answer, BlogTypes
<1>2. guard'[g] \in Asked
  BY <1>1 DEF Asked
<1>3. \A h \in Guards \ {g} : guard'[h] = guard[h]
  BY DEF Answer, BlogTypes
<1>4. guard' \in [Guards -> Asked]
  BY <1>2, <1>3 DEF Answer, BlogTypes
<1> QED
  BY <1>1, <1>3, <1>4 DEF Asked

LEMMA GuardsKeepInv ==
    ASSUME BlogInv, NEW g \in Guards,
           \/ ReadIndex(g) \/ ReadDocument(g) \/ RedisFails(g) \/ ReadRow(g) \/ RowFails(g) \/ AskAgain(g)
           \/ \E key \in Keys, domain \in Domains : Ask(g, key, domain)
    PROVE  BlogInv'
<1> USE DEF BlogInv
<1>1. UNCHANGED <<blog, document, index, creation, loading>>
  BY DEF ReadIndex, ReadDocument, RedisFails, ReadRow, RowFails, AskAgain, Ask
<1>2. RowComesFirst' /\ OneEach'
  BY <1>1 DEF RowComesFirst, OneEach
<1>3. SUFFICES /\ guard' \in [Guards -> Asked]
               /\ \A h \in Guards \ {g} : guard'[h] = guard[h]
               /\ Honest(g)'
  BY <1>1, <1>2, HonestStays DEF BlogTypes
<1>4. CASE ReadIndex(g) \/ RedisFails(g) \/ RowFails(g)
  <2>1. PICK answer \in {"document", "row", "error"} : Answer(g, answer)
    BY <1>4 DEF ReadIndex, RedisFails, RowFails
  <2> QED
    BY <1>1, <2>1, AnswerMoves DEF Honest, Registered, SameHost
<1>5. CASE ReadDocument(g)
  <2>1. PICK answer \in {"row", "ok", "forbidden"} :
           /\ Answer(g, answer)
           /\ answer # "row" => guard[g].key \in document
           /\ answer = "ok" => SameHost(guard[g].key, guard[g].domain)
           /\ answer = "forbidden" => ~SameHost(guard[g].key, guard[g].domain)
    BY <1>5 DEF ReadDocument, AnswerByDomain
  <2> QED
    BY <1>1, <2>1, AnswerMoves DEF Honest, Registered, SameHost, RowComesFirst
<1>6. CASE ReadRow(g)
  <2>1. PICK answer \in {"ok", "forbidden"} :
           /\ Answer(g, answer)
           /\ answer = "ok" => Registered(guard[g].key, guard[g].domain)
           /\ answer = "forbidden" => ~Registered(guard[g].key, guard[g].domain)
    BY <1>6 DEF ReadRow, AnswerByDomain, Registered, SameHost
  <2> QED
    BY <1>1, <2>1, AnswerMoves DEF Honest, Registered, SameHost
<1>7. CASE AskAgain(g)
  <2>1. NoGuard \in Asked /\ NoGuard.at = "idle" /\ NoGuard.known = FALSE
    BY DEF NoGuard, Asked, Keys
  <2> QED
    BY <1>7, <2>1 DEF AskAgain, BlogTypes, Honest
<1>8. CASE \E key \in Keys, domain \in Domains : Ask(g, key, domain)
  <2>1. PICK key \in Keys, domain \in Domains : Ask(g, key, domain)
    BY <1>8
  <2> DEFINE anew == [at |-> "index", key |-> key, domain |-> domain, known |-> Registered(key, domain)]
  <2>2. Registered(key, domain) \in BOOLEAN
    BY DEF Registered, SameHost
  <2>3. anew \in Asked
    BY <2>2 DEF Asked
  <2>4. guard' = [guard EXCEPT ![g] = anew]
    BY <2>1 DEF Ask
  <2>5. guard'[g] = anew
    BY <2>4 DEF BlogTypes
  <2>6. Honest(g)'
    <3>1. /\ guard'[g].known = Registered(key, domain) /\ guard'[g].at = "index"
          /\ guard'[g].key = key /\ guard'[g].domain = domain
      BY <2>5
    <3>2. Registered(key, domain)' = Registered(key, domain)
      BY <1>1 DEF Registered, SameHost
    <3> QED
      BY <3>1, <3>2 DEF Honest
  <2> QED
    BY <2>3, <2>4, <2>6 DEF BlogTypes
<1> QED
  BY <1>4, <1>5, <1>6, <1>7, <1>8

(***************************************************************************)
(* A request whose blog is registered for its domain when it comes is      *)
(* never refused, one that is let through has such a blog, whatever Redis  *)
(* has lost; and no domain, as it was written, has two blogs.              *)
(***************************************************************************)
THEOREM RegisteredBlogsAreServed == BlogSpec => []BlogsAreServed
<1>1. BlogInv => BlogsAreServed
  BY DEF BlogInv, Honest, OneEach, BlogsAreServed
<1>2. BlogInv /\ UNCHANGED blogVars => BlogInv'
  BY DEF blogVars, BlogInv, BlogTypes, RowComesFirst, OneEach, Honest, Registered, SameHost
<1>3. BlogInv /\ [BlogNext]_blogVars => BlogInv'
  BY <1>2, CreationsKeepInv, LoadingKeepsInv, GuardsKeepInv DEF BlogNext, Keys
<1> QED
  BY <1>1, <1>3, BlogInitInv, PTL DEF BlogSpec

-----------------------------------------------------------------------------
(***************************************************************************)
(* The clean-up takes no image a campaign uses.                            *)
(***************************************************************************)

ImageTypes ==
    /\ imageOf \in [Rows -> Images \union {NoImage}]
    /\ cleanup \in [at : {"idle", "campaigns", "delete"}, listed : SUBSET Images, used : SUBSET Images]

(***************************************************************************)
(* An image on the list was there before the job began, when no form was   *)
(* open: an upload of later is not on it, and what is on it and in use     *)
(* when the campaigns are read has been in use all along.                  *)
(***************************************************************************)
ListedIsUnused ==
    ~slow =>
        /\ draft \union InUse \subseteq stored
        /\ cleanup.listed \subseteq stored
        /\ cleanup.listed \intersect draft = {}
        /\ cleanup.at = "delete" => cleanup.listed \intersect InUse \subseteq cleanup.used

ImageInv == ImageTypes /\ stored \subseteq Images /\ ListedIsUnused

LEMMA ImageInitInv == ImageInit => ImageInv
BY DEF ImageInit, ImageInv, ImageTypes, ListedIsUnused, InUse, NoCleanup

LEMMA ImageNextInv == ImageInv /\ [ImageNext]_imageVars => ImageInv'
<1> SUFFICES ASSUME ImageInv, [ImageNext]_imageVars
             PROVE  ImageInv'
  OBVIOUS
<1> USE DEF ImageInv, ImageTypes, ListedIsUnused
<1>1. ASSUME NEW i \in Images, UploadImage(i)
      PROVE  ImageInv'
  BY <1>1 DEF UploadImage, InUse
<1>2. ASSUME NEW i \in Images, NEW r \in Rows, UseImage(r, i)
      PROVE  ImageInv'
  <2>1. InUse' \subseteq InUse \union {i}
    BY <1>2 DEF UseImage, InUse
  <2> QED
    BY <1>2, <2>1 DEF UseImage
<1>3. ASSUME NEW i \in Images, AbandonForm(i)
      PROVE  ImageInv'
  BY <1>3 DEF AbandonForm, InUse
<1>4. ASSUME ListImages
      PROVE  ImageInv'
  <2>1. PICK page \in SUBSET stored :
          cleanup' = [cleanup EXCEPT !.at = "campaigns", !.listed = page]
    BY <1>4 DEF ListImages
  <2>2. /\ cleanup'.at = "campaigns" /\ cleanup'.listed = page
        /\ cleanup' \in [at : {"idle", "campaigns", "delete"}, listed : SUBSET Images, used : SUBSET Images]
    BY <2>1
  <2>3. UNCHANGED <<stored, draft, imageOf, slow>> /\ InUse' = InUse /\ (slow \/ draft = {})
    BY <1>4 DEF ListImages, InUse
  <2> QED
    BY <2>2, <2>3
<1>5. ASSUME ReadCampaigns
      PROVE  ImageInv'
  BY <1>5 DEF ReadCampaigns, InUse
<1>6. ASSUME NEW i \in Images, DeleteImage(i)
      PROVE  ImageInv'
  BY <1>6 DEF DeleteImage, InUse
<1>7. ASSUME EndCleanup
      PROVE  ImageInv'
  BY <1>7 DEF EndCleanup, NoCleanup, InUse
<1>8. CASE UNCHANGED imageVars
  BY <1>8 DEF imageVars, InUse
<1> QED
  BY <1>1, <1>2, <1>3, <1>4, <1>5, <1>6, <1>7, <1>8 DEF ImageNext

(***************************************************************************)
(* While no form is open when the nightly job starts, it deletes no image  *)
(* that a campaign uses, whatever is uploaded and put to use meanwhile.    *)
(***************************************************************************)
THEOREM UsedImagesAreKept == ImageSpec => []UsedImagesStay
<1>1. ImageInv => UsedImagesStay
  BY DEF ImageInv, ListedIsUnused, UsedImagesStay
<1> QED
  BY <1>1, ImageInitInv, ImageNextInv, PTL DEF ImageSpec

-----------------------------------------------------------------------------
(***************************************************************************)
(* Accounts.                                                               *)
(***************************************************************************)

Visiting == [intent : {"login", "register"}, person : People, role : Roles \union {"none"}]
Known    == [role : Roles, seen : BOOLEAN]
Stages   == {"idle", "refused", "state", "code", "find", "email", "user", "account", "first", "credit",
             "registered", "exists", "unknown", "in"}

AccountTypes ==
    /\ visit \in [Visits -> Visiting \union {NoVisit}]
    /\ \A v \in Visits : visit[v].intent = "register" => visit[v].role \in Roles
    /\ user \in [Emails -> Known \union {NoUser}]
    /\ account \in [People -> Emails \union {Nobody}]
    /\ DOMAIN callback \subseteq Visits \X Nat
    /\ callback \in [DOMAIN callback -> Stages]
    /\ welcome \in [Emails -> {0, 1}]
    /\ ends \in Nat

(***************************************************************************)
(* A callback is of a visit that has begun.  Only those that register go   *)
(* on to the address, and those that have found an account are of whom it  *)
(* belongs to.                                                             *)
(***************************************************************************)
Begun ==
    \A r \in DOMAIN callback :
      /\ callback[r] # "idle" => visit[r[1]] \in Visiting
      /\ callback[r] \in {"email", "user", "account"} => Intent(r) = "register"
      /\ callback[r] \in {"first", "credit", "registered", "exists", "in"} => account[Person(r)] = Address(r)

(***************************************************************************)
(* An account is of its own address, where there is a user; a user without *)
(* one is completed by the callback that created her, if by any.           *)
(***************************************************************************)
Creating(r) == callback[r] = "account"

OwnAddress ==
    /\ \A p \in People : account[p] # Nobody => account[p] = EmailOf[p] /\ user[EmailOf[p]] # NoUser
    /\ \A p, q \in People : account[p] # Nobody /\ account[p] = account[q] => p = q

OneCreates ==
    /\ \A r \in DOMAIN callback : Creating(r) =>
         user[Address(r)] # NoUser /\ \A p \in People : account[p] # Address(r)
    /\ \A r, s \in DOMAIN callback : Creating(r) /\ Creating(s) /\ Address(r) = Address(s) => r = s

(***************************************************************************)
(* The credit waits for the callback that saw the first login, and for     *)
(* that one alone.                                                         *)
(***************************************************************************)
Crediting(r) == callback[r] = "credit"

OneCredits ==
    /\ \A e \in Emails : welcome[e] = 1 => user[e].role = "ADVERTISER" /\ user[e].seen
    /\ \A r \in DOMAIN callback : Crediting(r) =>
         welcome[Address(r)] = 0 /\ user[Address(r)].role = "ADVERTISER" /\ user[Address(r)].seen
    /\ \A r, s \in DOMAIN callback : Crediting(r) /\ Crediting(s) /\ Address(r) = Address(s) => r = s

AsRegistered ==
    \A e \in Emails : user[e] # NoUser => \E v \in Visits :
      visit[v].intent = "register" /\ EmailOf[visit[v].person] = e /\ visit[v].role = user[e].role

\* While nothing has stopped, what is half done is in somebody's hands.
InHands ==
    ends = 0 => \A e \in Emails : user[e] # NoUser =>
      /\ (\E p \in People : account[p] = e) \/ \E r \in DOMAIN callback : Creating(r) /\ Address(r) = e
      /\ user[e].role = "ADVERTISER" /\ user[e].seen =>
           welcome[e] = 1 \/ \E r \in DOMAIN callback : Crediting(r) /\ Address(r) = e

AccountInv ==
    AccountTypes /\ Begun /\ OwnAddress /\ OneCreates /\ OneCredits /\ AsRegistered /\ InHands

LEMMA AccountInitInv == AccountInit => AccountInv
<1> SUFFICES ASSUME AccountInit
             PROVE  AccountInv
  OBVIOUS
<1>1. PICK plan \in Plans : callback = [r \in plan |-> "idle"]
  BY DEF AccountInit
<1>2. DOMAIN callback = plan /\ \A r \in DOMAIN callback : callback[r] = "idle"
  BY <1>1
<1>3. AccountTypes
  <2>1. callback \in [DOMAIN callback -> Stages] /\ DOMAIN callback \subseteq Visits \X Nat
    BY <1>1, AccountAssumption DEF Stages
  <2> QED
    BY <2>1 DEF AccountInit, AccountTypes, NoVisit
<1>4. \A p \in People : account[p] = Nobody
  BY DEF AccountInit
<1>5. \A e \in Emails : user[e] = NoUser /\ welcome[e] = 0
  BY DEF AccountInit
<1> QED
  BY <1>2, <1>3, <1>4, <1>5 DEF AccountInv, Begun, OwnAddress, OneCreates, OneCredits, AsRegistered, InHands,
     Creating, Crediting

LEMMA CallbackMoves ==
    ASSUME AccountInv, NEW r \in DOMAIN callback, NEW at, NEW next \in Stages, Goes(r, at, next)
    PROVE  /\ DOMAIN callback' = DOMAIN callback /\ callback' \in [DOMAIN callback -> Stages]
           /\ callback[r] = at /\ callback'[r] = next /\ r[1] \in Visits
           /\ \A s \in DOMAIN callback : s # r => callback'[s] = callback[s]
BY DEF Goes, AccountInv, AccountTypes

LEMMA WhereVisitsAre ==
    ASSUME AccountInv, NEW r \in DOMAIN callback
    PROVE  /\ r[1] \in Visits
           /\ visit[r[1]] \in Visiting => Person(r) \in People /\ Address(r) \in Emails
           /\ visit[r[1]] = NoVisit => callback[r] = "idle"
<1>1. r \in Visits \X Nat
  BY DEF AccountInv, AccountTypes
<1>2. r[1] \in Visits
  BY <1>1
<1>3. NoVisit \notin Visiting
  <2>1. \A x \in Visiting : x.intent \in {"login", "register"}
    BY DEF Visiting
  <2> QED
    BY <2>1 DEF NoVisit
<1> QED
  BY <1>2, <1>3 DEF Visiting, Person, Address, Emails, AccountInv, Begun

(***************************************************************************)
(* A step that neither begins nor ends what somebody has to complete.      *)
(***************************************************************************)
LEMMA StepsKeep ==
    ASSUME AccountInv, NEW r \in DOMAIN callback, NEW at, NEW next \in Stages \ {"account", "credit"},
           Goes(r, at, next), UNCHANGED <<visit, user, account, welcome>>,
           (ends' = ends /\ at \notin {"account", "credit"}) \/ ends' = ends + 1,
           next # "idle" => visit[r[1]] \in Visiting,
           next \in {"email", "user"} => Intent(r) = "register",
           next \in {"first", "registered", "exists", "in"} => account[Person(r)] = Address(r)
    PROVE  AccountInv'
<1> USE DEF AccountInv
<1>1. /\ DOMAIN callback' = DOMAIN callback /\ callback' \in [DOMAIN callback -> Stages]
      /\ callback[r] = at /\ callback'[r] = next
      /\ \A s \in DOMAIN callback : s # r => callback'[s] = callback[s]
  BY CallbackMoves
<1>2. \A s \in DOMAIN callback : Person(s)' = Person(s) /\ Address(s)' = Address(s) /\ Intent(s)' = Intent(s)
  BY DEF Person, Address, Intent
<1>3. \A s \in DOMAIN callback :
        /\ Creating(s)' => Creating(s) /\ s # r
        /\ Crediting(s)' => Crediting(s) /\ s # r
  BY <1>1 DEF Creating, Crediting
<1>4. AccountTypes'
  BY <1>1 DEF AccountTypes
<1>5. Begun'
  BY <1>1, <1>2 DEF Begun
<1>6. OwnAddress' /\ AsRegistered'
  BY DEF OwnAddress, AsRegistered
<1>7. OneCreates'
  BY <1>1, <1>2, <1>3 DEF OneCreates
<1>8. OneCredits'
  BY <1>1, <1>2, <1>3 DEF OneCredits
<1>9. InHands'
  <2>1. CASE ends' = ends + 1
    BY <2>1 DEF InHands, AccountTypes
  <2>2. CASE ends' = ends /\ at \notin {"account", "credit"}
    <3>1. \A s \in DOMAIN callback : (Creating(s) => Creating(s)') /\ (Crediting(s) => Crediting(s)')
      BY <1>1, <2>2 DEF Creating, Crediting
    <3> QED
      BY <1>1, <1>2, <2>2, <3>1 DEF InHands
  <2> QED
    BY <2>1, <2>2
<1> QED
  BY <1>4, <1>5, <1>6, <1>7, <1>8, <1>9

LEMMA RedirectKeeps ==
    ASSUME AccountInv, NEW v \in Visits, NEW p \in People,
           NEW intent \in {"login", "register"}, NEW role \in Roles \union {"none"},
           intent = "register" => role \in Roles, Redirect(v, p, intent, role)
    PROVE  AccountInv'
<1> USE DEF AccountInv
<1> DEFINE new == [intent |-> intent, person |-> p, role |-> role]
<1>1. /\ visit' = [visit EXCEPT ![v] = new] /\ visit[v] = NoVisit
      /\ UNCHANGED <<user, account, callback, welcome, ends>>
  BY DEF Redirect
<1>2. new \in Visiting /\ new.intent = intent /\ new.role = role
  BY DEF Visiting
<1>3. visit' \in [Visits -> Visiting \union {NoVisit}] /\ visit'[v] = new
      /\ \A w \in Visits : w # v => visit'[w] = visit[w]
  BY <1>1, <1>2 DEF AccountTypes
<1> HIDE DEF new
<1>4. \A s \in DOMAIN callback : callback[s] # "idle" => s[1] # v /\ visit'[s[1]] = visit[s[1]]
  <2> SUFFICES ASSUME NEW s \in DOMAIN callback, callback[s] # "idle"
               PROVE  s[1] # v /\ visit'[s[1]] = visit[s[1]]
    OBVIOUS
  <2>1. s[1] \in Visits /\ visit[s[1]] # NoVisit
    BY WhereVisitsAre
  <2> QED
    BY <1>1, <1>3, <2>1
<1>5. \A s \in DOMAIN callback : callback[s] # "idle" =>
        Person(s)' = Person(s) /\ Address(s)' = Address(s) /\ Intent(s)' = Intent(s)
  BY <1>4 DEF Person, Address, Intent
<1>6. AccountTypes'
  BY <1>1, <1>2, <1>3 DEF AccountTypes
<1>7. Begun'
  BY <1>1, <1>4, <1>5 DEF Begun
<1>8. OwnAddress'
  BY <1>1 DEF OwnAddress
<1>9. OneCreates' /\ OneCredits'
  BY <1>1, <1>5 DEF OneCreates, OneCredits, Creating, Crediting
<1>10. AsRegistered'
  <2>1. \A w \in Visits : visit[w].intent = "register" => w # v /\ visit'[w] = visit[w]
    BY <1>1, <1>3 DEF NoVisit
  <2> QED
    BY <1>1, <2>1 DEF AsRegistered
<1>11. InHands'
  BY <1>1, <1>5 DEF InHands, Creating, Crediting
<1> QED
  BY <1>6, <1>7, <1>8, <1>9, <1>10, <1>11

LEMMA StateExpiresKeeps ==
    ASSUME AccountInv, UNCHANGED <<visit, user, account, callback, welcome>>, ends' \in {ends, ends + 1}
    PROVE  AccountInv'
<1> USE DEF AccountInv
<1>1. AccountTypes'
  BY DEF AccountTypes
<1>2. Begun' /\ OwnAddress' /\ AsRegistered'
  BY DEF Begun, OwnAddress, AsRegistered, Person, Address, Intent
<1>3. OneCreates' /\ OneCredits'
  BY DEF OneCreates, OneCredits, Creating, Crediting, Person, Address
<1>4. InHands'
  BY DEF InHands, AccountTypes, Creating, Crediting, Person, Address
<1> QED
  BY <1>1, <1>2, <1>3, <1>4

LEMMA CreateUserKeeps ==
    ASSUME AccountInv, NEW r \in DOMAIN callback, CreateUser(r)
    PROVE  AccountInv'
<1> USE DEF AccountInv
<1>1. /\ callback[r] = "user" /\ visit[r[1]] \in Visiting /\ Intent(r) = "register"
      /\ r[1] \in Visits /\ Address(r) \in Emails
  BY WhereVisitsAre DEF CreateUser, Goes, Begun
<1>2. CASE user[Address(r)] # NoUser
  <2>1. Goes(r, "user", "refused") /\ UNCHANGED <<visit, user, account, welcome, ends>>
    BY <1>2 DEF CreateUser
  <2> QED
    BY <1>1, <2>1, StepsKeep DEF Stages
<1>3. CASE user[Address(r)] = NoUser
  <2> DEFINE e == Address(r)
             new == [role |-> visit[r[1]].role, seen |-> FALSE]
  <2>1. /\ Goes(r, "user", "account") /\ user' = [user EXCEPT ![e] = new]
        /\ UNCHANGED <<visit, account, welcome, ends>>
    BY <1>3 DEF CreateUser
  <2>2. /\ DOMAIN callback' = DOMAIN callback /\ callback' \in [DOMAIN callback -> Stages]
        /\ callback[r] = "user" /\ callback'[r] = "account"
        /\ \A s \in DOMAIN callback : s # r => callback'[s] = callback[s]
    BY <2>1, CallbackMoves DEF Stages
  <2>3. new \in Known /\ new # NoUser /\ ~new.seen /\ new.role = visit[r[1]].role
    <3>1. visit[r[1]].role \in Roles
      BY <1>1 DEF AccountTypes, Intent
    <3> QED
      BY <3>1 DEF Known, NoUser, Roles
  <2> HIDE DEF new
  <2>4. /\ user' \in [Emails -> Known \union {NoUser}] /\ user'[e] = new
        /\ \A f \in Emails : f # e => user'[f] = user[f]
    BY <1>1, <2>1, <2>3 DEF AccountTypes
  <2>5. \A s \in DOMAIN callback : Person(s)' = Person(s) /\ Address(s)' = Address(s) /\ Intent(s)' = Intent(s)
    BY <2>1 DEF Person, Address, Intent
  <2>6. welcome[e] = 0 /\ \A p \in People : account[p] # e
    <3>1. welcome[e] # 1
      BY <1>1, <1>3 DEF OneCredits, NoUser
    <3>2. \A p \in People : account[p] # e
      BY <1>1, <1>3, AccountAssumption DEF OwnAddress, Emails
    <3> QED
      BY <1>1, <3>1, <3>2 DEF AccountTypes
  <2>7. \A s \in DOMAIN callback : Creating(s) \/ Crediting(s) => Address(s) # e
    BY <1>3 DEF OneCreates, OneCredits, Creating, Crediting, NoUser
  <2>8. \A s \in DOMAIN callback :
          /\ Creating(s)' = (Creating(s) \/ s = r) /\ (Crediting(s)' = Crediting(s))
    BY <2>2 DEF Creating, Crediting
  <2> HIDE DEF e
  <2>9. AccountTypes'
    BY <2>1, <2>2, <2>4 DEF AccountTypes
  <2>10. Begun'
    BY <1>1, <2>1, <2>2, <2>5 DEF Begun
  <2>11. OwnAddress'
    BY <2>1, <2>3, <2>4 DEF OwnAddress, Emails
  <2>12. OneCreates'
    <3>1. \A s \in DOMAIN callback : Creating(s)' => user'[Address(s)] # NoUser /\ \A p \in People : account[p] # Address(s)
      <4> SUFFICES ASSUME NEW s \in DOMAIN callback, Creating(s)'
                   PROVE  user'[Address(s)] # NoUser /\ \A p \in People : account[p] # Address(s)
        OBVIOUS
      <4>1. CASE s = r
        BY <4>1, <2>3, <2>4, <2>6 DEF e
      <4>2. CASE Creating(s)
        <5>1. Address(s) \in Emails
          BY <4>2, WhereVisitsAre DEF Creating, Begun
        <5> QED
          BY <2>4, <2>7, <4>2, <5>1 DEF OneCreates
      <4> QED
        BY <2>8, <4>1, <4>2
    <3>2. \A s, t \in DOMAIN callback : Creating(s)' /\ Creating(t)' /\ Address(s) = Address(t) => s = t
      BY <2>7, <2>8 DEF OneCreates, e
    <3> QED
      BY <2>1, <2>2, <2>5, <3>1, <3>2 DEF OneCreates
  <2>13. OneCredits'
    <3>1. \A f \in Emails : welcome[f] = 1 => f # e
      BY <2>6
    <3>2. \A s \in DOMAIN callback : Crediting(s) => Address(s) \in Emails /\ Address(s) # e
      BY <2>7, WhereVisitsAre DEF Crediting, Begun
    <3>3. \A f \in Emails : welcome'[f] = 1 => user'[f].role = "ADVERTISER" /\ user'[f].seen
      BY <2>1, <2>4, <3>1 DEF OneCredits
    <3>4. \A s \in DOMAIN callback : Crediting(s)' =>
            welcome'[Address(s)] = 0 /\ user'[Address(s)].role = "ADVERTISER" /\ user'[Address(s)].seen
      BY <2>1, <2>4, <2>8, <3>2 DEF OneCredits
    <3> QED
      BY <2>2, <2>5, <2>8, <3>3, <3>4 DEF OneCredits
  <2>14. AsRegistered'
    <3>1. visit[r[1]].intent = "register" /\ EmailOf[visit[r[1]].person] = e
      BY <1>1 DEF Intent, Address, Person, e
    <3> SUFFICES ASSUME NEW f \in Emails, user'[f] # NoUser
                 PROVE  \E v \in Visits : visit[v].intent = "register" /\ EmailOf[visit[v].person] = f
                                            /\ visit[v].role = user'[f].role
      BY <2>1 DEF AsRegistered
    <3>2. CASE f = e
      BY <1>1, <2>3, <2>4, <3>1, <3>2
    <3>3. CASE f # e
      BY <2>4, <3>3 DEF AsRegistered
    <3> QED
      BY <3>2, <3>3
  <2>15. InHands'
    <3> SUFFICES ASSUME ends = 0, NEW f \in Emails, user'[f] # NoUser
                 PROVE  /\ (\E p \in People : account[p] = f)
                             \/ \E s \in DOMAIN callback : Creating(s)' /\ Address(s) = f
                        /\ user'[f].role = "ADVERTISER" /\ user'[f].seen =>
                             welcome[f] = 1 \/ \E s \in DOMAIN callback : Crediting(s)' /\ Address(s) = f
      BY <2>1, <2>2, <2>5 DEF InHands
    <3>1. CASE f = e
      <4>1. Creating(r)' /\ Address(r) = f
        BY <2>8, <3>1 DEF e
      <4> QED
        BY <2>3, <2>4, <3>1, <4>1
    <3>2. CASE f # e
      BY <2>4, <2>8, <3>2 DEF InHands
    <3> QED
      BY <3>1, <3>2
  <2> QED
    BY <2>9, <2>10, <2>11, <2>12, <2>13, <2>14, <2>15
<1> QED
  BY <1>2, <1>3

LEMMA CreateAccountKeeps ==
    ASSUME AccountInv, NEW r \in DOMAIN callback, CreateOAuthAccount(r)
    PROVE  AccountInv'
<1> USE DEF AccountInv
<1> DEFINE q == Person(r)
           e == Address(r)
<1>1. /\ callback[r] = "account" /\ visit[r[1]] \in Visiting /\ q \in People /\ e \in Emails /\ e = EmailOf[q]
      /\ user[e] # NoUser /\ \A p \in People : account[p] # e
  BY WhereVisitsAre DEF CreateOAuthAccount, Goes, Begun, OneCreates, Creating, Address
<1>2. /\ Goes(r, "account", "registered") /\ account' = [account EXCEPT ![q] = e]
      /\ UNCHANGED <<visit, user, welcome, ends>>
  BY DEF CreateOAuthAccount
<1>3. /\ DOMAIN callback' = DOMAIN callback /\ callback' \in [DOMAIN callback -> Stages]
      /\ callback'[r] = "registered"
      /\ \A s \in DOMAIN callback : s # r => callback'[s] = callback[s]
  BY <1>2, CallbackMoves DEF Stages
<1>4. /\ account' \in [People -> Emails \union {Nobody}] /\ account'[q] = e
      /\ \A p \in People : p # q => account'[p] = account[p]
  BY <1>1, <1>2 DEF AccountTypes
<1>5. \A s \in DOMAIN callback : Person(s)' = Person(s) /\ Address(s)' = Address(s) /\ Intent(s)' = Intent(s)
  BY <1>2 DEF Person, Address, Intent
<1>6. \A s \in DOMAIN callback :
        /\ Creating(s)' = (Creating(s) /\ s # r) /\ Crediting(s)' = Crediting(s)
        /\ Creating(s)' => Address(s) # e
  <2>1. \A s \in DOMAIN callback : Creating(s)' = (Creating(s) /\ s # r) /\ Crediting(s)' = Crediting(s)
    BY <1>1, <1>3 DEF Creating, Crediting
  <2> QED
    BY <1>1, <2>1 DEF OneCreates, Creating
<1>7. account[q] = Nobody
  BY <1>1 DEF OwnAddress
<1>8. e # Nobody
  BY <1>1, AccountAssumption DEF Emails
<1>9. \A s \in DOMAIN callback : Person(s) = q => Address(s) = e
  BY DEF Address
<1> HIDE DEF q, e
<1>10. AccountTypes'
  BY <1>2, <1>3, <1>4 DEF AccountTypes
<1>11. Begun'
  <2> SUFFICES ASSUME NEW s \in DOMAIN callback
               PROVE  /\ callback'[s] # "idle" => visit[s[1]] \in Visiting
                      /\ callback'[s] \in {"email", "user", "account"} => Intent(s) = "register"
                      /\ callback'[s] \in {"first", "credit", "registered", "exists", "in"} =>
                           account'[Person(s)] = Address(s)
    BY <1>2, <1>3, <1>5 DEF Begun
  <2>1. CASE s = r
    BY <1>1, <1>3, <1>4, <2>1 DEF q, e
  <2>2. CASE s # r
    <3>1. callback'[s] = callback[s]
      BY <1>3, <2>2
    <3>2. callback[s] # "idle" => Person(s) \in People
      BY WhereVisitsAre DEF Begun
    <3>3. Person(s) \in People /\ account[Person(s)] = Address(s) => account'[Person(s)] = Address(s)
      BY <1>4, <1>9
    <3> QED
      BY <3>1, <3>2, <3>3 DEF Begun
  <2> QED
    BY <2>1, <2>2
<1>12. OwnAddress'
  <2>1. \A p \in People : account'[p] # Nobody => account'[p] = EmailOf[p] /\ user[EmailOf[p]] # NoUser
    BY <1>1, <1>4 DEF OwnAddress
  <2>2. \A p, t \in People : account'[p] # Nobody /\ account'[p] = account'[t] => p = t
    BY <1>1, <1>4 DEF OwnAddress
  <2> QED
    BY <1>2, <2>1, <2>2 DEF OwnAddress
<1>13. OneCreates'
  <2>1. \A s \in DOMAIN callback : Creating(s)' =>
          user[Address(s)] # NoUser /\ \A p \in People : account'[p] # Address(s)
    BY <1>4, <1>6 DEF OneCreates
  <2> QED
    BY <1>2, <1>3, <1>5, <1>6, <2>1 DEF OneCreates
<1>14. OneCredits'
  BY <1>2, <1>3, <1>5, <1>6 DEF OneCredits
<1>15. AsRegistered'
  BY <1>2 DEF AsRegistered
<1>16. InHands'
  <2> SUFFICES ASSUME ends = 0, NEW f \in Emails, user[f] # NoUser
               PROVE  /\ (\E p \in People : account'[p] = f)
                           \/ \E s \in DOMAIN callback : Creating(s)' /\ Address(s) = f
                      /\ user[f].role = "ADVERTISER" /\ user[f].seen =>
                           welcome[f] = 1 \/ \E s \in DOMAIN callback : Crediting(s)' /\ Address(s) = f
    BY <1>2, <1>3, <1>5 DEF InHands
  <2>1. CASE f = e
    BY <1>1, <1>4, <1>6, <2>1 DEF InHands
  <2>2. CASE f # e
    <3>1. \A p \in People : account[p] = f => account'[p] = f
      BY <1>4, <1>7, <1>8, AccountAssumption DEF Emails
    <3>2. \A s \in DOMAIN callback : Creating(s) /\ Address(s) = f => Creating(s)'
      BY <1>6, <2>2 DEF e
    <3> QED
      BY <1>6, <3>1, <3>2 DEF InHands
  <2> QED
    BY <2>1, <2>2
<1> QED
  BY <1>10, <1>11, <1>12, <1>13, <1>14, <1>15, <1>16

LEMMA SeenOnce ==
    ASSUME NEW h \in Known
    PROVE  /\ [h EXCEPT !.seen = TRUE] \in Known
           /\ [h EXCEPT !.seen = TRUE].seen = TRUE /\ [h EXCEPT !.seen = TRUE].role = h.role
BY DEF Known

LEMMA KnownIsNotNone == NoUser \notin Known
<1>1. \A h \in Known : h.role \in Roles
  BY DEF Known
<1> QED
  BY <1>1 DEF NoUser, Roles

LEMMA FirstLoginKeeps ==
    ASSUME AccountInv, NEW r \in DOMAIN callback, SetFirstLoginAtIfNull(r)
    PROVE  AccountInv'
<1> USE DEF AccountInv
<1> DEFINE e    == Address(r)
           next == IF ~user[e].seen /\ user[e].role = "ADVERTISER" THEN "credit" ELSE "in"
<1>1. /\ callback[r] = "first" /\ visit[r[1]] \in Visiting /\ Person(r) \in People /\ e \in Emails
      /\ account[Person(r)] = e
  BY WhereVisitsAre DEF SetFirstLoginAtIfNull, Goes, Begun
<1>2. user[e] # NoUser /\ user[e] \in Known
  <2>1. account[Person(r)] # Nobody
    BY <1>1, AccountAssumption DEF Emails
  <2> QED
    BY <1>1, <2>1 DEF OwnAddress, AccountTypes
<1>3. /\ Goes(r, "first", next) /\ user' = [user EXCEPT ![e].seen = TRUE]
      /\ UNCHANGED <<visit, account, welcome, ends>>
  BY <1>1, <1>2 DEF SetFirstLoginAtIfNull, Welcomed, Known
<1>4. /\ DOMAIN callback' = DOMAIN callback /\ callback' \in [DOMAIN callback -> Stages]
      /\ callback'[r] = next
      /\ \A s \in DOMAIN callback : s # r => callback'[s] = callback[s]
  BY <1>3, CallbackMoves DEF Stages
<1>5. /\ user' \in [Emails -> Known \union {NoUser}]
      /\ user'[e] \in Known /\ user'[e] # NoUser /\ user'[e].seen /\ user'[e].role = user[e].role
      /\ \A f \in Emails : f # e => user'[f] = user[f]
  <2>1. user' = [user EXCEPT ![e] = [user[e] EXCEPT !.seen = TRUE]]
    BY <1>3
  <2> DEFINE new == [user[e] EXCEPT !.seen = TRUE]
  <2>3. new \in Known /\ new.seen /\ new.role = user[e].role
    BY <1>2, SeenOnce
  <2>4. new # NoUser
    BY <2>3, KnownIsNotNone
  <2>5. user' = [user EXCEPT ![e] = new]
    BY <2>1
  <2> HIDE DEF new
  <2> QED
    BY <1>1, <2>3, <2>4, <2>5 DEF AccountTypes
<1>6. \A s \in DOMAIN callback : Person(s)' = Person(s) /\ Address(s)' = Address(s) /\ Intent(s)' = Intent(s)
  BY <1>3 DEF Person, Address, Intent
<1>7. next = "credit" => welcome[e] = 0 /\ user'[e].role = "ADVERTISER"
                           /\ \A s \in DOMAIN callback : Crediting(s) => Address(s) # e
  BY <1>1, <1>2, <1>5 DEF OneCredits, AccountTypes, Known
<1>8. next # "credit" /\ user[e].role = "ADVERTISER" => user[e].seen
  BY <1>2 DEF Known
<1>9. next \in {"credit", "in"}
  OBVIOUS
<1> HIDE DEF next
<1>10. \A s \in DOMAIN callback :
         Creating(s)' = Creating(s) /\ Crediting(s)' = (Crediting(s) \/ (s = r /\ next = "credit"))
  BY <1>1, <1>4, <1>9 DEF Creating, Crediting
<1>11. \A s \in DOMAIN callback : Creating(s) \/ Crediting(s) => Address(s) \in Emails
  BY WhereVisitsAre DEF Creating, Crediting, Begun
<1>12. AccountTypes'
  BY <1>3, <1>4, <1>5 DEF AccountTypes
<1>13. Begun'
  <2>1. e = Address(r)
    OBVIOUS
  <2> HIDE DEF e
  <2> QED
    BY <1>1, <1>3, <1>4, <1>6, <1>9, <2>1 DEF Begun
<1>14. OwnAddress'
  BY <1>3, <1>5 DEF OwnAddress, Emails
<1>15. OneCreates'
  <2>1. \A s \in DOMAIN callback : Creating(s)' =>
          user'[Address(s)] # NoUser /\ \A p \in People : account[p] # Address(s)
    BY <1>5, <1>10, <1>11 DEF OneCreates
  <2> QED
    BY <1>3, <1>4, <1>6, <1>10, <2>1 DEF OneCreates
<1>16. OneCredits'
  <2>1. \A f \in Emails : welcome[f] = 1 => user'[f].role = "ADVERTISER" /\ user'[f].seen
    BY <1>5 DEF OneCredits
  <2>2. \A s \in DOMAIN callback : Crediting(s)' =>
          welcome[Address(s)] = 0 /\ user'[Address(s)].role = "ADVERTISER" /\ user'[Address(s)].seen
    BY <1>5, <1>7, <1>10, <1>11 DEF OneCredits
  <2>3. \A s, t \in DOMAIN callback : Crediting(s)' /\ Crediting(t)' /\ Address(s) = Address(t) => s = t
    BY <1>7, <1>10 DEF OneCredits
  <2> HIDE DEF e
  <2> QED
    BY <1>3, <1>4, <1>6, <2>1, <2>2, <2>3 DEF OneCredits
<1>17. AsRegistered'
  <2> SUFFICES ASSUME NEW f \in Emails, user'[f] # NoUser
               PROVE  \E v \in Visits : visit[v].intent = "register" /\ EmailOf[visit[v].person] = f
                                          /\ visit[v].role = user'[f].role
    BY <1>3 DEF AsRegistered
  <2>1. user[f] # NoUser /\ user'[f].role = user[f].role
    BY <1>2, <1>5
  <2> QED
    BY <2>1 DEF AsRegistered
<1>18. InHands'
  <2> SUFFICES ASSUME ends = 0, NEW f \in Emails, user'[f] # NoUser
               PROVE  /\ (\E p \in People : account[p] = f)
                           \/ \E s \in DOMAIN callback : Creating(s)' /\ Address(s) = f
                      /\ user'[f].role = "ADVERTISER" /\ user'[f].seen =>
                           welcome[f] = 1 \/ \E s \in DOMAIN callback : Crediting(s)' /\ Address(s) = f
    <3> HIDE DEF e
    <3> QED
      BY <1>3, <1>4, <1>6 DEF InHands
  <2>1. CASE f # e
    BY <1>5, <1>10, <2>1 DEF InHands
  <2>2. CASE f = e
    <3>1. \E p \in People : account[p] = f
      BY <1>1, <2>2
    <3>2. CASE next = "credit"
      BY <1>10, <2>2, <3>1, <3>2
    <3>3. CASE next # "credit"
      BY <1>2, <1>5, <1>8, <1>10, <2>2, <3>1, <3>3 DEF InHands
    <3> QED
      BY <3>2, <3>3
  <2> QED
    BY <2>1, <2>2
<1> QED
  BY <1>12, <1>13, <1>14, <1>15, <1>16, <1>17, <1>18

LEMMA WelcomeKeeps ==
    ASSUME AccountInv, NEW r \in DOMAIN callback, GiveWelcomeCredit(r)
    PROVE  AccountInv'
<1> USE DEF AccountInv
<1> DEFINE e == Address(r)
<1>1. /\ callback[r] = "credit" /\ visit[r[1]] \in Visiting /\ Person(r) \in People /\ e \in Emails
      /\ account[Person(r)] = e
      /\ welcome[e] = 0 /\ user[e].role = "ADVERTISER" /\ user[e].seen
  BY WhereVisitsAre DEF GiveWelcomeCredit, Goes, Begun, OneCredits, Crediting
<1>2. /\ Goes(r, "credit", "in") /\ welcome' = [welcome EXCEPT ![e] = @ + 1]
      /\ UNCHANGED <<visit, user, account, ends>>
  BY <1>1 DEF GiveWelcomeCredit
<1>3. /\ DOMAIN callback' = DOMAIN callback /\ callback' \in [DOMAIN callback -> Stages]
      /\ callback'[r] = "in"
      /\ \A s \in DOMAIN callback : s # r => callback'[s] = callback[s]
  BY <1>2, CallbackMoves DEF Stages
<1>4. /\ welcome' \in [Emails -> {0, 1}] /\ welcome'[e] = 1
      /\ \A f \in Emails : f # e => welcome'[f] = welcome[f]
  <2>1. welcome' = [welcome EXCEPT ![e] = 1]
    BY <1>1, <1>2
  <2> QED
    BY <1>1, <2>1 DEF AccountTypes
<1>5. \A s \in DOMAIN callback : Person(s)' = Person(s) /\ Address(s)' = Address(s) /\ Intent(s)' = Intent(s)
  BY <1>2 DEF Person, Address, Intent
<1>6. \A s \in DOMAIN callback :
        /\ Creating(s)' = Creating(s) /\ Crediting(s)' = (Crediting(s) /\ s # r)
        /\ Crediting(s)' => Address(s) # e /\ Address(s) \in Emails
  <2>1. \A s \in DOMAIN callback : Creating(s)' = Creating(s) /\ Crediting(s)' = (Crediting(s) /\ s # r)
    BY <1>1, <1>3 DEF Creating, Crediting
  <2>2. \A s \in DOMAIN callback : Crediting(s) => Address(s) \in Emails
    BY WhereVisitsAre DEF Crediting, Begun
  <2> QED
    BY <1>1, <2>1, <2>2 DEF OneCredits, Crediting
<1>7. Begun'
  <2>1. e = Address(r)
    OBVIOUS
  <2> HIDE DEF e
  <2> QED
    BY <1>1, <1>2, <1>3, <1>5, <2>1 DEF Begun
<1> HIDE DEF e
<1>8. AccountTypes'
  BY <1>2, <1>3, <1>4 DEF AccountTypes
<1>9. OwnAddress' /\ AsRegistered'
  BY <1>2 DEF OwnAddress, AsRegistered
<1>10. OneCreates'
  BY <1>2, <1>3, <1>5, <1>6 DEF OneCreates
<1>11. OneCredits'
  <2>1. \A f \in Emails : welcome'[f] = 1 => user[f].role = "ADVERTISER" /\ user[f].seen
    BY <1>1, <1>4 DEF OneCredits
  <2>2. \A s \in DOMAIN callback : Crediting(s)' =>
          welcome'[Address(s)] = 0 /\ user[Address(s)].role = "ADVERTISER" /\ user[Address(s)].seen
    BY <1>4, <1>6 DEF OneCredits
  <2>3. \A s, t \in DOMAIN callback : Crediting(s)' /\ Crediting(t)' /\ Address(s) = Address(t) => s = t
    BY <1>6 DEF OneCredits
  <2> QED
    BY <1>2, <1>3, <1>5, <2>1, <2>2, <2>3 DEF OneCredits
<1>12. InHands'
  <2> SUFFICES ASSUME ends = 0, NEW f \in Emails, user[f] # NoUser
               PROVE  /\ (\E p \in People : account[p] = f)
                           \/ \E s \in DOMAIN callback : Creating(s)' /\ Address(s) = f
                      /\ user[f].role = "ADVERTISER" /\ user[f].seen =>
                           welcome'[f] = 1 \/ \E s \in DOMAIN callback : Crediting(s)' /\ Address(s) = f
    BY <1>2, <1>3, <1>5 DEF InHands
  <2>1. CASE f = e
    BY <1>4, <1>6, <2>1 DEF InHands
  <2>2. CASE f # e
    <3>1. \A s \in DOMAIN callback : Crediting(s) /\ Address(s) = f => Crediting(s)'
      BY <1>6, <2>2 DEF e
    <3> QED
      BY <1>4, <1>6, <2>2, <3>1 DEF InHands
  <2> QED
    BY <2>1, <2>2
<1> QED
  BY <1>7, <1>8, <1>9, <1>10, <1>11, <1>12

LEMMA CallbackKeeps ==
    ASSUME AccountInv, NEW r \in DOMAIN callback, Callback(r)
    PROVE  AccountInv'
<1>1. visit[r[1]] # NoVisit => visit[r[1]] \in Visiting
  BY WhereVisitsAre DEF AccountInv, AccountTypes
<1>2. CASE ReadState(r)
  <2>1. PICK next \in {"state", "refused"} : Goes(r, "idle", next)
    BY <1>2 DEF ReadState
  <2> QED
    BY <1>1, <1>2, <2>1, StepsKeep DEF ReadState, OnlyRequest, Stages
<1>3. CASE DeleteState(r)
  <2>1. callback[r] = "state" => visit[r[1]] \in Visiting
    BY DEF AccountInv, Begun
  <2> QED
    BY <1>3, <2>1, StepsKeep DEF DeleteState, Stages, Goes
<1>4. CASE ExchangeCode(r)
  <2>1. PICK next \in {"find", "refused"} : Goes(r, "code", next)
    BY <1>4 DEF ExchangeCode
  <2>2. visit[r[1]] \in Visiting
    BY <2>1 DEF AccountInv, Begun, Goes
  <2> QED
    BY <1>4, <2>1, <2>2, StepsKeep DEF ExchangeCode, Stages
<1>5. CASE FindAccount(r)
  <2>1. PICK next \in {"email", "first", "exists", "unknown"} :
          /\ Goes(r, "find", next)
          /\ next = "email" => Intent(r) # "login"
          /\ next \in {"first", "exists"} => account[Person(r)] # Nobody
    BY <1>5 DEF FindAccount
  <2>2. visit[r[1]] \in Visiting /\ Person(r) \in People
    BY <2>1, WhereVisitsAre DEF AccountInv, Begun, Goes
  <2>3. Intent(r) \in {"login", "register"}
    BY <2>2 DEF Visiting, Intent
  <2>4. account[Person(r)] # Nobody => account[Person(r)] = Address(r)
    BY <2>2 DEF AccountInv, OwnAddress, Address
  <2> QED
    BY <1>5, <2>1, <2>2, <2>3, <2>4, StepsKeep DEF FindAccount, OnlyRequest, Stages
<1>6. CASE FindEmail(r)
  <2>1. PICK next \in {"user", "refused"} : Goes(r, "email", next)
    BY <1>6 DEF FindEmail
  <2>2. visit[r[1]] \in Visiting /\ Intent(r) = "register"
    BY <2>1 DEF AccountInv, Begun, Goes
  <2> QED
    BY <1>6, <2>1, <2>2, StepsKeep DEF FindEmail, OnlyRequest, Stages
<1>7. CASE EnterDashboard(r)
  <2>1. visit[r[1]] \in Visiting /\ account[Person(r)] = Address(r)
    BY <1>7 DEF EnterDashboard, Goes, AccountInv, Begun
  <2> QED
    BY <1>7, <2>1, StepsKeep DEF EnterDashboard, OnlyRequest, Stages
<1>8. CASE CallbackEnds(r)
  <2>1. visit[r[1]] \in Visiting
    BY <1>8 DEF CallbackEnds, InHand, AccountInv, Begun
  <2>2. Goes(r, callback[r], "refused")
    BY <1>8 DEF CallbackEnds, Goes
  <2> QED
    BY <1>8, <2>1, <2>2, StepsKeep DEF CallbackEnds, Stages
<1> QED
  BY <1>2, <1>3, <1>4, <1>5, <1>6, <1>7, <1>8, CreateUserKeeps, CreateAccountKeeps, FirstLoginKeeps, WelcomeKeeps
     DEF Callback

LEMMA AccountNextInv == AccountInv /\ [AccountNext]_accountVars => AccountInv'
<1> SUFFICES ASSUME AccountInv, [AccountNext]_accountVars
             PROVE  AccountInv'
  OBVIOUS
<1>1. ASSUME NEW v \in Visits, NEW p \in People,
             Redirect(v, p, "login", "none") \/ \E role \in Roles : Redirect(v, p, "register", role)
      PROVE  AccountInv'
  BY <1>1, RedirectKeeps
<1>2. ASSUME NEW v \in Visits, StateExpires(v)
      PROVE  AccountInv'
  BY <1>2, StateExpiresKeeps DEF StateExpires
<1>3. CASE UNCHANGED accountVars
  BY <1>3, StateExpiresKeeps DEF accountVars
<1> QED
  BY <1>1, <1>2, <1>3, CallbackKeeps DEF AccountNext

(***************************************************************************)
(* Registrations and logins at the same time, of people who had the same   *)
(* address, with states that run out and callbacks that stop: whoever is   *)
(* told that she is registered or in is so as herself, an advertiser is    *)
(* welcomed once, and what is half done is so because something stopped.   *)
(***************************************************************************)
THEOREM AccountsStaySound == AccountSpec => []AccountsAreSound
<1>1. AccountInv => AccountsAreSound
  <2> SUFFICES ASSUME AccountInv
               PROVE  AccountsAreSound
    OBVIOUS
  <2> USE DEF AccountInv
  <2>1. \A r \in DOMAIN callback : Told(r) => account[Person(r)] = Address(r)
    BY DEF Begun, Told
  <2>2. \A p, q \in People : account[p] # Nobody /\ account[p] = account[q] => p = q
    BY DEF OwnAddress
  <2>3. \A e \in Emails : welcome[e] <= 1
    BY DEF AccountTypes
  <2>4. ASSUME ends = 0, \A r \in DOMAIN callback : ~InHand(r)
        PROVE  \A r \in DOMAIN callback : ~Creating(r) /\ ~Crediting(r)
    BY <2>4 DEF InHand, Creating, Crediting
  <2> QED
    BY <2>1, <2>2, <2>3, <2>4 DEF AccountsAreSound, OneCredits, AsRegistered, InHands
<1> QED
  BY <1>1, AccountInitInv, AccountNextInv, PTL DEF AccountSpec

-----------------------------------------------------------------------------
(***************************************************************************)
(* The script in the page, for every number of pages, zones and loads: the *)
(* invariant that carries its three properties, and their proofs.          *)
(***************************************************************************)
Metrics == [scroll : {0, 50, 80}, seconds : Nat, copies : Nat, code : Nat, links : Nat]

\* The records whose fields the invariants follow have these fields.
PageTypes ==
    /\ auto \in BOOLEAN
    /\ DOMAIN load = Loads /\ \A l \in Loads : {"at", "url", "todo"} \subseteq DOMAIN load[l]
    /\ {"url", "id"} \subseteq DOMAIN context
    /\ DOMAIN view = Ads
    /\ {"view", "ad", "clicked", "sent"} \subseteq DOMAIN tracker
    /\ tracker.clicked \in BOOLEAN /\ tracker.sent \in BOOLEAN
    /\ metrics \in Metrics
    /\ DOMAIN asked = Ads

(***************************************************************************)
(* What the visitor sees is what the tracker knows, and its view is the    *)
(* one that is awaited or known, if any.                                   *)
(***************************************************************************)
OneAd ==
    habit \intersect {"zones", "late"} = {} =>
      /\ shown \subseteq {tracker.ad}
      /\ \A z \in Ads : view[z] = "sent" => z = tracker.ad
      /\ tracker.view \in {NoZone, tracker.ad}
      /\ \A c \in clicks : c.bills = c.on /\ c.opens = c.on

(***************************************************************************)
(* A recorded view has been reported, or is the one the tracker will       *)
(* report when it is reset or the page is left; its flags say what it has  *)
(* reported.                                                               *)
(***************************************************************************)
Reported(z) == z \in dismissed \/ \E c \in clicks : c.bills = z

Settled ==
    habit \intersect {"early", "late", "zones"} = {} =>
      /\ tracker.clicked => tracker.view # NoZone /\ Reported(tracker.view)
      /\ tracker.sent => tracker.view # NoZone /\ tracker.view \in dismissed
      /\ \A z \in Ads : view[z] = "recorded" => Reported(z) \/ (~closed /\ tracker.view = z)

(***************************************************************************)
(* One load at a time, of the page that is shown, and the context is its,  *)
(* unless it is still being observed.                                      *)
(***************************************************************************)
Busy(l) == load[l].at # "idle"

OnePage ==
    habit \intersect {"navigate", "mutate"} = {} =>
      /\ \A l, m \in Loads : Busy(l) /\ Busy(m) => l = m
      /\ \A l \in Loads : Busy(l) =>
           load[l].url = url /\ context.url = url /\ (auto \/ rendered \intersect ToSet(ZonesOf[url]) # {})
      /\ (\A l \in Loads : load[l].at # "observe") => context.id \in {0, context.url}
      /\ auto /\ interest # "off" => context.url = url
      /\ \A z \in Ads : asked[z] # Unasked => asked[z].context \in {0, asked[z].url}

(***************************************************************************)
(* In automatic mode the first ad is loaded before the visitor is watched, *)
(* and the second when she is interested, in place of the first.           *)
(***************************************************************************)
Watched ==
    /\ interest \in {"off", "tracking", "reached", "asked"}
    /\ interest # "off" => auto
    /\ interest \in {"reached", "asked"} => CalculateScore >= 70

InTurn ==
    auto =>
      /\ rendered = {} => interest = "off" /\ \A l \in Loads : ~Busy(l)
      /\ interest = "off" => \A l, m \in Loads : Busy(l) /\ Busy(m) => l = m
      /\ \A l \in Loads : Busy(l) =>
           \/ interest = "off" /\ load[l].todo = <<First>>
           \/ interest = "asked" /\ load[l].todo = <<Second>>
      /\ interest = "asked" => First \notin shown
      /\ \A z \in Ads : z = Second /\ asked[z] # Unasked => interest = "asked" /\ asked[z].intent

PageInv == PageTypes /\ OneAd /\ Settled /\ OnePage /\ Watched /\ InTurn

LEMMA PageInitInv == PageInit => PageInv
<1> SUFFICES ASSUME PageInit
             PROVE  PageInv
  OBVIOUS
<1>1. PageTypes
  BY DEF PageInit, PageTypes, NoLoad, NewAd, NoMetrics, Metrics
<1>2. /\ \A l \in Loads : ~Busy(l)
      /\ \A z \in Ads : view[z] = "none" /\ asked[z] = Unasked
      /\ shown = {} /\ clicks = {} /\ interest = "off" /\ context.id = 0
      /\ tracker.view = NoZone /\ tracker.clicked = FALSE /\ tracker.sent = FALSE
  BY DEF PageInit, Busy, NoLoad, NewAd
<1> QED
  <2>1. OneAd /\ Settled
    BY <1>2 DEF OneAd, Settled
  <2>2. OnePage
    BY <1>2 DEF OnePage
  <2>3. Watched /\ InTurn
    BY <1>2 DEF Watched, InTurn
  <2> QED
    BY <1>1, <2>1, <2>2, <2>3 DEF PageInv

-----------------------------------------------------------------------------
(***************************************************************************)
(* How loads move.                                                         *)
(***************************************************************************)
LEMMA LoadStarts ==
    ASSUME PageTypes, NEW l \in Loads, NEW zones, NEW observes \in BOOLEAN, StartLoad(l, zones, observes)
    PROVE  /\ ~Busy(l)
           /\ DOMAIN load' = Loads
           /\ load'[l].at = IF observes THEN "observe" ELSE "decide"
           /\ load'[l].url = url /\ load'[l].todo = zones
           /\ {"at", "url", "todo"} \subseteq DOMAIN load'[l]
           /\ \A m \in Loads \ {l} : load'[m] = load[m]
           /\ context'.url = (IF observes THEN url ELSE context.url) /\ context'.id = context.id
           /\ {"url", "id"} \subseteq DOMAIN context'
BY DEF PageTypes, StartLoad, Busy

\* A load goes on to its next call.
Advances(l, at) == load' = [load EXCEPT ![l].at = at]

LEMMA LoadAdvances ==
    ASSUME PageTypes, NEW l \in Loads, NEW at, Advances(l, at)
    PROVE  /\ DOMAIN load' = Loads
           /\ load'[l].at = at /\ load'[l].url = load[l].url /\ load'[l].todo = load[l].todo
           /\ {"at", "url", "todo"} \subseteq DOMAIN load'[l]
           /\ \A m \in Loads \ {l} : load'[m] = load[m]
BY DEF PageTypes, Advances

LEMMA LoadTakesNext ==
    ASSUME PageTypes, NEW l \in Loads, TakeNext(l)
    PROVE  /\ DOMAIN load' = Loads
           /\ load'[l].at = "idle" \/ (load'[l].at = "decide" /\ load'[l].url = load[l].url)
           /\ Len(load[l].todo) = 1 => load'[l].at = "idle"
           /\ {"at", "url", "todo"} \subseteq DOMAIN load'[l]
           /\ \A m \in Loads \ {l} : load'[m] = load[m]
<1>1. CASE Len(load[l].todo) = 1
  BY <1>1 DEF PageTypes, TakeNext, NoLoad
<1>2. CASE Len(load[l].todo) # 1
  <2> DEFINE next == [at |-> "decide", url |-> load[l].url, todo |-> Tail(load[l].todo)]
  <2>1. load' = [load EXCEPT ![l] = next]
    BY <1>2 DEF TakeNext
  <2>2. next.at = "decide" /\ next.url = load[l].url /\ {"at", "url", "todo"} \subseteq DOMAIN next
    OBVIOUS
  <2> HIDE DEF next
  <2> QED
    BY <1>2, <2>1, <2>2 DEF PageTypes
<1> QED
  BY <1>1, <1>2

(***************************************************************************)
(* What the tracker remembers when it is reset, or reports.                *)
(***************************************************************************)
LEMMA Resets ==
    ASSUME NEW z, Reset(z)
    PROVE  /\ tracker'.ad = z /\ tracker'.view = NoZone /\ tracker'.clicked = FALSE /\ tracker'.sent = FALSE
           /\ {"view", "ad", "clicked", "sent"} \subseteq DOMAIN tracker'
           /\ dismissed' = IF Dismissable THEN dismissed \union {tracker.view} ELSE dismissed
BY DEF Reset, NewAd

LEMMA Reports ==
    ASSUME PageTypes, SendDismissBeacon
    PROVE  /\ tracker'.ad = tracker.ad /\ tracker'.view = tracker.view /\ tracker'.clicked = tracker.clicked
           /\ tracker'.sent = (tracker.sent \/ Dismissable)
           /\ {"view", "ad", "clicked", "sent"} \subseteq DOMAIN tracker'
           /\ dismissed' = IF Dismissable THEN dismissed \union {tracker.view} ELSE dismissed
BY DEF PageTypes, SendDismissBeacon

-----------------------------------------------------------------------------
LEMMA PageTypesStay ==
    ASSUME PageTypes, PageNext
    PROVE  PageTypes'
<1>1. ASSUME NEW l \in Loads, InitAutoMode(l) \/ CheckAndLoadAds(l) \/ RequestSecondAd(l)
      PROVE  PageTypes'
  <2>1. UNCHANGED <<auto, view, tracker, metrics, asked>>
    BY <1>1 DEF InitAutoMode, CheckAndLoadAds, RequestSecondAd, reader
  <2>2. UNCHANGED <<load, context>> \/ \E zones : \E observes \in BOOLEAN : StartLoad(l, zones, observes)
    <3>1. CASE InitAutoMode(l)
      BY <3>1 DEF InitAutoMode
    <3>2. CASE CheckAndLoadAds(l)
      <4>1. (context.url # url) \in BOOLEAN
        OBVIOUS
      <4> QED
        BY <3>2, <4>1 DEF CheckAndLoadAds
    <3>3. CASE RequestSecondAd(l)
      BY <3>3 DEF RequestSecondAd
    <3> QED
      BY <1>1, <3>1, <3>2, <3>3
  <2>3. CASE UNCHANGED <<load, context>>
    BY <2>1, <2>3 DEF PageTypes
  <2>4. CASE \E zones : \E observes \in BOOLEAN : StartLoad(l, zones, observes)
    <3>1. /\ DOMAIN load' = Loads /\ \A m \in Loads : {"at", "url", "todo"} \subseteq DOMAIN load'[m]
          /\ {"url", "id"} \subseteq DOMAIN context'
      BY <2>4, LoadStarts DEF PageTypes
    <3> QED
      BY <2>1, <3>1 DEF PageTypes
  <2> QED
    BY <2>2, <2>3, <2>4
<1>2. ASSUME NEW l \in Loads, ObserveContext(l) \/ FetchDecision(l)
      PROVE  PageTypes'
  <2>1. UNCHANGED <<auto, view, tracker, metrics>> /\ DOMAIN asked' = DOMAIN asked
    BY <1>2 DEF ObserveContext, FetchDecision, reader
  <2>2. {"url", "id"} \subseteq DOMAIN context'
    BY <1>2 DEF ObserveContext, FetchDecision, PageTypes
  <2>3. Advances(l, "decide") \/ Advances(l, "answer")
    BY <1>2 DEF ObserveContext, FetchDecision, Advances
  <2>4. DOMAIN load' = Loads /\ \A m \in Loads : {"at", "url", "todo"} \subseteq DOMAIN load'[m]
    BY <2>3, LoadAdvances DEF PageTypes
  <2> QED
    BY <2>1, <2>2, <2>4 DEF PageTypes
<1>3. ASSUME NEW l \in Loads, Render(l) \/ RenderNothing(l)
      PROVE  PageTypes'
  <2>1. UNCHANGED <<auto, metrics, asked, context>> /\ DOMAIN view' = DOMAIN view
    BY <1>3 DEF Render, RenderNothing
  <2>2. DOMAIN load' = Loads /\ \A m \in Loads : {"at", "url", "todo"} \subseteq DOMAIN load'[m]
    BY <1>3, LoadTakesNext DEF PageTypes, Render, RenderNothing
  <2>3. UNCHANGED tracker \/ Reset(Head(load[l].todo))
    BY <1>3 DEF Render, RenderNothing
  <2> QED
    BY <2>1, <2>2, <2>3, Resets DEF PageTypes
<1>4. ASSUME NEW z \in Ads, ViewAnswered(z) \/ ViewFails(z) \/ TrackClick(z)
      PROVE  PageTypes'
  BY <1>4 DEF PageTypes, ViewAnswered, ViewFails, TrackClick, requests, reader
<1>5. CASE Hide \/ Close
  <2>1. UNCHANGED <<auto, requests, view, reader>> /\ SendDismissBeacon
    BY <1>5 DEF Hide, Close
  <2>2. Dismissable \in BOOLEAN
    BY DEF Dismissable
  <2> QED
    BY <2>1, <2>2, Reports DEF PageTypes, requests, reader
<1>6. CASE ComeBack \/ \E u \in Urls : Navigate(u)
  BY <1>6 DEF PageTypes, ComeBack, Navigate, requests, reader
<1>7. CASE HandleScroll \/ Stay \/ HandleCopy \/ HandleDocClick
  <2>1. PICK m : Track(m) /\ m \in Metrics
    BY <1>7 DEF PageTypes, Metrics, HandleScroll, Stay, HandleCopy, HandleDocClick
  <2> QED
    BY <2>1 DEF PageTypes, Track, requests
<1> QED
  BY <1>1, <1>2, <1>3, <1>4, <1>5, <1>6, <1>7 DEF PageNext

LEMMA HabitStays == PageNext => UNCHANGED <<auto, habit>>
<1>1. ASSUME NEW l \in Loads,
             InitAutoMode(l) \/ CheckAndLoadAds(l) \/ RequestSecondAd(l) \/ ObserveContext(l) \/ FetchDecision(l)
               \/ Render(l) \/ RenderNothing(l)
      PROVE  UNCHANGED <<auto, habit>>
  BY <1>1 DEF InitAutoMode, CheckAndLoadAds, RequestSecondAd, ObserveContext, FetchDecision, Render, RenderNothing
<1>2. ASSUME NEW z \in Ads, ViewAnswered(z) \/ ViewFails(z) \/ TrackClick(z)
      PROVE  UNCHANGED <<auto, habit>>
  BY <1>2 DEF ViewAnswered, ViewFails, TrackClick
<1>3. ASSUME Hide \/ ComeBack \/ Close \/ \E u \in Urls : Navigate(u)
      PROVE  UNCHANGED <<auto, habit>>
  BY <1>3 DEF Hide, ComeBack, Close, Navigate
<1>4. ASSUME HandleScroll \/ Stay \/ HandleCopy \/ HandleDocClick
      PROVE  UNCHANGED <<auto, habit>>
  BY <1>4 DEF HandleScroll, Stay, HandleCopy, HandleDocClick, Track
<1> QED
  BY <1>1, <1>2, <1>3, <1>4 DEF PageNext

-----------------------------------------------------------------------------
(***************************************************************************)
(* Steps that touch neither the tracker nor the reports: what is shown may *)
(* go, and a view may fail.                                                *)
(***************************************************************************)
Aside ==
    /\ UNCHANGED <<tracker, clicks, dismissed, closed>>
    /\ shown' \subseteq shown
    /\ \A z \in Ads : view'[z] \in {view[z], "failed"}

LEMMA AsideSteps ==
    ASSUME PageTypes, PageNext
    PROVE  \/ Aside
           \/ \E l \in Loads : Render(l)
           \/ \E z \in Ads : ViewAnswered(z) \/ TrackClick(z)
           \/ Hide \/ ComeBack \/ Close
<1>1. ASSUME NEW l \in Loads,
             InitAutoMode(l) \/ CheckAndLoadAds(l) \/ RequestSecondAd(l) \/ ObserveContext(l) \/ FetchDecision(l)
               \/ RenderNothing(l)
      PROVE  Aside
  BY <1>1 DEF Aside, InitAutoMode, CheckAndLoadAds, RequestSecondAd, ObserveContext, FetchDecision, RenderNothing
<1>2. ASSUME NEW z \in Ads, ViewFails(z)
      PROVE  Aside
  BY <1>2 DEF Aside, ViewFails, PageTypes
<1>3. ASSUME NEW u \in Urls, Navigate(u)
      PROVE  Aside
  BY <1>3 DEF Aside, Navigate
<1>4. ASSUME HandleScroll \/ Stay \/ HandleCopy \/ HandleDocClick
      PROVE  Aside
  BY <1>4 DEF Aside, HandleScroll, Stay, HandleCopy, HandleDocClick, Track
<1> QED
  BY <1>1, <1>2, <1>3, <1>4 DEF PageNext

LEMMA OneAdStays ==
    ASSUME PageTypes, OneAd, PageNext
    PROVE  OneAd'
<1> SUFFICES ASSUME habit \intersect {"zones", "late"} = {}
             PROVE  /\ shown' \subseteq {tracker'.ad}
                    /\ \A z \in Ads : view'[z] = "sent" => z = tracker'.ad
                    /\ tracker'.view \in {NoZone, tracker'.ad}
                    /\ \A c \in clicks' : c.bills = c.on /\ c.opens = c.on
  BY HabitStays DEF OneAd
<1>1. /\ shown \subseteq {tracker.ad}
      /\ \A z \in Ads : view[z] = "sent" => z = tracker.ad
      /\ tracker.view \in {NoZone, tracker.ad}
      /\ \A c \in clicks : c.bills = c.on /\ c.opens = c.on
  BY DEF OneAd
<1>2. CASE Aside
  BY <1>1, <1>2 DEF Aside
<1>3. ASSUME NEW l \in Loads, Render(l)
      PROVE  /\ shown' \subseteq {tracker'.ad}
             /\ \A z \in Ads : view'[z] = "sent" => z = tracker'.ad
             /\ tracker'.view \in {NoZone, tracker'.ad}
             /\ UNCHANGED clicks
  <2> DEFINE z == Head(load[l].todo)
  <2>1. tracker'.ad = z /\ tracker'.view = NoZone
    BY <1>3, Resets DEF Render
  <2>2. shown = {} /\ \A y \in Ads : view[y] # "sent"
    BY <1>3 DEF Render, Does
  <2>3. shown' \subseteq shown \union {z} /\ view' = [view EXCEPT ![z] = "sent"] /\ UNCHANGED clicks
    BY <1>3 DEF Render
  <2> HIDE DEF z
  <2>4. \A y \in Ads : view'[y] = "sent" => y = z
    BY <2>2, <2>3 DEF PageTypes
  <2> QED
    BY <2>1, <2>2, <2>3, <2>4
<1>4. ASSUME NEW z \in Ads, ViewAnswered(z)
      PROVE  /\ UNCHANGED <<shown, clicks>> /\ tracker'.ad = tracker.ad /\ tracker'.view = tracker'.ad
             /\ \A y \in Ads : view'[y] = "sent" => view[y] = "sent"
  BY <1>1, <1>4 DEF ViewAnswered, PageTypes
<1>5. ASSUME NEW z \in Ads, TrackClick(z)
      PROVE  /\ UNCHANGED <<shown, view>> /\ tracker'.ad = tracker.ad /\ tracker'.view = tracker.view
             /\ \A c \in clicks' : c \in clicks \/ (c.bills = c.on /\ c.opens = c.on)
  <2>1. UNCHANGED <<shown, view>> /\ tracker'.ad = tracker.ad /\ tracker'.view = tracker.view
    BY <1>5 DEF TrackClick, PageTypes
  <2>2. z = tracker.ad
    BY <1>1, <1>5 DEF TrackClick
  <2> QED
    BY <1>1, <1>5, <2>1, <2>2 DEF TrackClick
<1>6. ASSUME Hide \/ ComeBack \/ Close
      PROVE  UNCHANGED <<shown, view, clicks>> /\ tracker'.ad = tracker.ad /\ tracker'.view = tracker.view
  <2>1. CASE Hide \/ Close
    BY <2>1, Reports DEF Hide, Close
  <2>2. CASE ComeBack
    BY <2>2 DEF ComeBack, PageTypes
  <2> QED
    BY <1>6, <2>1, <2>2
<1> QED
  BY <1>1, <1>2, <1>3, <1>4, <1>5, <1>6, AsideSteps

-----------------------------------------------------------------------------
LEMMA SettledStays ==
    ASSUME PageTypes, OneAd, Settled, PageNext
    PROVE  Settled'
<1> SUFFICES ASSUME habit \intersect {"early", "late", "zones"} = {}
             PROVE  /\ tracker'.clicked => tracker'.view # NoZone /\ Reported(tracker.view)'
                    /\ tracker'.sent => tracker'.view # NoZone /\ tracker'.view \in dismissed'
                    /\ \A z \in Ads : view'[z] = "recorded" => Reported(z)' \/ (~closed' /\ tracker'.view = z)
  BY HabitStays DEF Settled
<1>1. /\ tracker.clicked => tracker.view # NoZone /\ Reported(tracker.view)
      /\ tracker.sent => tracker.view # NoZone /\ tracker.view \in dismissed
      /\ \A z \in Ads : view[z] = "recorded" => Reported(z) \/ (~closed /\ tracker.view = z)
  BY DEF Settled
<1>2. /\ \A z \in Ads : view[z] = "sent" => z = tracker.ad
      /\ tracker.view \in {NoZone, tracker.ad}
  BY DEF OneAd
<1>3. NoZone \notin Ads
  BY PageAssumption DEF Ads
<1>4. CASE Aside
  BY <1>1, <1>4 DEF Aside, Reported
\* When the tracker's view is dismissed, every recorded view has been reported.
<1>5. ASSUME dismissed' = IF Dismissable THEN dismissed \union {tracker.view} ELSE dismissed, UNCHANGED clicks
      PROVE  /\ \A z \in Ads : view[z] = "recorded" => Reported(z)'
             /\ \A z : Reported(z) => Reported(z)'
  BY <1>1, <1>3, <1>5 DEF Dismissable, Reported, PageTypes
<1>6. ASSUME NEW l \in Loads, Render(l)
      PROVE  /\ ~tracker'.clicked /\ ~tracker'.sent
             /\ \A z \in Ads : view'[z] = "recorded" => Reported(z)'
  <2>1. /\ tracker'.clicked = FALSE /\ tracker'.sent = FALSE
        /\ dismissed' = IF Dismissable THEN dismissed \union {tracker.view} ELSE dismissed
    BY <1>6, Resets DEF Render
  <2>2. view' = [view EXCEPT ![Head(load[l].todo)] = "sent"] /\ UNCHANGED clicks
    BY <1>6 DEF Render
  <2>3. \A z \in Ads : view'[z] = "recorded" => view[z] = "recorded"
    BY <2>2 DEF PageTypes
  <2> QED
    BY <1>5, <2>1, <2>2, <2>3
<1>7. ASSUME Hide \/ Close
      PROVE  /\ tracker'.clicked => tracker'.view # NoZone /\ Reported(tracker.view)'
             /\ tracker'.sent => tracker'.view # NoZone /\ tracker'.view \in dismissed'
             /\ \A z \in Ads : view'[z] = "recorded" => Reported(z)'
  <2>1. /\ tracker'.view = tracker.view /\ tracker'.clicked = tracker.clicked
        /\ tracker'.sent = (tracker.sent \/ Dismissable)
        /\ dismissed' = IF Dismissable THEN dismissed \union {tracker.view} ELSE dismissed
        /\ UNCHANGED <<clicks, view>>
    BY <1>7, Reports DEF Hide, Close
  <2>2. tracker'.clicked => tracker'.view # NoZone /\ Reported(tracker.view)'
    BY <1>1, <2>1 DEF Reported
  <2>3. tracker'.sent => tracker'.view # NoZone /\ tracker'.view \in dismissed'
    BY <1>1, <2>1 DEF Dismissable
  <2>4. \A z \in Ads : view'[z] = "recorded" => Reported(z)'
    BY <1>5, <2>1
  <2> QED
    BY <2>2, <2>3, <2>4
<1>8. CASE ComeBack
  BY <1>1, <1>8 DEF ComeBack, PageTypes, Reported
<1>9. ASSUME NEW z \in Ads, ViewAnswered(z)
      PROVE  /\ tracker'.clicked => tracker'.view # NoZone /\ Reported(tracker.view)'
             /\ tracker'.sent => tracker'.view # NoZone /\ tracker'.view \in dismissed'
             /\ \A y \in Ads : view'[y] = "recorded" => Reported(y)' \/ (~closed' /\ tracker'.view = y)
  <2>1. /\ tracker'.view = z /\ tracker'.clicked = tracker.clicked /\ tracker'.sent = tracker.sent
        /\ view[z] = "sent" /\ UNCHANGED <<clicks, dismissed, closed>> /\ ~closed
        /\ \A y \in Ads \ {z} : view'[y] = view[y]
    BY <1>9 DEF ViewAnswered, PageTypes
  <2>2. tracker.view \in {NoZone, z}
    BY <1>2, <2>1
  <2>3. \A y : Reported(y)' = Reported(y)
    BY <2>1 DEF Reported
  <2>4. tracker'.clicked => tracker'.view # NoZone /\ Reported(tracker.view)'
    BY <1>1, <1>3, <2>1, <2>2 DEF Reported
  <2>5. tracker'.sent => tracker'.view # NoZone /\ tracker'.view \in dismissed'
    <3>1. tracker.sent => tracker.view = z
      BY <1>1, <2>2
    <3> QED
      BY <1>1, <1>3, <2>1, <3>1
  <2>6. \A y \in Ads : view'[y] = "recorded" => Reported(y) \/ tracker'.view = y
    BY <1>1, <1>3, <2>1, <2>2
  <2> QED
    BY <2>1, <2>3, <2>4, <2>5, <2>6
<1>10. ASSUME NEW z \in Ads, TrackClick(z)
      PROVE  /\ tracker'.clicked => tracker'.view # NoZone /\ Reported(tracker.view)'
             /\ tracker'.sent => tracker'.view # NoZone /\ tracker'.view \in dismissed'
             /\ \A y \in Ads : view'[y] = "recorded" => Reported(y)' \/ (~closed' /\ tracker'.view = y)
  <2>1. tracker.view # NoZone
    BY <1>10 DEF TrackClick, Does
  <2> DEFINE click == [on |-> z, bills |-> tracker.view, opens |-> tracker.ad]
  <2>2. /\ tracker'.view = tracker.view /\ tracker'.sent = tracker.sent
        /\ UNCHANGED <<view, dismissed, closed>> /\ clicks' = clicks \union {click}
    BY <1>10, <2>1 DEF TrackClick, PageTypes
  <2>3. click.bills = tracker.view
    OBVIOUS
  <2>4. Reported(tracker.view)' /\ \A y : Reported(y) => Reported(y)'
    BY <2>2, <2>3 DEF Reported
  <2> QED
    BY <1>1, <2>1, <2>2, <2>4
<1> QED
  BY <1>4, <1>6, <1>7, <1>8, <1>9, <1>10, AsideSteps

-----------------------------------------------------------------------------
(***************************************************************************)
(* The score only grows.                                                   *)
(***************************************************************************)
LEMMA ScoreGrows ==
    ASSUME PageTypes, HandleScroll \/ Stay \/ HandleCopy \/ HandleDocClick
    PROVE  /\ CalculateScore \in Int /\ CalculateScore' \in Int
           /\ CalculateScore' >= CalculateScore
<1>1. PICK n \in Metrics : n = metrics
  BY DEF PageTypes
<1>2. PICK m \in Metrics :
        /\ m = metrics'
        /\ m.scroll >= n.scroll /\ m.seconds >= n.seconds
        /\ m.copies >= n.copies /\ m.code >= n.code /\ m.links >= n.links
  <2>1. CASE HandleScroll
    <3>1. PICK depth \in {50, 80} : depth > n.scroll /\ metrics' = [n EXCEPT !.scroll = depth]
      BY <1>1, <2>1 DEF HandleScroll, Track
    <3> QED
      BY <3>1 DEF Metrics
  <2>2. CASE Stay
    <3>1. metrics' = [n EXCEPT !.seconds = n.seconds + 40]
      BY <1>1, <2>2 DEF Stay, Track
    <3> QED
      BY <3>1 DEF Metrics
  <2>3. CASE HandleCopy
    <3>1. metrics' \in {[n EXCEPT !.copies = n.copies + 1], [n EXCEPT !.code = n.code + 1]}
      BY <1>1, <2>3 DEF HandleCopy, Track
    <3> QED
      BY <3>1 DEF Metrics
  <2>4. CASE HandleDocClick
    <3>1. metrics' = [n EXCEPT !.links = n.links + 1]
      BY <1>1, <2>4 DEF HandleDocClick, Track
    <3> QED
      BY <3>1 DEF Metrics
  <2> QED
    BY <2>1, <2>2, <2>3, <2>4
<1> DEFINE Scroll(k) == IF k.scroll >= 80 THEN 30 ELSE IF k.scroll >= 50 THEN 20 ELSE 0
<1>3. /\ n.scroll \in Int /\ n.seconds \in Nat /\ n.copies \in Nat /\ n.code \in Nat /\ n.links \in Nat
      /\ m.scroll \in Int /\ m.seconds \in Nat /\ m.copies \in Nat /\ m.code \in Nat /\ m.links \in Nat
  BY DEF Metrics
<1>4. Scroll(n) \in Int /\ Scroll(m) \in Int /\ Scroll(m) >= Scroll(n)
  BY <1>2, <1>3
<1>5. /\ n.seconds \div 2 \in Int /\ m.seconds \div 2 \in Int /\ m.seconds \div 2 >= n.seconds \div 2
  BY <1>2, <1>3
<1>6. /\ Capped(n.seconds \div 2, 40) \in Int /\ Capped(m.seconds \div 2, 40) \in Int
      /\ Capped(m.seconds \div 2, 40) >= Capped(n.seconds \div 2, 40)
  BY <1>5 DEF Capped
<1>7. /\ CalculateScore = Scroll(n) + Capped(n.seconds \div 2, 40) + 5 * n.copies + 15 * n.code + 10 * n.links
      /\ CalculateScore' = Scroll(m) + Capped(m.seconds \div 2, 40) + 5 * m.copies + 15 * m.code + 10 * m.links
  BY <1>1, <1>2 DEF CalculateScore
<1> HIDE DEF Scroll
<1> QED
  BY <1>2, <1>3, <1>4, <1>6, <1>7

LEMMA TrackedStep ==
    ASSUME HandleScroll \/ Stay \/ HandleCopy \/ HandleDocClick
    PROVE  \E m : Track(m)
BY DEF HandleScroll, Stay, HandleCopy, HandleDocClick

LEMMA WatchedStays ==
    ASSUME PageTypes, Watched, PageNext
    PROVE  Watched'
<1>1. UNCHANGED auto
  BY HabitStays
<1>2. ASSUME UNCHANGED <<interest, metrics>>
      PROVE  Watched'
  BY <1>1, <1>2 DEF Watched, CalculateScore
<1>3. ASSUME NEW l \in Loads, InitAutoMode(l) \/ CheckAndLoadAds(l) \/ ObserveContext(l) \/ FetchDecision(l)
      PROVE  UNCHANGED <<interest, metrics>>
  BY <1>3 DEF InitAutoMode, CheckAndLoadAds, ObserveContext, FetchDecision, reader
<1>4. ASSUME NEW l \in Loads, RequestSecondAd(l)
      PROVE  Watched'
  <2>1. interest = "reached" /\ interest' = "asked" /\ UNCHANGED metrics
    BY <1>4 DEF RequestSecondAd
  <2>2. CalculateScore' = CalculateScore
    BY <2>1 DEF CalculateScore
  <2> QED
    BY <1>1, <2>1, <2>2 DEF Watched
<1>5. ASSUME NEW l \in Loads, Render(l) \/ RenderNothing(l)
      PROVE  Watched'
  <2>1. WatchReader /\ UNCHANGED metrics
    BY <1>5 DEF Render, RenderNothing
  <2>2. CalculateScore' = CalculateScore
    BY <2>1 DEF CalculateScore
  <2> QED
    BY <1>1, <2>1, <2>2 DEF Watched, WatchReader
<1>6. ASSUME NEW z \in Ads, ViewAnswered(z) \/ ViewFails(z) \/ TrackClick(z)
      PROVE  UNCHANGED <<interest, metrics>>
  BY <1>6 DEF ViewAnswered, ViewFails, TrackClick, reader
<1>7. ASSUME Hide \/ ComeBack \/ Close \/ \E u \in Urls : Navigate(u)
      PROVE  UNCHANGED <<interest, metrics>>
  BY <1>7 DEF Hide, ComeBack, Close, Navigate, reader
<1>8. CASE HandleScroll \/ Stay \/ HandleCopy \/ HandleDocClick
  <2>1. /\ interest \in {"tracking", "reached"}
        /\ interest' = IF CalculateScore' >= 70 THEN "reached" ELSE interest
    BY <1>8, TrackedStep DEF Track
  <2>2. CalculateScore >= 70 => CalculateScore' >= 70
    BY <1>8, ScoreGrows
  <2> QED
    BY <1>1, <2>1, <2>2 DEF Watched
<1> QED
  BY <1>2, <1>3, <1>4, <1>5, <1>6, <1>7, <1>8 DEF PageNext

-----------------------------------------------------------------------------
\* Steps that load nothing, ask nothing and fill nothing, on the same page.
Rests ==
    /\ UNCHANGED <<load, rendered, asked, context, url>>
    /\ shown' \subseteq shown
    /\ interest' = interest \/ {interest, interest'} \subseteq {"tracking", "reached"}

LEMMA RestingSteps ==
    ASSUME PageNext
    PROVE  \/ Rests
           \/ \E l \in Loads : \/ InitAutoMode(l) \/ CheckAndLoadAds(l) \/ RequestSecondAd(l)
                               \/ ObserveContext(l) \/ FetchDecision(l) \/ Render(l) \/ RenderNothing(l)
           \/ \E u \in Urls : Navigate(u)
<1>1. ASSUME NEW z \in Ads, ViewAnswered(z) \/ ViewFails(z) \/ TrackClick(z)
      PROVE  Rests
  BY <1>1 DEF Rests, ViewAnswered, ViewFails, TrackClick, reader, requests
<1>2. ASSUME Hide \/ ComeBack \/ Close
      PROVE  Rests
  BY <1>2 DEF Rests, Hide, ComeBack, Close, reader, requests
<1>3. ASSUME HandleScroll \/ Stay \/ HandleCopy \/ HandleDocClick
      PROVE  Rests
  BY <1>3, TrackedStep DEF Rests, Track, requests
<1> QED
  BY <1>1, <1>2, <1>3 DEF PageNext

LEMMA InTurnStays ==
    ASSUME PageTypes, Watched, InTurn, PageNext
    PROVE  InTurn'
<1> SUFFICES ASSUME auto
             PROVE  /\ rendered' = {} => interest' = "off" /\ \A l \in Loads : ~Busy(l)'
                    /\ interest' = "off" => \A l, m \in Loads : Busy(l)' /\ Busy(m)' => l = m
                    /\ \A l \in Loads : Busy(l)' =>
                         \/ interest' = "off" /\ load'[l].todo = <<First>>
                         \/ interest' = "asked" /\ load'[l].todo = <<Second>>
                    /\ interest' = "asked" => First \notin shown'
                    /\ \A z \in Ads : z = Second /\ asked'[z] # Unasked => interest' = "asked" /\ asked'[z].intent
  BY HabitStays DEF InTurn
<1>1. /\ rendered = {} => interest = "off" /\ \A l \in Loads : ~Busy(l)
      /\ interest = "off" => \A l, m \in Loads : Busy(l) /\ Busy(m) => l = m
      /\ \A l \in Loads : Busy(l) =>
           \/ interest = "off" /\ load[l].todo = <<First>>
           \/ interest = "asked" /\ load[l].todo = <<Second>>
      /\ interest = "asked" => First \notin shown
      /\ \A z \in Ads : z = Second /\ asked[z] # Unasked => interest = "asked" /\ asked[z].intent
  BY DEF InTurn
<1>2. First # Second
  BY PageAssumption DEF First, Second
<1> DEFINE Goal ==
             /\ rendered' = {} => interest' = "off" /\ \A l \in Loads : ~Busy(l)'
             /\ interest' = "off" => \A l, m \in Loads : Busy(l)' /\ Busy(m)' => l = m
             /\ \A l \in Loads : Busy(l)' =>
                  \/ interest' = "off" /\ load'[l].todo = <<First>>
                  \/ interest' = "asked" /\ load'[l].todo = <<Second>>
             /\ interest' = "asked" => First \notin shown'
             /\ \A z \in Ads : z = Second /\ asked'[z] # Unasked => interest' = "asked" /\ asked'[z].intent
<1>3. CASE Rests
  BY <1>1, <1>3 DEF Rests, Busy
<1>4. ASSUME NEW l \in Loads, InitAutoMode(l)
      PROVE  Goal
  <2>1. /\ rendered = {} /\ rendered' = {First} /\ StartLoad(l, <<First>>, TRUE)
        /\ UNCHANGED <<interest, shown, asked>>
    BY <1>4 DEF InitAutoMode, reader
  <2>2. interest = "off" /\ \A m \in Loads : ~Busy(m)
    BY <1>1, <2>1
  <2>3. load'[l].todo = <<First>> /\ \A m \in Loads \ {l} : ~Busy(m)'
    BY <2>1, <2>2, LoadStarts DEF Busy
  <2> QED
    BY <1>1, <2>1, <2>2, <2>3
<1>5. ASSUME NEW l \in Loads, RequestSecondAd(l)
      PROVE  Goal
  <2>1. /\ interest = "reached" /\ interest' = "asked" /\ shown' = shown \ {First} /\ UNCHANGED <<rendered, asked>>
        /\ StartLoad(l, <<Second>>, FALSE) \/ UNCHANGED load
    BY <1>5 DEF RequestSecondAd
  <2>2. rendered # {} /\ \A m \in Loads : ~Busy(m)
    BY <1>1, <2>1
  <2>3. \A m \in Loads : Busy(m)' => load'[m].todo = <<Second>>
    BY <2>1, <2>2, LoadStarts DEF Busy
  <2> QED
    BY <1>1, <2>1, <2>2, <2>3
<1>6. ASSUME NEW l \in Loads, ObserveContext(l)
      PROVE  Goal
  <2>1. Busy(l) /\ Advances(l, "decide") /\ UNCHANGED <<rendered, interest, shown, asked>>
    BY <1>6 DEF ObserveContext, Busy, Advances, reader
  <2>2. \A m \in Loads : (Busy(m)' = Busy(m)) /\ load'[m].todo = load[m].todo
    BY <2>1, LoadAdvances DEF Busy
  <2> QED
    BY <1>1, <2>1, <2>2
<1>7. ASSUME NEW l \in Loads, FetchDecision(l)
      PROVE  Goal
  <2>1. Busy(l) /\ Advances(l, "answer") /\ UNCHANGED <<rendered, interest, shown>>
    BY <1>7 DEF FetchDecision, Busy, Advances, reader
  <2>2. \A m \in Loads : (Busy(m)' = Busy(m)) /\ load'[m].todo = load[m].todo
    BY <2>1, LoadAdvances DEF Busy
  <2>3. \A z \in Ads : z = Second /\ asked'[z] # Unasked => interest = "asked" /\ asked'[z].intent
    <3> SUFFICES ASSUME Second \in Ads, asked'[Second] # Unasked
                 PROVE  interest = "asked" /\ asked'[Second].intent
      OBVIOUS
    <3> DEFINE z == Head(load[l].todo)
               entry == [url |-> load[l].url, context |-> context.id,
                         score |-> IF auto /\ z = Second THEN CalculateScore ELSE 0,
                         intent |-> (auto /\ z = Second) /\ IsHighIntent]
    <3>1. asked' = [asked EXCEPT ![z] = entry]
      BY <1>7 DEF FetchDecision
    <3>2. entry.intent = ((auto /\ z = Second) /\ IsHighIntent)
      OBVIOUS
    <3>3. \/ interest = "off" /\ load[l].todo = <<First>>
          \/ interest = "asked" /\ load[l].todo = <<Second>>
      BY <1>1, <2>1
    <3>4. z \in {First, Second} /\ (z = Second => interest = "asked")
      BY <1>2, <3>3
    <3> HIDE DEF z, entry
    <3>5. CASE z = Second
      <4>1. asked'[Second] = entry
        BY <3>1, <3>5 DEF PageTypes
      <4>2. IsHighIntent
        BY <3>4, <3>5 DEF Watched, IsHighIntent
      <4> QED
        BY <3>2, <3>4, <3>5, <4>1, <4>2
    <3>6. CASE z # Second
      <4>1. asked'[Second] = asked[Second]
        BY <3>1, <3>6 DEF PageTypes
      <4> QED
        BY <1>1, <4>1
    <3> QED
      BY <3>5, <3>6
  <2> QED
    BY <1>1, <2>1, <2>2, <2>3
<1>8. ASSUME NEW l \in Loads, Render(l) \/ RenderNothing(l)
      PROVE  Goal
  <2> DEFINE z == Head(load[l].todo)
  <2>1. /\ Busy(l) /\ TakeNext(l) /\ UNCHANGED <<rendered, asked>> /\ shown' \subseteq shown \union {z}
        /\ interest' = IF interest = "off" THEN "tracking" ELSE interest
    BY <1>8 DEF Render, RenderNothing, Busy, WatchReader
  <2>2. \/ interest = "off" /\ load[l].todo = <<First>>
        \/ interest = "asked" /\ load[l].todo = <<Second>>
    BY <1>1, <2>1
  <2>3. Len(load[l].todo) = 1 /\ (interest = "asked" => z = Second)
    BY <2>2
  <2>4. ~Busy(l)' /\ \A m \in Loads \ {l} : load'[m] = load[m]
    BY <2>1, <2>3, LoadTakesNext DEF Busy
  <2> HIDE DEF z
  <2>5. rendered # {}
    BY <1>1, <2>1
  <2>6. CASE interest = "off"
    <3>1. interest' = "tracking" /\ \A m \in Loads : ~Busy(m)'
      BY <1>1, <2>1, <2>4, <2>6 DEF Busy
    <3> QED
      BY <1>1, <2>1, <2>5, <2>6, <3>1
  <2>7. CASE interest = "asked"
    <3>1. \A m \in Loads : Busy(m)' => Busy(m) /\ load'[m] = load[m]
      BY <2>4 DEF Busy
    <3> QED
      BY <1>1, <1>2, <2>1, <2>3, <2>5, <2>7, <3>1
  <2> QED
    BY <2>2, <2>6, <2>7
<1>9. ASSUME NEW l \in Loads, CheckAndLoadAds(l)
      PROVE  Goal
  BY <1>9 DEF CheckAndLoadAds
<1>10. ASSUME NEW u \in Urls, Navigate(u)
       PROVE  Goal
  BY <1>10 DEF Navigate
<1> QED
  BY <1>3, <1>4, <1>5, <1>6, <1>7, <1>8, <1>9, <1>10, RestingSteps

-----------------------------------------------------------------------------
LEMMA ZonesAreOfThePage ==
    ASSUME NEW zones \in NewZones
    PROVE  ToSet(zones) \intersect ToSet(ZonesOf[url]) # {}
<1> DEFINE Z      == ZonesOf[url]
           places == {i \in DOMAIN Z : Z[i] \notin rendered}
<1>1. \E i \in DOMAIN Z : Z[i] \in ToSet(zones)
  <2>1. CASE \E i \in places : zones = <<Z[i]>>
    <3>1. PICK i \in places : zones = <<Z[i]>>
      BY <2>1
    <3>2. zones[1] = Z[i] /\ 1 \in DOMAIN zones
      BY <3>1
    <3> QED
      BY <3>2 DEF ToSet
  <2>2. CASE \E p \in places \X places : zones = <<Z[p[1]], Z[p[2]]>>
    <3>1. PICK p \in places \X places : zones = <<Z[p[1]], Z[p[2]]>>
      BY <2>2
    <3>2. zones[1] = Z[p[1]] /\ 1 \in DOMAIN zones /\ p[1] \in DOMAIN Z
      BY <3>1
    <3> QED
      BY <3>2 DEF ToSet
  <2> QED
    BY <2>1, <2>2 DEF NewZones
<1> QED
  BY <1>1 DEF ToSet

LEMMA OnePageStays ==
    ASSUME PageTypes, Watched, InTurn, OnePage, PageNext
    PROVE  OnePage'
<1> DEFINE Quiet == \A l \in Loads : load[l].at # "observe"
           Goal ==
             /\ \A l, m \in Loads : Busy(l)' /\ Busy(m)' => l = m
             /\ \A l \in Loads : Busy(l)' =>
                  load'[l].url = url' /\ context'.url = url' /\ (auto \/ rendered' \intersect ToSet(ZonesOf[url']) # {})
             /\ Quiet' => context'.id \in {0, context'.url}
             /\ auto /\ interest' # "off" => context'.url = url'
             /\ \A z \in Ads : asked'[z] # Unasked => asked'[z].context \in {0, asked'[z].url}
<1> SUFFICES ASSUME habit \intersect {"navigate", "mutate"} = {}
             PROVE  Goal
  BY HabitStays DEF OnePage
<1>1. /\ \A l, m \in Loads : Busy(l) /\ Busy(m) => l = m
      /\ \A l \in Loads : Busy(l) =>
           load[l].url = url /\ context.url = url /\ (auto \/ rendered \intersect ToSet(ZonesOf[url]) # {})
      /\ Quiet => context.id \in {0, context.url}
      /\ auto /\ interest # "off" => context.url = url
      /\ \A z \in Ads : asked[z] # Unasked => asked[z].context \in {0, asked[z].url}
  BY DEF OnePage
\* Nothing is loaded, and a load begins.
<1>2. ASSUME NEW l \in Loads, NEW zones, NEW observes \in BOOLEAN, StartLoad(l, zones, observes),
             \A m \in Loads : ~Busy(m),
             observes \/ context.url = url, UNCHANGED <<url, asked>>,
             auto \/ rendered' \intersect ToSet(ZonesOf[url]) # {}
      PROVE  Goal
  <2>1. /\ load'[l].at = (IF observes THEN "observe" ELSE "decide") /\ load'[l].url = url
        /\ \A m \in Loads \ {l} : ~Busy(m)'
        /\ context'.url = url /\ context'.id = context.id
    BY <1>2, LoadStarts DEF Busy
  <2>2. Quiet
    BY <1>2 DEF Busy
  <2>3. Quiet' => ~observes
    BY <2>1
  <2> QED
    BY <1>1, <1>2, <2>1, <2>2, <2>3
<1>3. CASE Rests
  <2>1. auto /\ interest' # "off" => interest # "off"
    BY <1>3 DEF Rests
  <2> QED
    BY <1>1, <1>3, <2>1 DEF Rests, Busy
<1>4. ASSUME NEW l \in Loads, InitAutoMode(l)
      PROVE  Goal
  <2>1. StartLoad(l, <<First>>, TRUE) /\ auto /\ rendered = {} /\ UNCHANGED <<url, asked>>
    BY <1>4 DEF InitAutoMode
  <2>2. \A m \in Loads : ~Busy(m)
    BY <2>1 DEF InTurn
  <2> HIDE DEF Goal
  <2> QED
    BY <1>2, <2>1, <2>2
<1>5. ASSUME NEW l \in Loads, CheckAndLoadAds(l)
      PROVE  Goal
  <2>1. /\ ~auto /\ rendered \intersect ToSet(ZonesOf[url]) = {} /\ UNCHANGED <<url, asked>>
    BY <1>5 DEF CheckAndLoadAds, Does
  <2>2. PICK zones \in NewZones : rendered' = rendered \union ToSet(zones) /\ StartLoad(l, zones, context.url # url)
    BY <1>5 DEF CheckAndLoadAds
  <2>3. \A m \in Loads : ~Busy(m)
    BY <1>1, <2>1
  <2>4. rendered' \intersect ToSet(ZonesOf[url]) # {}
    BY <2>2, ZonesAreOfThePage
  <2>5. (context.url # url) \in BOOLEAN /\ ((context.url # url) \/ context.url = url)
    OBVIOUS
  <2> HIDE DEF Goal
  <2> QED
    BY <1>2, <2>1, <2>2, <2>3, <2>4, <2>5
<1>6. ASSUME NEW l \in Loads, RequestSecondAd(l)
      PROVE  Goal
  <2>1. /\ interest = "reached" /\ auto /\ UNCHANGED <<url, asked, rendered>>
        /\ StartLoad(l, <<Second>>, FALSE) \/ UNCHANGED <<load, context>>
    BY <1>6 DEF RequestSecondAd, Watched
  <2>2. /\ \A m \in Loads : ~Busy(m)
        /\ context.url = url
    BY <1>1, <2>1 DEF InTurn
  <2>3. CASE StartLoad(l, <<Second>>, FALSE)
    <3> HIDE DEF Goal
    <3> QED
      BY <1>2, <2>1, <2>2, <2>3
  <2>4. CASE UNCHANGED <<load, context>>
    BY <1>1, <2>1, <2>2, <2>4 DEF Busy
  <2> QED
    BY <2>1, <2>3, <2>4
<1>7. ASSUME NEW l \in Loads, ObserveContext(l)
      PROVE  Goal
  <2>1. /\ Busy(l) /\ Advances(l, "decide") /\ UNCHANGED <<url, rendered, interest, asked>>
        /\ context' \in {[context EXCEPT !.id = load[l].url], [context EXCEPT !.id = 0]}
    BY <1>7 DEF ObserveContext, Busy, Advances, reader
  <2>2. /\ \A m \in Loads : (Busy(m)' = Busy(m)) /\ load'[m].url = load[m].url
    BY <2>1, LoadAdvances DEF Busy
  <2>3. load[l].url = url /\ context.url = url
    BY <1>1, <2>1
  <2>4. context'.url = url /\ context'.id \in {0, url}
    BY <2>1, <2>3 DEF PageTypes
  <2>5. \A m \in Loads : Busy(m)' =>
          load'[m].url = url' /\ (auto \/ rendered' \intersect ToSet(ZonesOf[url']) # {})
    BY <1>1, <2>1, <2>2
  <2> QED
    BY <1>1, <2>1, <2>2, <2>4, <2>5
<1>8. ASSUME NEW l \in Loads, FetchDecision(l)
      PROVE  Goal
  <2>1. /\ Busy(l) /\ load[l].at = "decide" /\ Advances(l, "answer") /\ UNCHANGED <<url, rendered, interest, context>>
    BY <1>8 DEF FetchDecision, Busy, Advances, reader
  <2>2. /\ \A m \in Loads : (Busy(m)' = Busy(m)) /\ load'[m].url = load[m].url
    BY <2>1, LoadAdvances DEF Busy
  <2>3. Quiet
    BY <1>1, <2>1 DEF Busy
  <2>4. load[l].url = context.url /\ context.id \in {0, context.url}
    BY <1>1, <2>1, <2>3
  <2>5. \A z \in Ads : asked'[z] # Unasked => asked'[z].context \in {0, asked'[z].url}
    <3> DEFINE z == Head(load[l].todo)
               entry == [url |-> load[l].url, context |-> context.id,
                         score |-> IF auto /\ z = Second THEN CalculateScore ELSE 0,
                         intent |-> (auto /\ z = Second) /\ IsHighIntent]
    <3>1. asked' = [asked EXCEPT ![z] = entry]
      BY <1>8 DEF FetchDecision
    <3>2. entry.context \in {0, entry.url}
      BY <2>4
    <3> HIDE DEF z, entry
    <3>3. \A y \in Ads : asked'[y] \in {asked[y], entry}
      BY <3>1 DEF PageTypes
    <3> QED
      BY <1>1, <3>2, <3>3
  <2> QED
    BY <1>1, <2>1, <2>2, <2>3, <2>5
<1>9. ASSUME NEW l \in Loads, Render(l) \/ RenderNothing(l)
      PROVE  Goal
  <2>1. /\ Busy(l) /\ load[l].at = "answer" /\ TakeNext(l) /\ UNCHANGED <<url, rendered, asked, context>>
    BY <1>9 DEF Render, RenderNothing, Busy
  <2>2. /\ \A m \in Loads : Busy(m)' => Busy(m) /\ load'[m].url = load[m].url
    BY <2>1, LoadTakesNext DEF Busy
  <2>3. Quiet /\ context.url = url
    BY <1>1, <2>1 DEF Busy
  <2> QED
    BY <1>1, <2>1, <2>2, <2>3
<1>10. ASSUME NEW u \in Urls, Navigate(u)
       PROVE  Goal
  <2>1. ~auto /\ (\A l \in Loads : ~Busy(l)) /\ UNCHANGED <<load, context, asked>>
    BY <1>10 DEF Navigate, Loading, Busy, Does, requests
  <2> QED
    BY <1>1, <2>1 DEF Busy
<1> QED
  BY <1>3, <1>4, <1>5, <1>6, <1>7, <1>8, <1>9, <1>10, RestingSteps

-----------------------------------------------------------------------------
LEMMA PageNextInv == PageInv /\ [PageNext]_pageVars => PageInv'
<1>1. ASSUME PageInv, PageNext
      PROVE  PageInv'
  BY <1>1, PageTypesStay, OneAdStays, SettledStays, OnePageStays, WatchedStays, InTurnStays DEF PageInv
<1>2. ASSUME PageInv, UNCHANGED pageVars
      PROVE  PageInv'
  <2> USE <1>2 DEF PageInv, pageVars, requests, reader
  <2>1. PageTypes' /\ OneAd'
    BY DEF PageTypes, OneAd
  <2>2. Settled'
    BY DEF Settled, Reported
  <2>3. OnePage'
    BY DEF OnePage, Busy
  <2>4. Watched' /\ InTurn'
    BY DEF Watched, InTurn, Busy, CalculateScore
  <2> QED
    BY <2>1, <2>2, <2>3, <2>4
<1> QED
  BY <1>1, <1>2

(***************************************************************************)
(* The tracker the ads share bills and opens the ad that was clicked,      *)
(* while one is shown at a time and is answered before the next.           *)
(***************************************************************************)
THEOREM ClicksAreOfTheirAd == PageSpec => []ClickIsOfItsAd
<1>1. PageInv => ClickIsOfItsAd
  BY DEF PageInv, OneAd, ClickIsOfItsAd
<1> QED
  BY <1>1, PageInitInv, PageNextInv, PTL DEF PageSpec

(***************************************************************************)
(* When the page is left, by whatever way and however often it was hidden  *)
(* before, no recorded view is without a click or a dismissal.             *)
(***************************************************************************)
THEOREM PageLeavesNoView == PageSpec => []ViewsAreSettled
<1>1. PageInv => ViewsAreSettled
  <2> SUFFICES ASSUME PageInv, closed, habit \intersect {"early", "late", "zones"} = {},
                      NEW z \in Ads, view[z] = "recorded"
               PROVE  z \in dismissed \union {c.bills : c \in clicks}
    BY DEF ViewsAreSettled
  <2>1. Reported(z)
    BY DEF PageInv, Settled
  <2> QED
    BY <2>1 DEF Reported
<1> QED
  BY <1>1, PageInitInv, PageNextInv, PTL DEF PageSpec

(***************************************************************************)
(* Every decision is asked with the context of its page or none, and the   *)
(* second ad of a page for a reader of high intent, after the first went.  *)
(***************************************************************************)
THEOREM DecisionsKnowTheirPage == PageSpec => []DecisionsAreOfTheirPage
<1>1. PageInv => DecisionsAreOfTheirPage
  BY DEF PageInv, OnePage, InTurn, DecisionsAreOfTheirPage
<1> QED
  BY <1>1, PageInitInv, PageNextInv, PTL DEF PageSpec

-----------------------------------------------------------------------------
(***************************************************************************)
(* A decision ranks who can be served, and hybrid retrieval leaves the     *)
(* winner alone: first what sorting and cutting do to a sequence, then what*)
(* each step hands on.                                                     *)
(***************************************************************************)

\* Every sequence of all of a set names each of its elements once.
LEMMA SeqOfSet ==
    ASSUME NEW S, IsFiniteSet(S), NEW s \in SetToSeqs(S)
    PROVE  /\ s \in Seq(S) /\ Len(s) = Cardinality(S) /\ Len(s) \in Nat /\ DOMAIN s = 1..Len(s)
           /\ \A i, j \in DOMAIN s : i # j => s[i] # s[j]
           /\ \A i \in DOMAIN s : s[i] \in S
           /\ \A x \in S : \E i \in DOMAIN s : s[i] = x
<1> PICK n : n = Cardinality(S)
  OBVIOUS
<1>1. n \in Nat
  BY FS_CardinalityType
<1>2. s \in [1..n -> S] /\ \A i, j \in 1..n : i # j => s[i] # s[j]
  BY DEF SetToSeqs
<1>3. s \in Seq(S) /\ Len(s) = n /\ DOMAIN s = 1..n
  BY <1>1, <1>2
<1>4. \A x \in S : \E i \in 1..n : s[i] = x
  <2>1. s \in Injection(1..n, S)
    BY <1>2, Fun_IsInj
  <2>2. Cardinality(1..n) = n
    BY <1>1, FS_Interval
  <2>3. s \in Surjection(1..n, S)
    BY <2>1, <2>2, FS_Injection
  <2> QED
    BY <2>3 DEF Surjection
<1> QED
  BY <1>1, <1>2, <1>3, <1>4

(***************************************************************************)
(* Where any two differ in place, a finite set can be put in order: each   *)
(* element's place is the number of those ahead of it, plus one.  So what  *)
(* the model chooses when it sorts is there to be chosen.                  *)
(***************************************************************************)
LEMMA Ranking ==
    ASSUME NEW S, IsFiniteSet(S), NEW R,
           \A x, y \in S : x # y => <<x, y>> \in R \/ <<y, x>> \in R,
           \A x, y \in S : <<x, y>> \in R => <<y, x>> \notin R,
           \A x, y, z \in S : <<x, y>> \in R /\ <<y, z>> \in R => <<x, z>> \in R
    PROVE  \E s \in SetToSeqs(S) : \A i, j \in DOMAIN s : i < j => <<s[j], s[i]>> \notin R
<1> PICK n : n = Cardinality(S)
  OBVIOUS
<1> DEFINE ahead(x) == {y \in S : <<y, x>> \in R}
<1> PICK place : place = [x \in S |-> Cardinality(ahead(x)) + 1]
  OBVIOUS
<1>1. n \in Nat /\ IsFiniteSet(1..n) /\ Cardinality(1..n) = n
  BY FS_CardinalityType, FS_Interval
<1>2. \A x \in S : IsFiniteSet(ahead(x)) /\ Cardinality(ahead(x)) \in Nat
  BY FS_Subset, FS_CardinalityType
<1>3. ASSUME NEW x \in S, NEW y \in S, <<x, y>> \in R
      PROVE  Cardinality(ahead(x)) < Cardinality(ahead(y))
  <2>1. ahead(x) \subseteq ahead(y) /\ x \in ahead(y) /\ x \notin ahead(x)
    BY <1>3
  <2>2. Cardinality(ahead(x)) <= Cardinality(ahead(y)) /\ Cardinality(ahead(x)) # Cardinality(ahead(y))
    BY <1>2, <2>1, FS_Subset
  <2> QED
    BY <1>2, <2>2
<1>4. ASSUME NEW x \in S
      PROVE  Cardinality(ahead(x)) < n
  <2>1. ahead(x) \subseteq S /\ x \notin ahead(x)
    OBVIOUS
  <2>2. Cardinality(ahead(x)) <= n /\ Cardinality(ahead(x)) # n
    BY <2>1, FS_Subset
  <2> QED
    BY <1>1, <1>2, <2>2
<1> HIDE DEF ahead
<1>p. \A x \in S : place[x] = Cardinality(ahead(x)) + 1
  OBVIOUS
<1>5. place \in [S -> 1..n]
  <2>1. \A x \in S : place[x] \in 1..n
    BY <1>1, <1>2, <1>4, <1>p
  <2> QED
    BY <2>1
<1>6. \A x, y \in S : <<x, y>> \in R => place[x] < place[y]
  BY <1>2, <1>3, <1>p
<1>i. \A x \in S : place[x] \in Nat
  BY <1>2, <1>p
<1>7. ASSUME NEW x \in S, NEW y \in S, place[x] = place[y]
      PROVE  x = y
  <2>1. <<x, y>> \notin R /\ <<y, x>> \notin R
    <3>1. <<x, y>> \in R => place[x] < place[y]
      BY <1>6
    <3>2. <<y, x>> \in R => place[y] < place[x]
      BY <1>6
    <3> QED
      BY <1>7, <1>i, <3>1, <3>2
  <2> QED
    BY <2>1
<1>8. place \in Surjection(S, 1..n)
  BY <1>1, <1>5, <1>7, Fun_IsInj, FS_Injection
<1> PICK s : s = [i \in 1..n |-> CHOOSE x \in S : place[x] = i]
  OBVIOUS
<1>9. \A i \in 1..n : s[i] \in S /\ place[s[i]] = i
  BY <1>8 DEF Surjection
<1>10. s \in SetToSeqs(S)
  <2>1. s \in [1..n -> S]
    BY <1>9
  <2>2. \A i, j \in 1..n : i # j => s[i] # s[j]
    BY <1>9
  <2> QED
    BY <2>1, <2>2 DEF SetToSeqs
<1>11. ASSUME NEW i \in 1..n, NEW j \in 1..n, i < j
       PROVE  <<s[j], s[i]>> \notin R
  <2>1. s[i] \in S /\ s[j] \in S /\ place[s[i]] = i /\ place[s[j]] = j
    BY <1>9
  <2>2. <<s[j], s[i]>> \in R => place[s[j]] < place[s[i]]
    BY <1>6, <2>1
  <2> QED
    BY <1>11, <2>1, <2>2
<1>12. DOMAIN s = 1..n
  OBVIOUS
<1> QED
  BY <1>10, <1>11, <1>12

\* Sets of numbers can be put in order and have a greatest.
LEMMA InNumberOrder ==
    ASSUME NEW S, IsFiniteSet(S), S \subseteq Int
    PROVE  /\ Ascending(S) \in SetToSeqs(S)
           /\ \A i, j \in DOMAIN Ascending(S) : i < j => Ascending(S)[i] < Ascending(S)[j]
<1> PICK R : R = {p \in S \X S : p[1] < p[2]}
  OBVIOUS
<1>1. \A x, y \in S : <<x, y>> \in R <=> x < y
  OBVIOUS
<1>2. /\ \A x, y \in S : x # y => <<x, y>> \in R \/ <<y, x>> \in R
      /\ \A x, y \in S : <<x, y>> \in R => <<y, x>> \notin R
      /\ \A x, y, z \in S : <<x, y>> \in R /\ <<y, z>> \in R => <<x, z>> \in R
  BY <1>1
<1>3. \E s \in SetToSeqs(S) : \A i, j \in DOMAIN s : i < j => <<s[j], s[i]>> \notin R
  BY <1>2, Ranking
<1>4. \A s \in SetToSeqs(S) : \A i \in DOMAIN s : s[i] \in S
  BY SeqOfSet
<1>5. \E s \in SetToSeqs(S) : \A i, j \in DOMAIN s : i < j => ~(s[j] < s[i])
  BY <1>1, <1>3, <1>4
<1> PICK s : s = Ascending(S)
  OBVIOUS
<1>6. s \in SetToSeqs(S) /\ \A i, j \in DOMAIN s : i < j => ~(s[j] < s[i])
  BY <1>5 DEF Ascending, Sorted
<1>7. ASSUME NEW i \in DOMAIN s, NEW j \in DOMAIN s, i < j
      PROVE  s[i] < s[j]
  <2>1. s[i] \in Int /\ s[j] \in Int /\ ~(s[j] < s[i])
    BY <1>4, <1>6, <1>7
  <2>2. DOMAIN s \subseteq Int
    BY <1>6, SeqOfSet
  <2>3. s[i] # s[j]
    BY <1>6, <1>7, <2>2, SeqOfSet
  <2> QED
    BY <2>1, <2>3
<1> QED
  BY <1>6, <1>7

LEMMA Greatest ==
    ASSUME NEW S, IsFiniteSet(S), S \subseteq Int, S # {}
    PROVE  Max(S) \in S /\ \A y \in S : y <= Max(S)
<1> PICK s : s = Ascending(S)
  OBVIOUS
<1>1. s \in SetToSeqs(S) /\ \A i, j \in DOMAIN s : i < j => s[i] < s[j]
  BY InNumberOrder
<1>2. /\ Len(s) \in Nat /\ DOMAIN s = 1..Len(s)
      /\ \A i \in DOMAIN s : s[i] \in S
      /\ \A x \in S : \E i \in DOMAIN s : s[i] = x
  BY <1>1, SeqOfSet
<1>3. Len(s) \in DOMAIN s
  <2> PICK x \in S : TRUE
    OBVIOUS
  <2> PICK i \in DOMAIN s : s[i] = x
    BY <1>2
  <2>1. i \in 1..Len(s)
    BY <1>2
  <2> QED
    BY <1>2, <2>1
<1>4. \A y \in S : s[Len(s)] >= y
  <2> TAKE y \in S
  <2> PICK i \in DOMAIN s : s[i] = y
    BY <1>2
  <2>1. i = Len(s) \/ i < Len(s)
    BY <1>2
  <2>2. s[i] \in Int /\ s[Len(s)] \in Int
    BY <1>2, <1>3
  <2>3. i < Len(s) => s[i] < s[Len(s)]
    BY <1>1, <1>3
  <2> QED
    BY <2>1, <2>2, <2>3
<1>5. \E x \in S : \A y \in S : x >= y
  BY <1>2, <1>3, <1>4
<1> PICK m : m = Max(S)
  OBVIOUS
<1>6. m \in S /\ \A y \in S : m >= y
  BY <1>5 DEF Max
<1> QED
  BY <1>6

\* The beginning of a sequence.
LEMMA LeadingFacts ==
    ASSUME NEW X, NEW s \in Seq(X), NEW n \in Nat
    PROVE  /\ Leading(s, n) \in Seq(X)
           /\ Len(Leading(s, n)) = IF n <= Len(s) THEN n ELSE Len(s)
           /\ DOMAIN Leading(s, n) = 1..Len(Leading(s, n))
           /\ \A i \in DOMAIN Leading(s, n) : i \in DOMAIN s /\ Leading(s, n)[i] = s[i]
<1> PICK m : m = Min({n, Len(s)})
  OBVIOUS
<1>1. m = IF n <= Len(s) THEN n ELSE Len(s)
  BY DEF Min
<1>2. m \in 0..Len(s)
  BY <1>1
<1>3. Leading(s, n) = SubSeq(s, 1, m)
  BY DEF Leading
<1> QED
  BY <1>1, <1>2, <1>3

\* What is kept of a sequence, in order.
Kept(s, K) == [k \in DOMAIN Ascending(K) |-> s[Ascending(K)[k]]]

LEMMA KeptFacts ==
    ASSUME NEW X, NEW s \in Seq(X), NEW K \in SUBSET (DOMAIN s)
    PROVE  /\ Kept(s, K) \in Seq(X) /\ DOMAIN Kept(s, K) = 1..Len(Kept(s, K)) /\ Len(Kept(s, K)) \in Nat
           /\ \A k \in DOMAIN Kept(s, K) : \E i \in K : Kept(s, K)[k] = s[i]
           /\ \A i \in K : \E k \in DOMAIN Kept(s, K) : Kept(s, K)[k] = s[i]
           /\ \A k, l \in DOMAIN Kept(s, K) :
                k < l => \E i, j \in K : i < j /\ Kept(s, K)[k] = s[i] /\ Kept(s, K)[l] = s[j]
<1> PICK r : r = Kept(s, K)
  OBVIOUS
<1> PICK at : at = Ascending(K)
  OBVIOUS
<1>1. DOMAIN s = 1..Len(s) /\ Len(s) \in Nat
  OBVIOUS
<1>2. IsFiniteSet(K) /\ K \subseteq Int
  <2>1. IsFiniteSet(1..Len(s)) /\ K \subseteq 1..Len(s)
    BY <1>1, FS_Interval
  <2> QED
    BY <2>1, FS_Subset
<1>3. at \in SetToSeqs(K) /\ \A i, j \in DOMAIN at : i < j => at[i] < at[j]
  BY <1>2, InNumberOrder
<1>4. /\ Len(at) \in Nat /\ DOMAIN at = 1..Len(at)
      /\ \A i \in DOMAIN at : at[i] \in K
      /\ \A x \in K : \E i \in DOMAIN at : at[i] = x
  BY <1>2, <1>3, SeqOfSet
<1>5. r = [k \in 1..Len(at) |-> s[at[k]]]
  BY <1>4 DEF Kept
<1>6. \A k \in 1..Len(at) : s[at[k]] \in X
  BY <1>1, <1>4
<1>7. r \in Seq(X) /\ Len(r) = Len(at)
  BY <1>4, <1>5, <1>6
<1> QED
  BY <1>3, <1>4, <1>5, <1>7

\* What the steps of a decision hand on.
Copied == [there : BOOLEAN, eligible : BOOLEAN, tags : SUBSET Tags, document : Int \union {NoVector}]
Hits   == [id : Campaigns, sim : Int]
Scored == [id : Campaigns, sim : Int, score : Int, dense : BOOLEAN]
Fused  == [id : Campaigns, dense : Nat, sparse : Nat, share : Int]

\* A finite set of candidates, one of each campaign.
Field(C) == C \subseteq Scored /\ IsFiniteSet(C) /\ \A x, y \in C : x.id = y.id => x = y

IdsOf(C) == {x.id : x \in C}

LEMMA Numbers ==
    ASSUME served \in [Campaigns -> Copies], NEW c \in Campaigns
    PROVE  /\ served[c] \in Copied /\ c \in Int /\ Cpc[c] \in Int /\ Matches(c) \in Nat
<1>1. served[c] \in Copied /\ c \in Int /\ Cpc[c] \in Int
  BY MatchAssumption DEF Copied
<1>2. IsFiniteSet(served[c].tags \intersect RequestTags)
  <2>1. served[c].tags \intersect RequestTags \subseteq Tags
    BY <1>1 DEF Copied
  <2> QED
    BY <2>1, FS_Subset, MatchAssumption
<1> QED
  BY <1>1, <1>2, FS_CardinalityType DEF Matches

(***************************************************************************)
(* The orders of the code are total: tags, similarity of the document, fused*)
(* rank, candidates and scores after reranking all end with the id.        *)
(***************************************************************************)
LEMMA ByTags ==
    ASSUME served \in [Campaigns -> Copies], NEW S \in SUBSET Campaigns
    PROVE  Sorted(S, LexicalOrder) \in SetToSeqs(S)
<1>r. PICK R : R = {p \in S \X S : LexicalOrder(p[1], p[2])}
  OBVIOUS
<1>f. IsFiniteSet(S)
  BY FS_Subset, MatchAssumption
<1>n. \A c \in S : c \in Int /\ Cpc[c] \in Int /\ Matches(c) \in Int
  BY Numbers
<1>1. \A x, y \in S : <<x, y>> \in R <=> LexicalOrder(x, y)
  BY <1>r
<1>2. \A x, y \in S : x # y => <<x, y>> \in R \/ <<y, x>> \in R
  BY <1>1, <1>n DEF LexicalOrder
<1>3. \A x, y \in S : <<x, y>> \in R => <<y, x>> \notin R
  BY <1>1, <1>n DEF LexicalOrder
<1>4. \A x, y, z \in S : <<x, y>> \in R /\ <<y, z>> \in R => <<x, z>> \in R
  BY <1>1, <1>n DEF LexicalOrder
<1>5. \E s \in SetToSeqs(S) : \A i, j \in DOMAIN s : i < j => <<s[j], s[i]>> \notin R
  BY <1>f, <1>2, <1>3, <1>4, Ranking
<1>6. \A s \in SetToSeqs(S) : \A i \in DOMAIN s : s[i] \in S
  BY <1>f, SeqOfSet
<1>7. \E s \in SetToSeqs(S) : \A i, j \in DOMAIN s : i < j => ~LexicalOrder(s[j], s[i])
  BY <1>1, <1>5, <1>6
<1> QED
  BY <1>7 DEF Sorted

LEMMA ByNearness ==
    ASSUME indexed \in [Campaigns -> Copies], NEW S \in SUBSET Campaigns,
           \A c \in S : indexed[c].document # NoVector
    PROVE  \E s \in SetToSeqs(S) :
              /\ s = Sorted(S, Nearer)
              /\ \A i, j \in DOMAIN s : i < j => indexed[s[j]].document <= indexed[s[i]].document
<1>s. PICK s : s = Sorted(S, Nearer)
  OBVIOUS
<1>r. PICK R : R = {p \in S \X S : Nearer(p[1], p[2])}
  OBVIOUS
<1>f. IsFiniteSet(S)
  BY FS_Subset, MatchAssumption
<1>n. \A c \in S : c \in Int /\ indexed[c].document \in Int
  BY MatchAssumption
<1>1. \A x, y \in S : <<x, y>> \in R <=> Nearer(x, y)
  BY <1>r
<1>2. \A x, y \in S : x # y => <<x, y>> \in R \/ <<y, x>> \in R
  BY <1>1, <1>n DEF Nearer
<1>3. \A x, y \in S : <<x, y>> \in R => <<y, x>> \notin R
  BY <1>1, <1>n DEF Nearer
<1>4. \A x, y, z \in S : <<x, y>> \in R /\ <<y, z>> \in R => <<x, z>> \in R
  BY <1>1, <1>n DEF Nearer
<1>5. \E t \in SetToSeqs(S) : \A i, j \in DOMAIN t : i < j => <<t[j], t[i]>> \notin R
  BY <1>f, <1>2, <1>3, <1>4, Ranking
<1>6. \A t \in SetToSeqs(S) : \A i \in DOMAIN t : t[i] \in S
  BY <1>f, SeqOfSet
<1>7. \E t \in SetToSeqs(S) : \A i, j \in DOMAIN t : i < j => ~Nearer(t[j], t[i])
  BY <1>1, <1>5, <1>6
<1>8. s \in SetToSeqs(S) /\ \A i, j \in DOMAIN s : i < j => ~Nearer(s[j], s[i])
  BY <1>7, <1>s DEF Sorted
<1>9. ASSUME NEW i \in DOMAIN s, NEW j \in DOMAIN s, i < j
      PROVE  indexed[s[j]].document <= indexed[s[i]].document
  <2>1. s[i] \in S /\ s[j] \in S
    BY <1>6, <1>8
  <2> QED
    BY <2>1, <1>8, <1>9, <1>n DEF Nearer
<1>10. s \in SetToSeqs(S)
  BY <1>8
<1> QED
  BY <1>9, <1>10, <1>s

LEMMA Values ==
    ASSUME NEW x \in Scored
    PROVE  /\ x.score \in Int /\ x.sim \in Int /\ x.dense \in BOOLEAN
           /\ x.id \in Campaigns /\ x.id \in Int /\ Cpc[x.id] \in Nat
<1>1. x.score \in Int /\ x.sim \in Int /\ x.dense \in BOOLEAN /\ x.id \in Campaigns
  BY DEF Scored
<1>2. Campaigns \subseteq Int /\ Cpc \in [Campaigns -> Nat]
  BY MatchAssumption
<1>3. x.id \in Int /\ Cpc[x.id] \in Nat
  BY <1>1, <1>2
<1> QED
  BY <1>1, <1>3

LEMMA Ranks ==
    ASSUME NEW item \in Fused, item.dense > 0 \/ item.sparse > 0
    PROVE  SourceCount(item) \in Nat /\ BestRank(item) \in Int
<1>1. SourceCount(item) \in Nat
  <2>1. IsFiniteSet({"dense", "sparse"})
    <3>1. IsFiniteSet({"dense"}) /\ IsFiniteSet({"sparse"})
      BY FS_Singleton
    <3>2. {"dense", "sparse"} = {"dense"} \union {"sparse"}
      OBVIOUS
    <3> QED
      BY <3>1, <3>2, FS_Union
  <2>2. IsFiniteSet({r \in {"dense", "sparse"} : item[r] > 0})
    BY <2>1, FS_Subset
  <2> QED
    BY <2>2, FS_CardinalityType DEF SourceCount
<1>2. BestRank(item) \in Int
  <2>1. PICK S : S = {item[r] : r \in {"dense", "sparse"}} \ {0}
    OBVIOUS
  <2>2. S = {item.dense, item.sparse} \ {0}
    BY <2>1
  <2>3. item.dense \in Nat /\ item.sparse \in Nat
    BY DEF Fused
  <2>4. \E x \in S : \A y \in S : x <= y
    <3>1. CASE item.dense = 0
      <4>1. item.sparse \in S /\ \A y \in S : y = item.sparse
        BY <2>2, <2>3, <3>1
      <4> QED
        BY <4>1, <2>3
    <3>2. CASE item.sparse = 0
      <4>1. item.dense \in S /\ \A y \in S : y = item.dense
        BY <2>2, <2>3, <3>2
      <4> QED
        BY <4>1, <2>3
    <3>3. CASE item.dense # 0 /\ item.sparse # 0 /\ item.dense <= item.sparse
      <4>1. item.dense \in S /\ \A y \in S : y = item.dense \/ y = item.sparse
        BY <2>2, <2>3, <3>3
      <4>2. \A y \in S : item.dense <= y
        BY <4>1, <2>3, <3>3
      <4> QED
        BY <4>1, <4>2
    <3>4. CASE item.dense # 0 /\ item.sparse # 0 /\ item.sparse <= item.dense
      <4>1. item.sparse \in S /\ \A y \in S : y = item.dense \/ y = item.sparse
        BY <2>2, <2>3, <3>4
      <4>2. \A y \in S : item.sparse <= y
        BY <4>1, <2>3, <3>4
      <4> QED
        BY <4>1, <4>2
    <3> QED
      BY <3>1, <3>2, <3>3, <3>4, <2>3
  <2>5. PICK m : m = Min(S)
    OBVIOUS
  <2>6. m \in S
    BY <2>4, <2>5 DEF Min
  <2>7. m \in Int
    BY <2>2, <2>3, <2>6
  <2> QED
    BY <2>1, <2>5, <2>7 DEF BestRank
<1> QED
  BY <1>1, <1>2

LEMMA ByFusion ==
    ASSUME NEW S, IsFiniteSet(S), S \subseteq Fused,
           \A x \in S : x.dense > 0 \/ x.sparse > 0,
           \A x, y \in S : x.id = y.id => x = y
    PROVE  Sorted(S, FusionOrder) \in SetToSeqs(S)
<1>r. PICK R : R = {p \in S \X S : FusionOrder(p[1], p[2])}
  OBVIOUS
<1>n. \A x \in S : x.share \in Int /\ SourceCount(x) \in Int /\ BestRank(x) \in Int /\ x.id \in Int
  <2> TAKE x \in S
  <2>1. SourceCount(x) \in Nat /\ BestRank(x) \in Int
    BY Ranks
  <2>2. x.share \in Int /\ x.id \in Int
    BY MatchAssumption DEF Fused
  <2> QED
    BY <2>1, <2>2
<1>1. \A x, y \in S : <<x, y>> \in R <=> FusionOrder(x, y)
  BY <1>r
<1>2. \A x, y \in S : x # y => <<x, y>> \in R \/ <<y, x>> \in R
  <2> SUFFICES ASSUME NEW x \in S, NEW y \in S, x # y
               PROVE  FusionOrder(x, y) \/ FusionOrder(y, x)
    BY <1>1
  <2>1. x.id # y.id
    OBVIOUS
  <2> QED
    BY <2>1, <1>n DEF FusionOrder
<1>3. \A x, y \in S : <<x, y>> \in R => <<y, x>> \notin R
  BY <1>1, <1>n DEF FusionOrder
<1>4. \A x, y, z \in S : <<x, y>> \in R /\ <<y, z>> \in R => <<x, z>> \in R
  BY <1>1, <1>n DEF FusionOrder
<1>5. \E s \in SetToSeqs(S) : \A i, j \in DOMAIN s : i < j => <<s[j], s[i]>> \notin R
  BY <1>2, <1>3, <1>4, Ranking
<1>6. \A s \in SetToSeqs(S) : \A i \in DOMAIN s : s[i] \in S
  BY SeqOfSet
<1>7. \E s \in SetToSeqs(S) : \A i, j \in DOMAIN s : i < j => ~FusionOrder(s[j], s[i])
  BY <1>1, <1>5, <1>6
<1> QED
  BY <1>7 DEF Sorted

LEMMA ByScore ==
    ASSUME NEW S, Field(S)
    PROVE  \E s \in SetToSeqs(S) :
              /\ s = Sorted(S, RerankOrder)
              /\ \A i, j \in DOMAIN s : i < j => s[j].score <= s[i].score
<1>s. PICK s : s = Sorted(S, RerankOrder)
  OBVIOUS
<1>r. PICK R : R = {p \in S \X S : RerankOrder(p[1], p[2])}
  OBVIOUS
<1>f. IsFiniteSet(S)
  BY DEF Field
<1>n. \A x \in S : x.score \in Int /\ x.sim \in Int /\ Cpc[x.id] \in Int /\ x.id \in Int
  <2> TAKE x \in S
  <2>1. x \in Scored
    BY DEF Field
  <2> QED
    BY <2>1, Values
<1>1. \A x, y \in S : <<x, y>> \in R <=> RerankOrder(x, y)
  BY <1>r
<1>2. \A x, y \in S : x # y => <<x, y>> \in R \/ <<y, x>> \in R
  <2> SUFFICES ASSUME NEW x \in S, NEW y \in S, x # y
               PROVE  RerankOrder(x, y) \/ RerankOrder(y, x)
    BY <1>1
  <2>1. x.id # y.id
    BY DEF Field
  <2> QED
    BY <2>1, <1>n DEF RerankOrder
<1>3. \A x, y \in S : <<x, y>> \in R => <<y, x>> \notin R
  BY <1>1, <1>n DEF RerankOrder
<1>4. \A x, y, z \in S : <<x, y>> \in R /\ <<y, z>> \in R => <<x, z>> \in R
  BY <1>1, <1>n DEF RerankOrder
<1>5. \E t \in SetToSeqs(S) : \A i, j \in DOMAIN t : i < j => <<t[j], t[i]>> \notin R
  BY <1>f, <1>2, <1>3, <1>4, Ranking
<1>6. \A t \in SetToSeqs(S) : \A i \in DOMAIN t : t[i] \in S
  BY <1>f, SeqOfSet
<1>7. \E t \in SetToSeqs(S) : \A i, j \in DOMAIN t : i < j => ~RerankOrder(t[j], t[i])
  BY <1>1, <1>5, <1>6
<1>8. s \in SetToSeqs(S) /\ \A i, j \in DOMAIN s : i < j => ~RerankOrder(s[j], s[i])
  BY <1>7, <1>s DEF Sorted
<1>9. ASSUME NEW i \in DOMAIN s, NEW j \in DOMAIN s, i < j
      PROVE  s[j].score <= s[i].score
  <2>1. s[i] \in S /\ s[j] \in S
    BY <1>6, <1>8
  <2> QED
    BY <2>1, <1>8, <1>9, <1>n DEF RerankOrder
<1>10. s \in SetToSeqs(S)
  BY <1>8
<1> QED
  BY <1>9, <1>10, <1>s

LEMMA WinnerFacts ==
    ASSUME Field(ToSet(request.primary)), request.primary # <<>>, request.primary \in Seq(Scored)
    PROVE  DenseWinner \in ToSet(request.primary)
<1>s. PICK S : S = ToSet(request.primary)
  OBVIOUS
<1>r. PICK R : R = {p \in S \X S : CandidateOrder(p[1], p[2])}
  OBVIOUS
<1>f. IsFiniteSet(S)
  BY <1>s DEF Field
<1>n. \A x \in S : x.score \in Int /\ Cpc[x.id] \in Int /\ x.id \in Int
  <2> TAKE x \in S
  <2>1. x \in Scored
    BY <1>s DEF Field
  <2> QED
    BY <2>1, Values
<1>1. \A x, y \in S : <<x, y>> \in R <=> CandidateOrder(x, y)
  BY <1>r
<1>2. \A x, y \in S : x # y => <<x, y>> \in R \/ <<y, x>> \in R
  <2> SUFFICES ASSUME NEW x \in S, NEW y \in S, x # y
               PROVE  CandidateOrder(x, y) \/ CandidateOrder(y, x)
    BY <1>1
  <2>1. x.id # y.id
    BY <1>s DEF Field
  <2> QED
    BY <2>1, <1>n DEF CandidateOrder
<1>3. \A x, y \in S : <<x, y>> \in R => <<y, x>> \notin R
  BY <1>1, <1>n DEF CandidateOrder
<1>4. \A x, y, z \in S : <<x, y>> \in R /\ <<y, z>> \in R => <<x, z>> \in R
  <2> SUFFICES ASSUME NEW x \in S, NEW y \in S, NEW z \in S, CandidateOrder(x, y), CandidateOrder(y, z)
               PROVE  CandidateOrder(x, z)
    BY <1>1
  <2>1. /\ x.score \in Int /\ y.score \in Int /\ z.score \in Int
        /\ Cpc[x.id] \in Int /\ Cpc[y.id] \in Int /\ Cpc[z.id] \in Int
        /\ x.id \in Int /\ y.id \in Int /\ z.id \in Int
    BY <1>n
  <2> QED
    BY <2>1 DEF CandidateOrder
<1>5. PICK t \in SetToSeqs(S) : \A i, j \in DOMAIN t : i < j => <<t[j], t[i]>> \notin R
  BY <1>f, <1>2, <1>3, <1>4, Ranking
<1>6. /\ Len(t) \in Nat /\ DOMAIN t = 1..Len(t)
      /\ \A i \in DOMAIN t : t[i] \in S
      /\ \A x \in S : \E i \in DOMAIN t : t[i] = x
  BY <1>f, SeqOfSet
<1>7. \E x : x \in S
  <2>1. request.primary[1] \in ToSet(request.primary)
    BY DEF ToSet
  <2> QED
    BY <2>1, <1>s
<1>8. 1 \in DOMAIN t
  <2> PICK x : x \in S
    BY <1>7
  <2> PICK i \in DOMAIN t : t[i] = x
    BY <1>6
  <2>1. i \in 1..Len(t)
    BY <1>6
  <2> QED
    BY <1>6, <2>1
<1>9. \A y \in S \ {t[1]} : CandidateOrder(t[1], y)
  <2> TAKE y \in S \ {t[1]}
  <2> PICK j \in DOMAIN t : t[j] = y
    BY <1>6
  <2>1. 1 < j
    BY <1>6, <1>8
  <2>2. <<y, t[1]>> \notin R
    BY <1>5, <1>8, <2>1
  <2>3. t[1] \in S /\ <<t[1], y>> \in R
    BY <1>2, <1>6, <1>8, <2>2
  <2> QED
    BY <1>1, <2>3
<1>10. \E x \in S : \A y \in S \ {x} : CandidateOrder(x, y)
  BY <1>6, <1>8, <1>9
<1> QED
  BY <1>10, <1>s DEF DenseWinner

\* The best of a set of candidates, and what cap and lock make of the set.
LEMMA FiniteImage ==
    ASSUME NEW S, IsFiniteSet(S), NEW f, NEW T, T = {f[x] : x \in S}
    PROVE  IsFiniteSet(T)
<1> PICK g : g = [x \in S |-> f[x]]
  OBVIOUS
<1>1. g \in Surjection(S, T)
  BY DEF Surjection
<1> QED
  BY <1>1, FS_Surjection

LEMMA Best ==
    ASSUME NEW C, Field(C), C # {}
    PROVE  /\ BestOf(C) \in Int
           /\ \E x \in C : x.score = BestOf(C)
           /\ \A y \in C : y.score <= BestOf(C)
<1> PICK S : S = {x.score : x \in C}
  OBVIOUS
<1>1. \A x \in C : x.score \in Int
  BY Values DEF Field
<1>2. IsFiniteSet(S) /\ S \subseteq Int /\ S # {}
  <2>f. PICK f : f = [x \in C |-> x.score]
    OBVIOUS
  <2>1. S = {f[x] : x \in C}
    BY <2>f
  <2>2. IsFiniteSet(S)
    <3>1. IsFiniteSet(C)
      BY DEF Field
    <3>2. IsFiniteSet({f[x] : x \in C})
      BY <3>1, FiniteImage
    <3> QED
      BY <2>1, <3>2
  <2> QED
    BY <1>1, <2>2
<1>3. Max(S) \in S /\ \A y \in S : y <= Max(S)
  BY <1>2, Greatest
<1>4. BestOf(C) = Max(S)
  BY DEF BestOf
<1>5. \A y \in C : y.score \in S
  OBVIOUS
<1>6. \E x \in C : x.score = Max(S)
  BY <1>3
<1> QED
  BY <1>2, <1>3, <1>4, <1>5, <1>6

\* A change of candidates that leaves each its id and its kind.
LEMMA ChangedScores ==
    ASSUME NEW C, Field(C), NEW f, \A x \in C : f[x] \in Scored /\ f[x].id = x.id /\ f[x].dense = x.dense,
           NEW D, D = {f[x] : x \in C}
    PROVE  Field(D) /\ IdsOf(D) = IdsOf(C)
<1>1. IsFiniteSet(D) /\ D \subseteq Scored
  <2>1. IsFiniteSet(D)
    BY FiniteImage DEF Field
  <2> QED
    BY <2>1
<1>2. ASSUME NEW x \in D, NEW y \in D, x.id = y.id
      PROVE  x = y
  <2> PICK a \in C : x = f[a]
    OBVIOUS
  <2> PICK b \in C : y = f[b]
    OBVIOUS
  <2>1. a.id = b.id
    BY <1>2
  <2> QED
    BY <2>1 DEF Field
<1>3. IdsOf(D) \subseteq IdsOf(C)
  <2> SUFFICES ASSUME NEW x \in D
               PROVE  x.id \in IdsOf(C)
    BY DEF IdsOf
  <2> PICK a \in C : x = f[a]
    OBVIOUS
  <2>1. x.id = a.id
    OBVIOUS
  <2> QED
    BY <2>1 DEF IdsOf
<1>4. IdsOf(C) \subseteq IdsOf(D)
  <2> SUFFICES ASSUME NEW a \in C
               PROVE  a.id \in IdsOf(D)
    BY DEF IdsOf
  <2>1. f[a] \in D /\ f[a].id = a.id
    OBVIOUS
  <2> QED
    BY <2>1 DEF IdsOf
<1> QED
  BY <1>1, <1>2, <1>3, <1>4 DEF Field

\* Nobody found by tags only comes near x.
Ahead(x, C) == x \in C /\ x.dense /\ \A y \in C : ~y.dense => y.score < x.score

LEMMA HeldFacts ==
    ASSUME NEW C, Field(C), DenseOf(C) # {}
    PROVE  \E H : /\ H = Held(C) /\ Field(H) /\ IdsOf(H) = IdsOf(C)
                  /\ \A x \in H : \E a \in C : a.id = x.id /\ a.dense = x.dense
                  /\ \E x : Ahead(x, H)
<1> PICK b : b = BestOf(DenseOf(C))
  OBVIOUS
<1>f. PICK f : f = [x \in C |-> IF ~x.dense /\ x.score >= b THEN [x EXCEPT !.score = b - 1] ELSE x]
  OBVIOUS
<1>h. PICK H : H = Held(C)
  OBVIOUS
<1>1. Field(DenseOf(C))
  <2>1. DenseOf(C) \subseteq C
    BY DEF DenseOf
  <2>2. IsFiniteSet(DenseOf(C))
    BY <2>1, FS_Subset DEF Field
  <2> QED
    BY <2>1, <2>2 DEF Field
<1>2. b \in Int /\ \E x \in DenseOf(C) : x.score = b
  BY <1>1, Best
<1>3. \A x \in C : f[x] \in Scored /\ f[x].id = x.id /\ f[x].dense = x.dense
  <2> TAKE x \in C
  <2>1. x \in Scored
    BY DEF Field
  <2>2. [x EXCEPT !.score = b - 1] \in Scored /\ [x EXCEPT !.score = b - 1].id = x.id
        /\ [x EXCEPT !.score = b - 1].dense = x.dense
    BY <2>1, <1>2 DEF Scored
  <2> QED
    BY <2>1, <2>2, <1>f
<1>4. \A x \in C : /\ ~x.dense => f[x].score < b
                   /\ x.dense => f[x] = x
  <2> TAKE x \in C
  <2>1. x \in Scored /\ x.score \in Int
    BY Values DEF Field
  <2>2. [x EXCEPT !.score = b - 1].score = b - 1
    BY <2>1 DEF Scored
  <2> QED
    BY <2>1, <2>2, <1>2, <1>f
<1>5. H = {f[x] : x \in C}
  BY <1>f, <1>h DEF Held
<1>6. Field(H) /\ IdsOf(H) = IdsOf(C)
  BY <1>3, <1>5, ChangedScores
<1>7. \A x \in H : \E a \in C : a.id = x.id /\ a.dense = x.dense
  BY <1>3, <1>5
<1>8. \E x : Ahead(x, H)
  <2> PICK x \in DenseOf(C) : x.score = b
    BY <1>2
  <2>1. x \in C /\ x.dense
    BY DEF DenseOf
  <2>2. x \in H
    BY <2>1, <1>4, <1>5
  <2>3. \A y \in H : ~y.dense => y.score < x.score
    <3> SUFFICES ASSUME NEW y \in H, ~y.dense
                 PROVE  y.score < b
      OBVIOUS
    <3> PICK a \in C : y = f[a]
      BY <1>5
    <3>1. ~a.dense
      BY <1>3
    <3> QED
      BY <3>1, <1>4
  <2> QED
    BY <2>1, <2>2, <2>3 DEF Ahead
<1> QED
  BY <1>6, <1>7, <1>8, <1>h

LEMMA LockFacts ==
    ASSUME NEW C, Field(C), \E x : Ahead(x, C), \A x \in C : x.id = DenseWinner.id => x.dense
    PROVE  \E L : /\ L = LockWinner(C) /\ Field(L) /\ IdsOf(L) = IdsOf(C)
                  /\ \E x : Ahead(x, L)
                  /\ \A x, y \in L : x.id = DenseWinner.id /\ y.id # x.id => y.score < x.score
<1> PICK w : w = DenseWinner.id
  OBVIOUS
<1> PICK others : others = {x \in C : x.id # w}
  OBVIOUS
<1> PICK b : b = BestOf(others)
  OBVIOUS
<1>f. PICK f : f = [x \in C |-> IF x.id = w /\ others # {} /\ x.score <= b THEN [x EXCEPT !.score = b + 1] ELSE x]
  OBVIOUS
<1>l. PICK L : L = LockWinner(C)
  OBVIOUS
<1>1. Field(others)
  <2>1. IsFiniteSet(others)
    BY FS_Subset DEF Field
  <2> QED
    BY <2>1 DEF Field
<1>2. others # {} => b \in Int /\ \A y \in others : y.score <= b
  BY <1>1, Best
<1>3. \A x \in C : f[x] \in Scored /\ f[x].id = x.id /\ f[x].dense = x.dense
  <2> TAKE x \in C
  <2>1. x \in Scored
    BY DEF Field
  <2>2. others # {} => [x EXCEPT !.score = b + 1] \in Scored /\ [x EXCEPT !.score = b + 1].id = x.id
        /\ [x EXCEPT !.score = b + 1].dense = x.dense
    BY <2>1, <1>2 DEF Scored
  <2> QED
    BY <2>1, <2>2, <1>f
<1>4. \A x \in C : /\ x.score \in Int /\ f[x].score \in Int /\ x.score <= f[x].score
                   /\ x.id # w => f[x] = x
                   /\ x.id = w /\ others # {} => b < f[x].score
  <2> TAKE x \in C
  <2>1. x \in Scored /\ x.score \in Int
    BY Values DEF Field
  <2>2. [x EXCEPT !.score = b + 1].score = b + 1
    BY <2>1 DEF Scored
  <2> QED
    BY <2>1, <2>2, <1>2, <1>f
<1>5. L = {f[x] : x \in C}
  BY <1>f, <1>l DEF LockWinner
<1>6. Field(L) /\ IdsOf(L) = IdsOf(C)
  BY <1>3, <1>5, ChangedScores
<1>7. \E x : Ahead(x, L)
  <2> PICK x : Ahead(x, C)
    OBVIOUS
  <2>1. x \in C /\ x.dense /\ \A y \in C : ~y.dense => y.score < x.score
    BY DEF Ahead
  <2>2. f[x] \in L /\ f[x].dense /\ x.score <= f[x].score /\ f[x].score \in Int /\ x.score \in Int
    BY <2>1, <1>3, <1>4, <1>5
  <2>3. ASSUME NEW y \in L, ~y.dense
        PROVE  y.score < f[x].score
    <3> PICK a \in C : y = f[a]
      BY <1>5
    <3>1. ~a.dense /\ a.id # w
      BY <1>3, <2>3
    <3>2. y = a /\ a.score \in Int /\ a.score < x.score
      BY <1>4, <2>1, <3>1
    <3> QED
      BY <2>2, <3>2
  <2> QED
    BY <2>2, <2>3 DEF Ahead
<1>8. ASSUME NEW x \in L, NEW y \in L, x.id = w, y.id # w
      PROVE  y.score < x.score
  <2> PICK a \in C : x = f[a]
    BY <1>5
  <2> PICK c \in C : y = f[c]
    BY <1>5
  <2>1. a.id = w /\ c.id # w
    BY <1>3, <1>8
  <2>2. c \in others /\ y = c
    BY <2>1, <1>4
  <2>3. b \in Int /\ c.score <= b /\ b < f[a].score
    BY <2>1, <2>2, <1>2, <1>4
  <2>4. c.score \in Int /\ f[a].score \in Int
    BY <1>4
  <2> QED
    BY <2>2, <2>3, <2>4
<1> QED
  BY <1>6, <1>7, <1>8, <1>l

\* One of each id.
Distinct(s) == \A i, j \in DOMAIN s : i # j => s[i].id # s[j].id

LEMMA ElementsOf ==
    ASSUME NEW X, NEW s \in Seq(X)
    PROVE  /\ IsFiniteSet(ToSet(s)) /\ ToSet(s) \subseteq X
           /\ DOMAIN s = 1..Len(s) /\ Len(s) \in Nat
           /\ \A i \in DOMAIN s : s[i] \in ToSet(s)
           /\ \A x \in ToSet(s) : \E i \in DOMAIN s : x = s[i]
<1>1. DOMAIN s = 1..Len(s) /\ Len(s) \in Nat /\ \A i \in 1..Len(s) : s[i] \in X
  OBVIOUS
<1>2. ToSet(s) = {s[i] : i \in 1..Len(s)}
  BY <1>1 DEF ToSet
<1>3. IsFiniteSet(1..Len(s))
  BY <1>1, FS_Interval
<1>4. IsFiniteSet(ToSet(s))
  BY <1>2, <1>3, FiniteImage
<1> QED
  BY <1>1, <1>2, <1>4

LEMMA FieldOfSeq ==
    ASSUME NEW s \in Seq(Scored), Distinct(s)
    PROVE  Field(ToSet(s)) /\ Cardinality(ToSet(s)) = Len(s)
<1>1. /\ IsFiniteSet(ToSet(s)) /\ ToSet(s) \subseteq Scored
      /\ DOMAIN s = 1..Len(s) /\ Len(s) \in Nat
      /\ \A i \in DOMAIN s : s[i] \in ToSet(s)
      /\ \A x \in ToSet(s) : \E i \in DOMAIN s : x = s[i]
  BY ElementsOf
<1>2. \A x, y \in ToSet(s) : x.id = y.id => x = y
  <2> SUFFICES ASSUME NEW x \in ToSet(s), NEW y \in ToSet(s), x.id = y.id
               PROVE  x = y
    OBVIOUS
  <2> PICK i \in DOMAIN s : x = s[i]
    BY <1>1
  <2> PICK j \in DOMAIN s : y = s[j]
    BY <1>1
  <2> QED
    BY DEF Distinct
<1>3. Cardinality(ToSet(s)) = Len(s)
  <2>1. s \in Surjection(1..Len(s), ToSet(s))
    BY <1>1 DEF Surjection
  <2>2. \A i, j \in 1..Len(s) : i # j => s[i] # s[j]
    BY <1>1 DEF Distinct
  <2>3. s \in [1..Len(s) -> ToSet(s)]
    BY <1>1
  <2>4. s \in Injection(1..Len(s), ToSet(s))
    BY <2>2, <2>3, Fun_IsInj
  <2>5. IsFiniteSet(1..Len(s)) /\ Cardinality(1..Len(s)) = Len(s)
    BY <1>1, FS_Interval
  <2> QED
    BY <2>1, <2>4, <2>5, FS_Surjection
<1> QED
  BY <1>1, <1>2, <1>3 DEF Field

LEMMA SomeOrder ==
    ASSUME NEW S, IsFiniteSet(S)
    PROVE  SetToSeq(S) \in [1..Cardinality(S) -> S]
<1> PICK n : n = Cardinality(S)
  OBVIOUS
<1>1. n \in Nat /\ IsFiniteSet(1..n) /\ Cardinality(1..n) = n
  BY FS_CardinalityType, FS_Interval
<1>2. PICK f : f \in Bijection(1..n, S)
  BY <1>1, FS_SameCardinalityBij DEF ExistsBijection
<1>3. f \in [1..n -> S] /\ \A a, b \in DOMAIN f : f[a] = f[b] => a = b
  BY <1>2 DEF Bijection, Injection, IsInjective
<1>4. \E g \in [1..n -> S] : IsInjective(g)
  BY <1>3 DEF IsInjective
<1> QED
  BY <1>4 DEF SetToSeq

(***************************************************************************)
(* The inductive invariant.  What the answer must say at the end is decided*)
(* early, so each step carries what the next ones need of it: the world and*)
(* what the decision knows of it (as long as nothing changed, the index is *)
(* right), the hits and that each was near enough, what was loaded of them,*)
(* the fused ranking, and why there is no candidate if there is none.      *)
(***************************************************************************)
Whole(r) ==
    r = [at |-> r.at, hits |-> r.hits, primary |-> r.primary, fused |-> r.fused,
         searched |-> r.searched, path |-> r.path, result |-> r.result]

WorldInv ==
    /\ served \in [Campaigns -> Copies] /\ indexed \in [Campaigns -> Copies]
    /\ setting \in Settings /\ changes \in Nat
    /\ stopped \subseteq Campaigns /\ \A c \in stopped : ~served[c].eligible
    /\ Still => indexed = served
    /\ Whole(request)

\* One hit of each campaign; as long as nothing changed, near enough and searchable.
HitsInv ==
    /\ request.hits \in Seq(Hits) /\ Distinct(request.hits)
    /\ Still /\ request.at \in {"load", "sparse", "rerank"} =>
         \A i \in DOMAIN request.hits :
            /\ Searchable(request.hits[i].id)
            /\ indexed[request.hits[i].id].document = request.hits[i].sim
            /\ request.hits[i].sim >= DocumentThreshold

\* What was loaded was hit before, and could be served.
PrimaryInv ==
    /\ request.primary \in Seq(Scored) /\ Distinct(request.primary)
    /\ Ids(request.primary) \subseteq Ids(request.hits)
    /\ Ids(request.primary) \intersect stopped = {}
    /\ request.at \in {"sparse", "rerank"} => request.primary # <<>>
    /\ request.at \in {"start", "lexical", "all", "tags", "scoreTags", "documents", "load"} => request.primary = <<>>

\* In the fused ranking, those found by vector are the hits.
FusedInv ==
    request.at = "rerank" =>
        /\ request.fused \in Seq(Fused) /\ Distinct(request.fused)
        /\ \A i \in DOMAIN request.fused : request.fused[i].dense > 0 <=> request.fused[i].id \in Ids(request.hits)
        /\ Ids(request.hits) \subseteq Ids(request.fused)

NobodyNear == ~\E c \in Campaigns : Searchable(c) /\ indexed[c].document >= DocumentThreshold

\* A search that worked comes to nothing only if nobody is near.
FallbackInv ==
    /\ request.searched => request.at \notin {"start", "documents", "all", "tags", "scoreTags"}
    /\ request.at = "load" => request.hits # <<>>
    /\ /\ Still /\ request.searched
       /\ \/ request.at = "lexical"
          \/ request.at = "matched" /\ request.result = <<>>
          \/ request.path = "fallback"
       => NobodyNear

\* Who is in the result could be served; the fallback campaign is not asked.
ResultInv ==
    /\ request.path # "fallback" => Ids(request.result) \intersect stopped = {}
    /\ request.path = "fallback" => request.at \in {"select", "ranked"}
    /\ request.at = "ranked" => Ids(ranking) \subseteq Ids(request.result)

Above(x, C) == \A y \in C : y.id # x.id => y.score < x.score

\* After reranking somebody found by vector is ahead; undisturbed, the winner by vectors.
HybridResult ==
    /\ request.result \in Seq(Scored) /\ request.result # <<>> /\ Distinct(request.result)
    /\ \E x \in ToSet(request.result) : Ahead(x, ToSet(request.result))
    /\ Still => /\ \E x \in ToSet(request.result) : x.id = DenseWinner.id /\ Above(x, ToSet(request.result))
                /\ Ids(request.primary) \subseteq Ids(request.result) \/ Len(request.result) = FinalLimit

HybridInv ==
    request.path = "hybrid" =>
        /\ request.at \in {"matched", "select", "ranked"}
        /\ HybridResult
        /\ HybridKeepsWinner

MatchInv == WorldInv /\ HitsInv /\ PrimaryInv /\ FusedInv /\ FallbackInv /\ ResultInv /\ HybridInv

LEMMA MatchInitInv == MatchInit => MatchInv
<1> SUFFICES ASSUME MatchInit
             PROVE  MatchInv
  OBVIOUS
<1>1. WorldInv
  <2>1. served \in [Campaigns -> Copies] /\ setting \in Settings /\ changes \in Nat
        /\ stopped \subseteq Campaigns /\ (Still => indexed = served)
    BY DEF MatchInit, Still
  <2>2. \A c \in stopped : ~served[c].eligible
    BY DEF MatchInit
  <2>3. indexed \in [Campaigns -> Copies]
    <3>1. CASE indexed = served
      BY <2>1, <3>1
    <3>2. CASE \E c \in Campaigns : \E old \in Copies \ {served[c]} : indexed = [served EXCEPT ![c] = old]
      BY <2>1, <3>2
    <3> QED
      BY <3>1, <3>2 DEF MatchInit
  <2>4. Whole(request)
    BY DEF MatchInit, Fresh, Whole
  <2> QED
    BY <2>1, <2>2, <2>3, <2>4 DEF WorldInv
<1>2. /\ request.at = "start" /\ request.hits = <<>> /\ request.primary = <<>> /\ request.result = <<>>
      /\ request.path = "none" /\ ~request.searched
  BY DEF MatchInit, Fresh
<1>3. HitsInv /\ PrimaryInv
  <2>1. Ids(<<>>) = {}
    BY DEF Ids
  <2> QED
    BY <1>2, <2>1 DEF HitsInv, PrimaryInv, Distinct
<1>4. FusedInv /\ FallbackInv /\ HybridInv
  BY <1>2 DEF FusedInv, FallbackInv, HybridInv
<1>5. ResultInv
  BY <1>2 DEF ResultInv, Ids
<1> QED
  BY <1>1, <1>3, <1>4, <1>5 DEF MatchInv

LEMMA HitFacts ==
    ASSUME HitsInv
    PROVE  /\ DOMAIN request.hits = 1..Len(request.hits) /\ Len(request.hits) \in Nat
           /\ \A i \in DOMAIN request.hits : request.hits[i].id \in Campaigns /\ request.hits[i].sim \in Int
           /\ Ids(request.hits) \subseteq Campaigns
<1> PICK hits : hits = request.hits
  OBVIOUS
<1>1. hits \in Seq(Hits)
  BY DEF HitsInv
<1>2. DOMAIN hits = 1..Len(hits) /\ Len(hits) \in Nat /\ \A i \in DOMAIN hits : hits[i] \in Hits
  BY <1>1
<1>3. \A i \in DOMAIN hits : hits[i].id \in Campaigns /\ hits[i].sim \in Int
  BY <1>2 DEF Hits
<1>4. Ids(hits) \subseteq Campaigns
  BY <1>3 DEF Ids
<1> QED
  BY <1>2, <1>3, <1>4

\* Most steps change the request only.
LEMMA WorldStays ==
    ASSUME WorldInv, Unchanging, Whole(request)'
    PROVE  WorldInv' /\ Still' = Still /\ stopped' = stopped
BY DEF WorldInv, Unchanging, Still

LEMMA WorldSame ==
    ASSUME Unchanging
    PROVE  /\ Still' = Still /\ stopped' = stopped /\ NobodyNear' = NobodyNear
           /\ \A c : Searchable(c)' = Searchable(c) /\ indexed' = indexed
<1>1. Still' = Still /\ stopped' = stopped /\ indexed' = indexed
  BY DEF Unchanging, Still
<1>2. \A c : Searchable(c)' = Searchable(c)
  BY <1>1 DEF Searchable
<1>3. NobodyNear' = NobodyNear
  BY <1>1, <1>2 DEF NobodyNear
<1> QED
  BY <1>1, <1>2, <1>3

\* A step that ends in candidates, or that only chooses the way.
LEMMA Answered ==
    ASSUME MatchInv, Unchanging, NEW path, NEW res, Matched(path, res),
           path \notin {"hybrid", "fallback"}, Ids(res) \intersect stopped = {},
           request.at \notin {"select", "ranked"},
           Still /\ request.searched /\ res = <<>> => NobodyNear
    PROVE  MatchInv'
<1>1. /\ Whole(request)' /\ request'.at = "matched" /\ request'.hits = request.hits
      /\ request'.primary = request.primary /\ request'.searched = request.searched
      /\ request'.path = path /\ request'.result = res
  BY DEF Matched, MatchInv, WorldInv, Whole
<1>2. WorldInv' /\ Still' = Still /\ stopped' = stopped /\ NobodyNear' = NobodyNear
  BY <1>1, WorldStays, WorldSame DEF MatchInv
<1>3. HitsInv' /\ PrimaryInv'
  BY <1>1, <1>2 DEF MatchInv, HitsInv, PrimaryInv
<1>4. FusedInv' /\ HybridInv'
  BY <1>1 DEF FusedInv, HybridInv
<1>5. FallbackInv'
  BY <1>1, <1>2 DEF FallbackInv
<1>6. ResultInv'
  BY <1>1, <1>2 DEF ResultInv
<1> QED
  BY <1>2, <1>3, <1>4, <1>5, <1>6 DEF MatchInv

LEMMA Moved ==
    ASSUME MatchInv, Unchanging, NEW at, request' = [request EXCEPT !.at = at],
           at \in {"lexical", "all", "tags", "documents"}, request.at \in {"start", "documents"}
    PROVE  MatchInv'
<1>1. /\ Whole(request)' /\ request'.at = at /\ request'.hits = request.hits
      /\ request'.primary = request.primary /\ request'.searched = request.searched
      /\ request'.path = request.path /\ request'.result = request.result
  BY DEF MatchInv, WorldInv, Whole
<1>2. WorldInv' /\ Still' = Still /\ stopped' = stopped /\ NobodyNear' = NobodyNear
  BY <1>1, WorldStays, WorldSame DEF MatchInv
<1>3. request.path # "hybrid" /\ request.path # "fallback" /\ ~request.searched
  BY DEF MatchInv, HybridInv, ResultInv, FallbackInv
<1>4. HitsInv' /\ PrimaryInv'
  BY <1>1, <1>2 DEF MatchInv, HitsInv, PrimaryInv
<1>5. FusedInv' /\ HybridInv' /\ FallbackInv'
  BY <1>1, <1>3 DEF FusedInv, HybridInv, FallbackInv
<1>6. ResultInv'
  BY <1>1, <1>2, <1>3 DEF MatchInv, ResultInv
<1> QED
  BY <1>2, <1>4, <1>5, <1>6 DEF MatchInv

LEMMA ModelNotReadyInv == MatchInv /\ ModelNotReady => MatchInv'
<1> SUFFICES ASSUME MatchInv, ModelNotReady
             PROVE  MatchInv'
  OBVIOUS
<1>1. CASE setting.fast
  BY <1>1, Moved DEF ModelNotReady
<1>2. CASE ~setting.fast
  <2>1. ~request.searched /\ Matched("empty", <<>>) /\ Ids(<<>>) = {}
    BY <1>2 DEF ModelNotReady, MatchInv, FallbackInv, Ids
  <2> QED
    BY <2>1, Answered DEF ModelNotReady
<1> QED
  BY <1>1, <1>2

LEMMA HaveEmbeddingInv == MatchInv /\ HaveEmbedding => MatchInv'
<1> SUFFICES ASSUME MatchInv, HaveEmbedding
             PROVE  MatchInv'
  OBVIOUS
<1>1. setting.ann \in {"off", "tags", "documents"}
  BY MatchAssumption DEF MatchInv, WorldInv
<1> PICK at : at = IF setting.ann = "off" THEN "all" ELSE setting.ann
  OBVIOUS
<1>2. at \in {"lexical", "all", "tags", "documents"} /\ request' = [request EXCEPT !.at = at]
  BY <1>1 DEF HaveEmbedding
<1> QED
  BY <1>2, Moved DEF HaveEmbedding

LEMMA EmbeddingPendingInv == MatchInv /\ EmbeddingPending => MatchInv'
BY Moved DEF EmbeddingPending

LEMMA SearchFailsInv == MatchInv /\ SearchFails => MatchInv'
BY Moved DEF SearchFails

LEMMA TaggedFacts ==
    ASSUME WorldInv
    PROVE  /\ TaggedCampaigns \in Seq(Campaigns)
           /\ DOMAIN TaggedCampaigns = 1..Len(TaggedCampaigns)
           /\ \A i \in DOMAIN TaggedCampaigns : Eligible(TaggedCampaigns[i])
           /\ \A i, j \in DOMAIN TaggedCampaigns : i # j => TaggedCampaigns[i] # TaggedCampaigns[j]
<1> PICK S : S = {c \in Campaigns : Eligible(c) /\ Matches(c) > 0}
  OBVIOUS
<1>s. PICK s : s = Sorted(S, LexicalOrder)
  OBVIOUS
<1>1. s \in SetToSeqs(S)
  BY <1>s, ByTags DEF WorldInv
<1>2. IsFiniteSet(S)
  BY FS_Subset, MatchAssumption
<1>3. /\ s \in Seq(S) /\ \A i \in DOMAIN s : s[i] \in S
      /\ \A i, j \in DOMAIN s : i # j => s[i] # s[j]
  BY <1>1, <1>2, SeqOfSet
<1>4. TaggedCampaigns = Leading(s, LexicalTopM)
  BY <1>s DEF TaggedCampaigns
<1>5. /\ TaggedCampaigns \in Seq(S) /\ DOMAIN TaggedCampaigns = 1..Len(TaggedCampaigns)
      /\ \A i \in DOMAIN TaggedCampaigns : i \in DOMAIN s /\ TaggedCampaigns[i] = s[i]
  BY <1>3, <1>4, LeadingFacts, MatchAssumption
<1>6. TaggedCampaigns \in Seq(Campaigns)
  BY <1>5
<1> QED
  BY <1>3, <1>5, <1>6

LEMMA LexicalInv == MatchInv /\ FindCandidatesByLexicalFallback => MatchInv'
<1> SUFFICES ASSUME MatchInv, FindCandidatesByLexicalFallback
             PROVE  MatchInv'
  OBVIOUS
<1> PICK res : res = [i \in DOMAIN TaggedCampaigns |-> LexicalCandidate(TaggedCampaigns[i])]
  OBVIOUS
<1>1. Ids(res) \intersect stopped = {}
  <2> SUFFICES ASSUME NEW i \in DOMAIN res
               PROVE  res[i].id \notin stopped
    BY DEF Ids
  <2>1. i \in DOMAIN TaggedCampaigns /\ res[i].id = TaggedCampaigns[i]
    BY DEF LexicalCandidate, Candidate
  <2>2. Eligible(TaggedCampaigns[i])
    BY <2>1, TaggedFacts DEF MatchInv
  <2> QED
    BY <2>1, <2>2 DEF MatchInv, WorldInv, Eligible
<1>2. Still /\ request.searched => NobodyNear
  BY DEF MatchInv, FallbackInv, FindCandidatesByLexicalFallback
<1> QED
  BY <1>1, <1>2, Answered DEF FindCandidatesByLexicalFallback

LEMMA TagsInv ==
    ASSUME MatchInv, Unchanging, NEW C \in SUBSET Campaigns, Matched("tags", ScoreEligibleCampaigns(C)),
           request.at \in {"all", "scoreTags"}
    PROVE  MatchInv'
<1> PICK S : S = {c \in C : Eligible(c) /\ HasTagEmbeddings(c) /\ ScoreCampaignByTags(c) >= TagThreshold}
  OBVIOUS
<1> PICK seq : seq = SetToSeq(S)
  OBVIOUS
<1>f. PICK res : res = ScoreEligibleCampaigns(C)
  OBVIOUS
<1>0. res = [i \in DOMAIN seq |-> Candidate(seq[i], ScoreCampaignByTags(seq[i]))]
  BY <1>f DEF ScoreEligibleCampaigns
<1>1. seq \in [1..Cardinality(S) -> S]
  <2>1. IsFiniteSet(S)
    BY FS_Subset, MatchAssumption
  <2> QED
    BY <2>1, SomeOrder
<1>2. Ids(res) \intersect stopped = {}
  <2> SUFFICES ASSUME NEW i \in DOMAIN res
               PROVE  res[i].id \notin stopped
    BY DEF Ids
  <2>1. i \in DOMAIN seq /\ res[i].id = seq[i]
    BY <1>0 DEF Candidate
  <2>2. Eligible(seq[i])
    BY <1>1, <2>1
  <2> QED
    BY <2>1, <2>2 DEF MatchInv, WorldInv, Eligible
<1>3. ~request.searched
  BY DEF MatchInv, FallbackInv
<1>4. Matched("tags", res)
  BY <1>f
<1> QED
  BY <1>2, <1>3, <1>4, Answered

LEMMA ScoreAllInv == MatchInv /\ ScoreAllCampaigns => MatchInv'
BY TagsInv DEF ScoreAllCampaigns

LEMMA ScoreTagsInv == MatchInv /\ ScoreTags => MatchInv'
<1> SUFFICES ASSUME MatchInv, ScoreTags
             PROVE  MatchInv'
  OBVIOUS
<1>1. Ids(request.hits) \subseteq Campaigns
  BY HitFacts DEF MatchInv
<1> QED
  BY <1>1, TagsInv DEF ScoreTags

LEMMA SearchTagsInv == MatchInv /\ SearchTags => MatchInv'
<1> SUFFICES ASSUME MatchInv, SearchTags
             PROVE  MatchInv'
  OBVIOUS
<1> PICK S : S = {c \in Campaigns : Searchable(c) /\ indexed[c].tags # {}}
  OBVIOUS
<1>1. Unchanging /\ request.at = "tags"
  BY DEF SearchTags
<1>p. PICK ranked \in SetToSeqs(S) :
         LET hits == Leading(ranked, TopM)
         IN  IF hits = <<>> THEN Matched("empty", <<>>)
             ELSE request' = [request EXCEPT !.at = "scoreTags",
                              !.hits = [i \in DOMAIN hits |-> Hit(hits[i], 0)]]
  BY DEF SearchTags
<1> PICK hits : hits = Leading(ranked, TopM)
  OBVIOUS
<1>2. CASE hits = <<>>
  <2>1. ~request.searched /\ Matched("empty", <<>>) /\ Ids(<<>>) = {}
    BY <1>1, <1>2, <1>p DEF MatchInv, FallbackInv, Ids
  <2> QED
    BY <1>1, <2>1, Answered
<1>3. CASE hits # <<>>
  <2> PICK found : found = [i \in DOMAIN hits |-> Hit(hits[i], 0)]
    OBVIOUS
  <2>1. request' = [request EXCEPT !.at = "scoreTags", !.hits = found]
    BY <1>3, <1>p
  <2>2. /\ Whole(request)' /\ request'.at = "scoreTags" /\ request'.hits = found
        /\ request'.primary = request.primary /\ request'.searched = request.searched
        /\ request'.path = request.path /\ request'.result = request.result
    BY <2>1 DEF MatchInv, WorldInv, Whole
  <2>3. WorldInv' /\ Still' = Still /\ stopped' = stopped
    BY <1>1, <2>2, WorldStays DEF MatchInv
  <2>4. found \in Seq(Hits) /\ Distinct(found)
    <3>1. IsFiniteSet(S)
      BY FS_Subset, MatchAssumption
    <3>2. /\ ranked \in Seq(S) /\ \A i \in DOMAIN ranked : ranked[i] \in S
          /\ \A i, j \in DOMAIN ranked : i # j => ranked[i] # ranked[j]
      BY <3>1, SeqOfSet
    <3>3. /\ hits \in Seq(S) /\ DOMAIN hits = 1..Len(hits)
          /\ \A i \in DOMAIN hits : i \in DOMAIN ranked /\ hits[i] = ranked[i]
      BY <3>2, LeadingFacts, MatchAssumption
    <3>4. \A i \in DOMAIN hits : found[i] \in Hits /\ found[i].id = hits[i]
      <4> TAKE i \in DOMAIN hits
      <4>1. hits[i] \in Campaigns /\ found[i] = [id |-> hits[i], sim |-> 0]
        BY <3>2, <3>3 DEF Hit
      <4> QED
        BY <4>1 DEF Hits
    <3>5. found \in Seq(Hits) /\ DOMAIN found = DOMAIN hits
      BY <3>3, <3>4
    <3> QED
      BY <3>2, <3>3, <3>4, <3>5 DEF Distinct
  <2>5. HitsInv'
    BY <2>2, <2>4 DEF HitsInv
  <2>6. PrimaryInv'
    <3>1. request.primary = <<>> /\ Ids(<<>>) = {}
      BY <1>1 DEF MatchInv, PrimaryInv, Ids
    <3> QED
      BY <2>2, <3>1 DEF PrimaryInv, Distinct
  <2>7. request.path # "hybrid" /\ request.path # "fallback" /\ ~request.searched
    BY <1>1 DEF MatchInv, HybridInv, ResultInv, FallbackInv
  <2>8. FusedInv' /\ HybridInv' /\ FallbackInv'
    BY <2>2, <2>7 DEF FusedInv, HybridInv, FallbackInv
  <2>9. ResultInv'
    BY <2>2, <2>3, <2>7 DEF MatchInv, ResultInv
  <2> QED
    BY <2>3, <2>5, <2>6, <2>8, <2>9 DEF MatchInv
<1> QED
  BY <1>2, <1>3

\* What the index answers: the nearest documents, nearest first.
LEMMA DocumentFacts ==
    ASSUME WorldInv
    PROVE  /\ DocumentHits \in Seq(Hits) /\ Distinct(DocumentHits)
           /\ \A i \in DOMAIN DocumentHits : /\ Searchable(DocumentHits[i].id)
                                             /\ indexed[DocumentHits[i].id].document = DocumentHits[i].sim
           /\ DocumentHits = <<>> => \A c \in Campaigns : ~Searchable(c)
           /\ \A c \in Campaigns : Searchable(c) => indexed[c].document <= DocumentHits[1].sim
<1> PICK S : S = {c \in Campaigns : Searchable(c)}
  OBVIOUS
<1> PICK all : all = DocumentHits
  OBVIOUS
<1>1. \A c \in S : indexed[c].document # NoVector
  BY DEF Searchable
<1>2. PICK s \in SetToSeqs(S) :
         /\ s = Sorted(S, Nearer)
         /\ \A i, j \in DOMAIN s : i < j => indexed[s[j]].document <= indexed[s[i]].document
  BY <1>1, ByNearness DEF WorldInv
<1>d. \A i, j \in DOMAIN s : i < j => indexed[s[j]].document <= indexed[s[i]].document
  BY <1>2
<1>3. IsFiniteSet(S)
  BY FS_Subset, MatchAssumption
<1>4. /\ s \in Seq(S) /\ Len(s) \in Nat /\ DOMAIN s = 1..Len(s) /\ \A i \in DOMAIN s : s[i] \in S
      /\ \A i, j \in DOMAIN s : i # j => s[i] # s[j]
      /\ \A c \in S : \E i \in DOMAIN s : s[i] = c
  BY <1>3, SeqOfSet
<1>r. PICK ranked : ranked = Leading(s, TopL)
  OBVIOUS
<1>5. all = [i \in DOMAIN ranked |-> Hit(ranked[i], indexed[ranked[i]].document)]
  BY <1>2, <1>r DEF DocumentHits
<1>6. /\ ranked \in Seq(S) /\ DOMAIN ranked = 1..Len(ranked)
      /\ Len(ranked) = IF TopL <= Len(s) THEN TopL ELSE Len(s)
      /\ \A i \in DOMAIN ranked : i \in DOMAIN s /\ ranked[i] = s[i]
  BY <1>4, <1>r, LeadingFacts, MatchAssumption
<1>n. \A c \in S : c \in Campaigns /\ indexed[c].document \in Int
  BY <1>1, MatchAssumption DEF WorldInv
<1>7. \A i \in DOMAIN ranked : /\ all[i] \in Hits /\ all[i].id = ranked[i]
                               /\ all[i].sim = indexed[ranked[i]].document /\ ranked[i] \in S
  <2> TAKE i \in DOMAIN ranked
  <2>1. ranked[i] \in S /\ all[i] = [id |-> ranked[i], sim |-> indexed[ranked[i]].document]
    BY <1>4, <1>5, <1>6 DEF Hit
  <2> QED
    BY <2>1, <1>n DEF Hits
<1>8. DOMAIN all = DOMAIN ranked /\ all \in Seq(Hits) /\ Len(all) = Len(ranked)
  <2>1. Len(ranked) \in Nat /\ DOMAIN all = 1..Len(ranked)
    BY <1>5, <1>6
  <2>2. all = [i \in 1..Len(ranked) |-> all[i]] /\ \A i \in 1..Len(ranked) : all[i] \in Hits
    BY <1>5, <1>6, <1>7
  <2>3. all \in Seq(Hits)
    BY <2>1, <2>2
  <2> QED
    BY <1>6, <2>1, <2>3
<1>9. Distinct(all)
  BY <1>4, <1>6, <1>7, <1>8 DEF Distinct
<1>10. \A c \in S : 1 \in DOMAIN s /\ 1 \in DOMAIN ranked
  <2> TAKE c \in S
  <2> PICK i \in DOMAIN s : s[i] = c
    BY <1>4
  <2>1. i \in 1..Len(s)
    BY <1>4
  <2> QED
    BY <2>1, <1>4, <1>6, MatchAssumption
<1>11. all = <<>> => \A c \in Campaigns : ~Searchable(c)
  BY <1>8, <1>10
<1>12. \A c \in S : indexed[c].document <= all[1].sim
  <2> TAKE c \in S
  <2> PICK i \in DOMAIN s : s[i] = c
    BY <1>4
  <2>1. 1 \in DOMAIN s /\ ranked[1] = s[1] /\ all[1].sim = indexed[s[1]].document /\ s[1] \in S
    BY <1>6, <1>7, <1>10
  <2>2. i = 1 \/ 1 < i
    BY <1>4
  <2>3. CASE i = 1
    BY <2>1, <2>3, <1>n
  <2>4. CASE 1 < i
    BY <2>1, <2>4, <1>d
  <2> QED
    BY <2>2, <2>3, <2>4
<1> QED
  BY <1>7, <1>8, <1>9, <1>11, <1>12

LEMMA SearchDocumentsInv == MatchInv /\ SearchDocuments => MatchInv'
<1> SUFFICES ASSUME MatchInv, SearchDocuments
             PROVE  MatchInv'
  OBVIOUS
<1>a. PICK all : all = DocumentHits
  OBVIOUS
<1>k. PICK kept : kept = Selected(all, Retain)
  OBVIOUS
<1>h. PICK hits : hits = Leading(kept, TopM)
  OBVIOUS
<1>t. PICK at : at = IF all = <<>> THEN "lexical" ELSE IF hits = <<>> THEN "matched" ELSE "load"
  OBVIOUS
<1>1. Unchanging /\ request.at = "documents" /\ request' = [request EXCEPT !.searched = TRUE, !.hits = hits, !.at = at]
  BY <1>a, <1>h, <1>t, <1>k DEF SearchDocuments
<1>2. /\ Whole(request)' /\ request'.at = at /\ request'.hits = hits
      /\ request'.primary = request.primary /\ request'.searched = TRUE
      /\ request'.path = request.path /\ request'.result = request.result
  BY <1>1 DEF MatchInv, WorldInv, Whole
<1>3. /\ WorldInv' /\ Still' = Still /\ stopped' = stopped /\ NobodyNear' = NobodyNear
      /\ indexed' = indexed /\ \A c : Searchable(c)' = Searchable(c)
  BY <1>1, <1>2, WorldStays, WorldSame DEF MatchInv
<1>4. /\ all \in Seq(Hits) /\ Distinct(all)
      /\ \A i \in DOMAIN all : Searchable(all[i].id) /\ indexed[all[i].id].document = all[i].sim
      /\ all = <<>> => \A c \in Campaigns : ~Searchable(c)
      /\ \A c \in Campaigns : Searchable(c) => indexed[c].document <= all[1].sim
  BY <1>a, DocumentFacts DEF MatchInv
<1>K. PICK K : K = {i \in DOMAIN all : all[i].sim >= DocumentThreshold}
  OBVIOUS
<1>5. kept = Kept(all, K)
  BY <1>k, <1>K DEF Selected, Retain, Kept
<1>6. /\ kept \in Seq(Hits) /\ DOMAIN kept = 1..Len(kept) /\ Len(kept) \in Nat
      /\ \A k \in DOMAIN kept : \E i \in K : kept[k] = all[i]
      /\ \A i \in K : \E k \in DOMAIN kept : kept[k] = all[i]
      /\ \A k, l \in DOMAIN kept : k < l => \E i, j \in K : i < j /\ kept[k] = all[i] /\ kept[l] = all[j]
  <2>1. K \in SUBSET (DOMAIN all) /\ all \in Seq(Hits)
    BY <1>4, <1>K
  <2> QED
    BY <2>1, <1>5, KeptFacts
<1>7. Distinct(kept)
  <2>1. \A k, l \in DOMAIN kept : k < l => kept[k].id # kept[l].id
    <3> SUFFICES ASSUME NEW k \in DOMAIN kept, NEW l \in DOMAIN kept, k < l
                 PROVE  kept[k].id # kept[l].id
      OBVIOUS
    <3> PICK i \in K, j \in K : i < j /\ kept[k] = all[i] /\ kept[l] = all[j]
      BY <1>6
    <3>1. i \in DOMAIN all /\ j \in DOMAIN all /\ i # j
      BY <1>4, <1>K
    <3> QED
      BY <3>1, <1>4 DEF Distinct
  <2>2. \A k, l \in DOMAIN kept : k # l => k < l \/ l < k
    BY <1>6
  <2> QED
    BY <2>1, <2>2 DEF Distinct
<1>8. /\ hits \in Seq(Hits) /\ DOMAIN hits = 1..Len(hits)
      /\ Len(hits) = IF TopM <= Len(kept) THEN TopM ELSE Len(kept)
      /\ \A i \in DOMAIN hits : i \in DOMAIN kept /\ hits[i] = kept[i]
  BY <1>6, <1>h, LeadingFacts, MatchAssumption
<1>9. Distinct(hits)
  BY <1>7, <1>8 DEF Distinct
<1>10. \A i \in DOMAIN hits : /\ Searchable(hits[i].id) /\ indexed[hits[i].id].document = hits[i].sim
                              /\ hits[i].sim >= DocumentThreshold
  <2> TAKE k \in DOMAIN hits
  <2> PICK i \in K : kept[k] = all[i]
    BY <1>6, <1>8
  <2> QED
    BY <1>4, <1>8, <1>K
<1>11. hits = <<>> => NobodyNear
  <2> SUFFICES ASSUME hits = <<>>, NEW c \in Campaigns, Searchable(c), indexed[c].document >= DocumentThreshold
               PROVE  FALSE
    BY DEF NobodyNear
  <2>1. all # <<>>
    BY <1>4
  <2>2. 1 \in DOMAIN all /\ all[1] \in Hits
    BY <2>1, <1>4
  <2>3. all[1].sim \in Int /\ DocumentThreshold \in Int /\ indexed[c].document \in Int
    BY <2>2, MatchAssumption DEF Hits, MatchInv, WorldInv, Searchable
  <2>4. indexed[c].document <= all[1].sim
    BY <1>4
  <2>5. all[1].sim >= DocumentThreshold
    BY <2>3, <2>4
  <2>6. 1 \in K
    BY <2>2, <2>5, <1>K
  <2> PICK k \in DOMAIN kept : kept[k] = all[1]
    BY <2>6, <1>6
  <2>7. Len(kept) >= 1
    BY <1>6
  <2>8. Len(hits) >= 1
    BY <2>7, <1>6, <1>8, MatchAssumption
  <2> QED
    BY <2>8
<1>12. HitsInv'
  BY <1>2, <1>3, <1>8, <1>9, <1>10 DEF HitsInv
<1>13. PrimaryInv'
  <2>1. request.primary = <<>> /\ Ids(<<>>) = {} /\ at \notin {"sparse", "rerank"}
    BY <1>1, <1>t DEF MatchInv, PrimaryInv, Ids
  <2> QED
    BY <1>2, <2>1 DEF PrimaryInv, Distinct
<1>14. request.path # "hybrid" /\ request.path # "fallback"
  BY <1>1 DEF MatchInv, HybridInv, ResultInv
<1>15. FusedInv' /\ HybridInv'
  BY <1>2, <1>t, <1>14 DEF FusedInv, HybridInv
<1>16. FallbackInv'
  <2>1. all = <<>> => NobodyNear
    BY <1>4 DEF NobodyNear
  <2> QED
    BY <1>2, <1>3, <1>t, <1>11, <1>14, <2>1 DEF FallbackInv
<1>17. ResultInv'
  BY <1>2, <1>3, <1>t, <1>14 DEF MatchInv, ResultInv
<1> QED
  BY <1>3, <1>12, <1>13, <1>15, <1>16, <1>17 DEF MatchInv

LEMMA CandidateFacts ==
    ASSUME NEW c \in Campaigns, NEW sim \in Int
    PROVE  Candidate(c, sim) \in Scored /\ Candidate(c, sim).id = c /\ Candidate(c, sim).dense = TRUE
<1>1. Cpc[c] \in Nat
  BY MatchAssumption
<1>2. Score(c, sim) \in Int
  BY <1>1 DEF Score
<1> QED
  BY <1>2 DEF Candidate, Scored

LEMMA LoadCampaignsInv == MatchInv /\ LoadCampaigns => MatchInv'
<1> SUFFICES ASSUME MatchInv, LoadCampaigns
             PROVE  MatchInv'
  OBVIOUS
<1>h. PICK hits : hits = request.hits
  OBVIOUS
<1>k. PICK kept : kept = Selected(request.hits, LAMBDA hit : Eligible(hit.id))
  OBVIOUS
<1>p. PICK primary : primary = [i \in DOMAIN kept |-> Candidate(kept[i].id, kept[i].sim)]
  OBVIOUS
<1>K. PICK K : K = {i \in DOMAIN hits : Eligible(hits[i].id)}
  OBVIOUS
<1>1. /\ Unchanging /\ request.at = "load"
      /\ IF primary = <<>> THEN Matched("empty", <<>>)
         ELSE IF setting.hybrid THEN request' = [request EXCEPT !.at = "sparse", !.primary = primary]
         ELSE Matched("dense", primary)
  BY <1>k, <1>p DEF LoadCampaigns
<1>2. /\ hits \in Seq(Hits) /\ Distinct(hits) /\ DOMAIN hits = 1..Len(hits)
      /\ \A i \in DOMAIN hits : hits[i].id \in Campaigns /\ hits[i].sim \in Int
      /\ hits # <<>>
      /\ Still => \A i \in DOMAIN hits : Searchable(hits[i].id)
  BY <1>h, <1>1, HitFacts DEF MatchInv, HitsInv, FallbackInv
<1>3. kept = Kept(hits, K)
  BY <1>h, <1>k, <1>K DEF Selected, Kept
<1>4. /\ kept \in Seq(Hits) /\ DOMAIN kept = 1..Len(kept) /\ Len(kept) \in Nat
      /\ \A k \in DOMAIN kept : \E i \in K : kept[k] = hits[i]
      /\ \A i \in K : \E k \in DOMAIN kept : kept[k] = hits[i]
      /\ \A k, l \in DOMAIN kept : k < l => \E i, j \in K : i < j /\ kept[k] = hits[i] /\ kept[l] = hits[j]
  <2>1. K \in SUBSET (DOMAIN hits) /\ hits \in Seq(Hits)
    BY <1>2, <1>K
  <2> QED
    BY <2>1, <1>3, KeptFacts
<1>5. Distinct(kept)
  <2>1. \A k, l \in DOMAIN kept : k < l => kept[k].id # kept[l].id
    <3> SUFFICES ASSUME NEW k \in DOMAIN kept, NEW l \in DOMAIN kept, k < l
                 PROVE  kept[k].id # kept[l].id
      OBVIOUS
    <3> PICK i \in K, j \in K : i < j /\ kept[k] = hits[i] /\ kept[l] = hits[j]
      BY <1>4
    <3>1. i \in DOMAIN hits /\ j \in DOMAIN hits /\ i # j
      BY <1>2, <1>K
    <3> QED
      BY <3>1, <1>2 DEF Distinct
  <2>2. \A k, l \in DOMAIN kept : k # l => k < l \/ l < k
    BY <1>4
  <2> QED
    BY <2>1, <2>2 DEF Distinct
<1>6. \A k \in DOMAIN kept : /\ kept[k].id \in Campaigns /\ kept[k].sim \in Int
                             /\ Eligible(kept[k].id) /\ kept[k].id \in Ids(hits)
  <2> TAKE k \in DOMAIN kept
  <2> PICK i \in K : kept[k] = hits[i]
    BY <1>4
  <2> QED
    BY <1>2, <1>K DEF Ids
<1>7. \A k \in DOMAIN kept : primary[k] \in Scored /\ primary[k].id = kept[k].id
  BY <1>6, <1>p, CandidateFacts
<1>8. primary \in Seq(Scored) /\ DOMAIN primary = DOMAIN kept /\ Len(primary) = Len(kept)
  <2>1. DOMAIN primary = 1..Len(kept) /\ primary = [i \in 1..Len(kept) |-> primary[i]]
    BY <1>4, <1>p
  <2> QED
    BY <2>1, <1>4, <1>7
<1>9. Distinct(primary)
  BY <1>5, <1>7, <1>8 DEF Distinct
<1>10. Ids(primary) \subseteq Ids(hits) /\ Ids(primary) \intersect stopped = {}
  <2> SUFFICES ASSUME NEW k \in DOMAIN primary
               PROVE  primary[k].id \in Ids(hits) /\ primary[k].id \notin stopped
    BY DEF Ids
  <2>1. primary[k].id \in Ids(hits) /\ Eligible(primary[k].id)
    BY <1>6, <1>7, <1>8
  <2> QED
    BY <2>1 DEF MatchInv, WorldInv, Eligible
<1>11. Still => primary # <<>>
  <2> SUFFICES ASSUME Still
               PROVE  primary # <<>>
    OBVIOUS
  <2>1. 1 \in DOMAIN hits
    BY <1>2
  <2>2. Eligible(hits[1].id)
    BY <2>1, <1>2 DEF MatchInv, WorldInv, Searchable, Eligible
  <2> PICK k \in DOMAIN kept : kept[k] = hits[1]
    BY <2>1, <2>2, <1>4, <1>K
  <2> QED
    BY <1>8
<1>12. CASE primary = <<>>
  <2>1. Ids(<<>>) = {} /\ Matched("empty", <<>>)
    BY <1>1, <1>12 DEF Ids
  <2> QED
    BY <2>1, <1>1, <1>11, <1>12, Answered
<1>13. CASE primary # <<>> /\ ~setting.hybrid
  BY <1>1, <1>10, <1>13, Answered
<1>14. CASE primary # <<>> /\ setting.hybrid
  <2>1. /\ Whole(request)' /\ request'.at = "sparse" /\ request'.hits = request.hits
        /\ request'.primary = primary /\ request'.searched = request.searched
        /\ request'.path = request.path /\ request'.result = request.result
    BY <1>1, <1>14 DEF MatchInv, WorldInv, Whole
  <2>2. /\ WorldInv' /\ Still' = Still /\ stopped' = stopped /\ NobodyNear' = NobodyNear
        /\ indexed' = indexed /\ \A c : Searchable(c)' = Searchable(c)
    BY <1>1, <2>1, WorldStays, WorldSame DEF MatchInv
  <2>3. HitsInv'
    BY <1>1, <2>1, <2>2 DEF MatchInv, HitsInv
  <2>4. PrimaryInv'
    BY <1>8, <1>9, <1>10, <1>14, <1>h, <2>1, <2>2 DEF PrimaryInv
  <2>5. request.path # "hybrid" /\ request.path # "fallback"
    BY <1>1 DEF MatchInv, HybridInv, ResultInv
  <2>6. FusedInv' /\ HybridInv' /\ FallbackInv'
    BY <2>1, <2>5 DEF FusedInv, HybridInv, FallbackInv
  <2>7. ResultInv'
    BY <2>1, <2>2, <2>5 DEF MatchInv, ResultInv
  <2> QED
    BY <2>2, <2>3, <2>4, <2>6, <2>7 DEF MatchInv
<1> QED
  BY <1>12, <1>13, <1>14

LEMMA RankFacts ==
    ASSUME NEW s, DOMAIN s \subseteq Nat \ {0}, NEW c
    PROVE  RankOf(c, s) \in Nat /\ (RankOf(c, s) > 0 <=> c \in Ids(s))
<1>1. CASE c \in Ids(s)
  <2>1. \E i \in DOMAIN s : s[i].id = c
    BY <1>1 DEF Ids
  <2>2. RankOf(c, s) \in DOMAIN s
    BY <1>1, <2>1 DEF RankOf
  <2>3. RankOf(c, s) \in Nat \ {0}
    BY <2>2
  <2> QED
    BY <1>1, <2>3
<1>2. CASE c \notin Ids(s)
  BY <1>2 DEF RankOf
<1> QED
  BY <1>1, <1>2

LEMMA Shares ==
    ASSUME NEW rank \in Nat
    PROVE  DenseShare(rank) \in Int /\ SparseShare(rank) \in Int /\ SparseShare(rank) \div 100 \in Int
<1>1. 60 + rank \in Nat /\ 60 + rank > 0
  OBVIOUS
<1>2. 100000000 \div (60 + rank) \in Int /\ 20000000 \div (60 + rank) \in Int
  BY <1>1
<1> QED
  BY <1>2 DEF DenseShare, SparseShare

LEMMA RankSparseInv == MatchInv /\ RankSparse => MatchInv'
<1> SUFFICES ASSUME MatchInv, RankSparse
             PROVE  MatchInv'
  OBVIOUS
<1>h. PICK hits : hits = request.hits
  OBVIOUS
<1>t. PICK tagged : tagged = [i \in DOMAIN TaggedCampaigns |-> Hit(TaggedCampaigns[i], Coverage(TaggedCampaigns[i]))]
  OBVIOUS
<1>I. PICK I : I = Ids(hits) \union Ids(tagged)
  OBVIOUS
<1>f. PICK f : f = [c \in I |-> [id |-> c, dense |-> RankOf(c, hits), sparse |-> RankOf(c, tagged),
                     share |-> DenseShare(RankOf(c, hits)) + SparseShare(RankOf(c, tagged))]]
  OBVIOUS
<1>S. PICK S : S = {f[c] : c \in I}
  OBVIOUS
<1>u. PICK fused : fused = FuseHybridRankings(hits, tagged)
  OBVIOUS
<1>1. Unchanging /\ request.at = "sparse" /\ request' = [request EXCEPT !.at = "rerank", !.fused = fused]
  BY <1>h, <1>t, <1>u DEF RankSparse
<1>2. fused = Sorted(S, FusionOrder)
  <2>1. S = {[id |-> c, dense |-> RankOf(c, hits), sparse |-> RankOf(c, tagged),
              share |-> DenseShare(RankOf(c, hits)) + SparseShare(RankOf(c, tagged))]
                : c \in Ids(hits) \union Ids(tagged)}
    BY <1>f, <1>I, <1>S
  <2> QED
    BY <2>1, <1>u DEF FuseHybridRankings
<1>3. /\ TaggedCampaigns \in Seq(Campaigns) /\ DOMAIN TaggedCampaigns = 1..Len(TaggedCampaigns)
      /\ \A i \in DOMAIN TaggedCampaigns : TaggedCampaigns[i] \in Campaigns
  BY TaggedFacts DEF MatchInv
<1>4. DOMAIN tagged \subseteq Nat \ {0} /\ Ids(tagged) \subseteq Campaigns
  <2>1. DOMAIN tagged = DOMAIN TaggedCampaigns
    BY <1>t
  <2>2. \A i \in DOMAIN tagged : tagged[i].id = TaggedCampaigns[i]
    BY <1>t DEF Hit
  <2>3. \A i \in DOMAIN tagged : tagged[i].id \in Campaigns
    BY <1>3, <2>1, <2>2
  <2> QED
    BY <1>3, <2>1, <2>3 DEF Ids
<1>5. DOMAIN hits \subseteq Nat \ {0} /\ Ids(hits) \subseteq Campaigns
  BY <1>h, HitFacts DEF MatchInv
<1>6. \A c \in I : /\ f[c].id = c /\ f[c] \in Fused
                   /\ f[c].dense > 0 <=> c \in Ids(hits)
                   /\ f[c].dense > 0 \/ f[c].sparse > 0
  <2> TAKE c \in I
  <2>1. RankOf(c, hits) \in Nat /\ (RankOf(c, hits) > 0 <=> c \in Ids(hits))
    BY <1>5, RankFacts
  <2>2. RankOf(c, tagged) \in Nat /\ (RankOf(c, tagged) > 0 <=> c \in Ids(tagged))
    BY <1>4, RankFacts
  <2>3. DenseShare(RankOf(c, hits)) + SparseShare(RankOf(c, tagged)) \in Int
    BY <2>1, <2>2, Shares
  <2>4. c \in Campaigns /\ (c \in Ids(hits) \/ c \in Ids(tagged))
    BY <1>4, <1>5, <1>I
  <2>5. f[c] = [id |-> c, dense |-> RankOf(c, hits), sparse |-> RankOf(c, tagged),
                share |-> DenseShare(RankOf(c, hits)) + SparseShare(RankOf(c, tagged))]
    BY <1>f
  <2> QED
    BY <2>1, <2>2, <2>3, <2>4, <2>5 DEF Fused
<1>7. IsFiniteSet(S)
  <2>1. IsFiniteSet(I)
    BY <1>4, <1>5, <1>I, FS_Subset, MatchAssumption
  <2> QED
    BY <2>1, <1>S, FiniteImage
<1>8. /\ S \subseteq Fused /\ \A x \in S : x.dense > 0 \/ x.sparse > 0
      /\ \A x, y \in S : x.id = y.id => x = y
  BY <1>6, <1>S
<1>9. fused \in SetToSeqs(S)
  <2>1. Sorted(S, FusionOrder) \in SetToSeqs(S)
    BY <1>7, <1>8, ByFusion
  <2> QED
    BY <2>1, <1>2
<1>10. /\ fused \in Seq(S) /\ \A i \in DOMAIN fused : fused[i] \in S
       /\ \A i, j \in DOMAIN fused : i # j => fused[i] # fused[j]
       /\ \A x \in S : \E i \in DOMAIN fused : fused[i] = x
  BY <1>7, <1>9, SeqOfSet
<1>11. fused \in Seq(Fused) /\ Distinct(fused)
  BY <1>8, <1>10 DEF Distinct
<1>12. \A i \in DOMAIN fused : fused[i].dense > 0 <=> fused[i].id \in Ids(hits)
  <2> TAKE i \in DOMAIN fused
  <2> PICK c \in I : fused[i] = f[c]
    BY <1>10, <1>S
  <2> QED
    BY <1>6
<1>13. Ids(hits) \subseteq Ids(fused)
  <2> SUFFICES ASSUME NEW c \in Ids(hits)
               PROVE  c \in Ids(fused)
    OBVIOUS
  <2>1. c \in I /\ f[c] \in S
    BY <1>I, <1>S
  <2> PICK i \in DOMAIN fused : fused[i] = f[c]
    BY <2>1, <1>10
  <2> QED
    BY <2>1, <1>6 DEF Ids
<1>14. /\ Whole(request)' /\ request'.at = "rerank" /\ request'.hits = request.hits
       /\ request'.primary = request.primary /\ request'.fused = fused
       /\ request'.searched = request.searched
       /\ request'.path = request.path /\ request'.result = request.result
  BY <1>1 DEF MatchInv, WorldInv, Whole
<1>15. /\ WorldInv' /\ Still' = Still /\ stopped' = stopped
       /\ indexed' = indexed /\ \A c : Searchable(c)' = Searchable(c)
  BY <1>1, <1>14, WorldStays, WorldSame DEF MatchInv
<1>16. HitsInv'
  BY <1>1, <1>14, <1>15 DEF MatchInv, HitsInv
<1>17. PrimaryInv'
  BY <1>1, <1>14, <1>15 DEF MatchInv, PrimaryInv
<1>18. FusedInv'
  BY <1>11, <1>12, <1>13, <1>14, <1>h DEF FusedInv
<1>19. request.path # "hybrid" /\ request.path # "fallback"
  BY <1>1 DEF MatchInv, HybridInv, ResultInv
<1>20. HybridInv' /\ FallbackInv'
  BY <1>14, <1>19 DEF HybridInv, FallbackInv
<1>21. ResultInv'
  BY <1>14, <1>15, <1>19 DEF MatchInv, ResultInv
<1> QED
  BY <1>15, <1>16, <1>17, <1>18, <1>20, <1>21 DEF MatchInv

LEMMA WinnerSame ==
    ASSUME request'.primary = request.primary
    PROVE  DenseWinner' = DenseWinner
BY DEF DenseWinner, CandidateOrder

LEMMA HybridStays ==
    ASSUME HybridResult, request'.primary = request.primary, request'.result = request.result, Still' => Still
    PROVE  HybridResult'
<1>1. DenseWinner' = DenseWinner
  BY WinnerSame
<1> QED
  BY <1>1 DEF HybridResult

LEMMA PoolFacts ==
    ASSUME MatchInv, request.at = "rerank"
    PROVE  /\ IsFiniteSet(ToSet(Pool)) /\ ToSet(Pool) \subseteq ToSet(request.fused)
           /\ \A x \in ToSet(request.fused) : x.dense > 0 => x \in ToSet(Pool)
<1>f. PICK fused : fused = request.fused
  OBVIOUS
<1>d. PICK dense : dense = Selected(fused, LAMBDA item : item.dense > 0)
  OBVIOUS
<1>s. PICK supplements : supplements = Selected(fused, LAMBDA item : item.dense = 0)
  OBVIOUS
<1>K. PICK K : K = {i \in DOMAIN fused : fused[i].dense > 0}
  OBVIOUS
<1>J. PICK J : J = {i \in DOMAIN fused : fused[i].dense = 0}
  OBVIOUS
<1>l. PICK few : few = Leading(supplements, SupplementLimit)
  OBVIOUS
<1>1. Pool = dense \o few
  BY <1>d, <1>f, <1>l, <1>s DEF Pool
<1>2. fused \in Seq(Fused)
  BY <1>f DEF MatchInv, FusedInv
<1>3. dense = Kept(fused, K) /\ K \in SUBSET (DOMAIN fused)
  BY <1>d, <1>K DEF Selected, Kept
<1>4. supplements = Kept(fused, J) /\ J \in SUBSET (DOMAIN fused)
  BY <1>s, <1>J DEF Selected, Kept
<1>5. /\ dense \in Seq(Fused) /\ DOMAIN dense = 1..Len(dense) /\ Len(dense) \in Nat
      /\ \A k \in DOMAIN dense : \E i \in K : dense[k] = fused[i]
      /\ \A i \in K : \E k \in DOMAIN dense : dense[k] = fused[i]
  BY <1>2, <1>3, KeptFacts
<1>6. /\ supplements \in Seq(Fused)
      /\ \A k \in DOMAIN supplements : \E i \in J : supplements[k] = fused[i]
  BY <1>2, <1>4, KeptFacts
<1>7. /\ few \in Seq(Fused) /\ DOMAIN few = 1..Len(few)
      /\ \A k \in DOMAIN few : k \in DOMAIN supplements /\ few[k] = supplements[k]
  BY <1>6, <1>l, LeadingFacts, MatchAssumption
<1>8. \A k \in DOMAIN dense : dense[k] \in ToSet(fused)
  BY <1>5, <1>3 DEF ToSet
<1>9. \A k \in DOMAIN few : few[k] \in ToSet(fused)
  BY <1>6, <1>7, <1>4 DEF ToSet
<1>10. PICK pool : pool = dense \o few
  OBVIOUS
<1>11. /\ pool \in Seq(Fused) /\ Len(pool) = Len(dense) + Len(few) /\ DOMAIN pool = 1..Len(pool)
       /\ \A k \in 1..Len(dense) : k \in DOMAIN pool /\ pool[k] = dense[k]
       /\ \A k \in DOMAIN pool : k \notin 1..Len(dense) =>
            k - Len(dense) \in 1..Len(few) /\ pool[k] = few[k - Len(dense)]
  BY <1>5, <1>7, <1>10
<1>12. \A k \in DOMAIN pool : pool[k] \in ToSet(fused)
  BY <1>5, <1>7, <1>8, <1>9, <1>11
<1>13. ToSet(pool) \subseteq ToSet(fused)
  BY <1>12 DEF ToSet
<1>14. \A x \in ToSet(fused) : x.dense > 0 => x \in ToSet(pool)
  <2> SUFFICES ASSUME NEW x \in ToSet(fused), x.dense > 0
               PROVE  x \in ToSet(pool)
    OBVIOUS
  <2> PICK i \in DOMAIN fused : x = fused[i]
    BY DEF ToSet
  <2>1. i \in K
    BY <1>K
  <2> PICK k \in DOMAIN dense : dense[k] = x
    BY <2>1, <1>5
  <2>2. k \in DOMAIN pool /\ pool[k] = x
    BY <1>5, <1>11
  <2> QED
    BY <2>2 DEF ToSet
<1>15. IsFiniteSet(ToSet(pool))
  BY <1>11, ElementsOf
<1> QED
  BY <1>1, <1>10, <1>13, <1>14, <1>15, <1>f

LEMMA ExactFacts ==
    ASSUME MatchInv, request.at = "rerank"
    PROVE  /\ Field(ExactReranked)
           /\ \A x \in ExactReranked : Eligible(x.id) /\ (x.dense <=> x.id \in Ids(request.hits))
           /\ Still => Ids(request.hits) \subseteq IdsOf(ExactReranked)
<1>Q. PICK Q : Q = {i \in ToSet(Pool) : /\ Eligible(i.id) /\ served[i.id].document # NoVector
                                       /\ served[i.id].document >= DocumentThreshold}
  OBVIOUS
<1>f. PICK f : f = [item \in Q |-> Exact(item)]
  OBVIOUS
<1>E. PICK E : E = ExactReranked
  OBVIOUS
<1>1. E = {f[item] : item \in Q}
  BY <1>E, <1>f, <1>Q DEF ExactReranked
<1>2. /\ request.fused \in Seq(Fused) /\ Distinct(request.fused)
      /\ \A i \in DOMAIN request.fused : request.fused[i].dense > 0 <=> request.fused[i].id \in Ids(request.hits)
      /\ Ids(request.hits) \subseteq Ids(request.fused)
  BY DEF MatchInv, FusedInv
<1>3. /\ ToSet(request.fused) \subseteq Fused
      /\ \A x \in ToSet(request.fused) : \E i \in DOMAIN request.fused : x = request.fused[i]
      /\ \A i \in DOMAIN request.fused : request.fused[i] \in ToSet(request.fused)
  BY <1>2, ElementsOf
<1>4. /\ IsFiniteSet(ToSet(Pool)) /\ ToSet(Pool) \subseteq ToSet(request.fused)
      /\ \A x \in ToSet(request.fused) : x.dense > 0 => x \in ToSet(Pool)
  BY PoolFacts
<1>5. \A item \in Q : item \in ToSet(request.fused) /\ item \in Fused /\ Eligible(item.id)
  BY <1>3, <1>4, <1>Q
<1>6. \A item \in Q : /\ f[item] \in Scored /\ f[item].id = item.id
                      /\ f[item].dense = (item.dense > 0)
  <2> TAKE item \in Q
  <2>1. item.id \in Campaigns /\ item.dense \in Nat /\ item.sparse \in Nat
    BY <1>5 DEF Fused
  <2>2. served[item.id].document \in Int
    <3>1. served[item.id] \in Copied
      BY <2>1, Numbers DEF MatchInv, WorldInv
    <3>2. served[item.id].document # NoVector
      BY <1>Q
    <3> QED
      BY <3>1, <3>2 DEF Copied
  <2> PICK x : x = Candidate(item.id, served[item.id].document)
    OBVIOUS
  <2>3. x \in Scored /\ x.id = item.id
    BY <2>1, <2>2, CandidateFacts
  <2>4. SparseShare(item.sparse) \div 100 \in Int
    BY <2>1, Shares
  <2>5. f[item] = [x EXCEPT !.dense = item.dense > 0, !.score = x.score + SparseShare(item.sparse) \div 100]
    BY <1>f, <2>3 DEF Exact, Scored
  <2>6. x.score + SparseShare(item.sparse) \div 100 \in Int
    BY <2>3, <2>4, Values
  <2>7. (item.dense > 0) \in BOOLEAN
    BY <2>1
  <2> QED
    BY <2>3, <2>5, <2>6, <2>7 DEF Scored
<1>7. \A a, b \in Q : a.id = b.id => a = b
  <2> SUFFICES ASSUME NEW a \in Q, NEW b \in Q, a.id = b.id
               PROVE  a = b
    OBVIOUS
  <2> PICK i \in DOMAIN request.fused : a = request.fused[i]
    BY <1>3, <1>5
  <2> PICK j \in DOMAIN request.fused : b = request.fused[j]
    BY <1>3, <1>5
  <2> QED
    BY <1>2 DEF Distinct
<1>8. Field(E)
  <2>1. IsFiniteSet(Q)
    BY <1>4, <1>Q, FS_Subset
  <2>2. IsFiniteSet(E)
    BY <1>1, <2>1, FiniteImage
  <2>3. E \subseteq Scored /\ \A x, y \in E : x.id = y.id => x = y
    BY <1>1, <1>6, <1>7
  <2> QED
    BY <2>2, <2>3 DEF Field
<1>9. \A x \in E : Eligible(x.id) /\ (x.dense <=> x.id \in Ids(request.hits))
  <2> TAKE x \in E
  <2> PICK item \in Q : x = f[item]
    BY <1>1
  <2> PICK i \in DOMAIN request.fused : item = request.fused[i]
    BY <1>3, <1>5
  <2>1. x.id = item.id /\ x.dense = (item.dense > 0)
    BY <1>6
  <2>2. item.dense > 0 <=> item.id \in Ids(request.hits)
    BY <1>2
  <2>3. Eligible(item.id)
    BY <1>5
  <2> QED
    BY <2>1, <2>2, <2>3
<1>10. ASSUME Still, NEW c \in Ids(request.hits)
       PROVE  c \in IdsOf(E)
  <2> PICK h \in DOMAIN request.hits : request.hits[h].id = c
    BY DEF Ids
  <2>1. /\ Searchable(c) /\ indexed[c].document = request.hits[h].sim
        /\ request.hits[h].sim >= DocumentThreshold
    BY <1>10 DEF MatchInv, HitsInv
  <2>2. Eligible(c) /\ served[c].document # NoVector /\ served[c].document >= DocumentThreshold
    BY <1>10, <2>1 DEF MatchInv, WorldInv, Searchable, Eligible
  <2> PICK i \in DOMAIN request.fused : request.fused[i].id = c
    BY <1>2 DEF Ids
  <2> PICK item : item = request.fused[i]
    OBVIOUS
  <2>3. item \in ToSet(Pool)
    BY <1>2, <1>3, <1>4
  <2>4. item \in Q
    BY <2>2, <2>3, <1>Q
  <2>5. f[item] \in E /\ f[item].id = c
    BY <2>4, <1>1, <1>6
  <2> QED
    BY <2>5 DEF IdsOf
<1> QED
  BY <1>8, <1>9, <1>10, <1>E

LEMMA PrimaryFacts ==
    ASSUME MatchInv, request.at = "rerank"
    PROVE  /\ DenseWinner.id \in Ids(request.hits) /\ DenseWinner.id \in Ids(request.primary)
           /\ DOMAIN request.primary = 1..Len(request.primary) /\ Len(request.primary) \in Nat \ {0}
<1>1. request.primary \in Seq(Scored) /\ Distinct(request.primary) /\ request.primary # <<>>
      /\ Ids(request.primary) \subseteq Ids(request.hits)
  BY DEF MatchInv, PrimaryInv
<1>2. Field(ToSet(request.primary))
  BY <1>1, FieldOfSeq
<1>3. DenseWinner \in ToSet(request.primary)
  BY <1>1, <1>2, WinnerFacts
<1>4. PICK i \in DOMAIN request.primary : DenseWinner = request.primary[i]
  BY <1>3 DEF ToSet
<1>5. DenseWinner.id \in Ids(request.primary)
  BY <1>4 DEF Ids
<1> QED
  BY <1>1, <1>5

\* The candidates after exact similarity, bonus, cap and lock, and how they are cut.
LEMMA RerankFacts ==
    ASSUME MatchInv, request.at = "rerank", DenseOf(ExactReranked) # {},
           NEW res, res = Leading(Sorted(LockWinner(Held(ExactReranked)), RerankOrder), FinalLimit)
    PROVE  /\ res \in Seq(Scored) /\ res # <<>> /\ Distinct(res)
           /\ Ids(res) \intersect stopped = {}
           /\ \E x \in ToSet(res) : Ahead(x, ToSet(res))
           /\ Still => /\ \E x \in ToSet(res) : x.id = DenseWinner.id /\ Above(x, ToSet(res))
                       /\ Ids(request.primary) \subseteq Ids(res) \/ Len(res) = FinalLimit
<1> PICK n : n = FinalLimit
  OBVIOUS
<1>n. n \in Nat \ {0}
  BY MatchAssumption
<1>E. PICK E : E = ExactReranked
  OBVIOUS
<1>1. /\ Field(E) /\ DenseOf(E) # {}
      /\ \A x \in E : Eligible(x.id) /\ (x.dense <=> x.id \in Ids(request.hits))
      /\ Still => Ids(request.hits) \subseteq IdsOf(E)
  BY <1>E, ExactFacts
<1>2. PICK H : /\ H = Held(E) /\ Field(H) /\ IdsOf(H) = IdsOf(E)
               /\ \A x \in H : \E a \in E : a.id = x.id /\ a.dense = x.dense
               /\ \E x : Ahead(x, H)
  BY <1>1, HeldFacts
<1>w. PICK w : w = DenseWinner.id
  OBVIOUS
<1>3. w \in Ids(request.hits) /\ w \in Ids(request.primary) /\ Ids(request.primary) \subseteq Ids(request.hits)
  BY <1>w, PrimaryFacts DEF MatchInv, PrimaryInv
<1>4. \A x \in H : x.id = w => x.dense
  BY <1>1, <1>2, <1>3
<1>5. PICK L : /\ L = LockWinner(H) /\ Field(L) /\ IdsOf(L) = IdsOf(H)
               /\ \E x : Ahead(x, L)
               /\ \A x, y \in L : x.id = DenseWinner.id /\ y.id # x.id => y.score < x.score
  <2>1. \A x \in H : x.id = DenseWinner.id => x.dense
    BY <1>4, <1>w
  <2>2. Field(H) /\ \E x : Ahead(x, H)
    BY <1>2
  <2> QED
    BY <2>1, <2>2, LockFacts
<1>6. PICK s \in SetToSeqs(L) : /\ s = Sorted(L, RerankOrder)
                                /\ \A i, j \in DOMAIN s : i < j => s[j].score <= s[i].score
  BY <1>5, ByScore
<1>7. res = Leading(s, n)
  BY <1>2, <1>5, <1>6, <1>E
<1>8. IsFiniteSet(L) /\ L \subseteq Scored /\ \A x, y \in L : x.id = y.id => x = y
  BY <1>5 DEF Field
<1>9. /\ s \in Seq(L) /\ Len(s) \in Nat /\ DOMAIN s = 1..Len(s) /\ \A i \in DOMAIN s : s[i] \in L
      /\ \A i, j \in DOMAIN s : i # j => s[i] # s[j]
      /\ \A x \in L : \E i \in DOMAIN s : s[i] = x
  BY <1>6, <1>8, SeqOfSet
<1>10. PICK r : r = res
  OBVIOUS
<1>11. /\ r \in Seq(L) /\ DOMAIN r = 1..Len(r)
       /\ Len(r) = IF n <= Len(s) THEN n ELSE Len(s)
       /\ \A i \in DOMAIN r : i \in DOMAIN s /\ r[i] = s[i]
  BY <1>7, <1>9, <1>10, <1>n, LeadingFacts
<1>12. PICK a : Ahead(a, L)
  BY <1>5
<1>13. a \in L /\ a.dense /\ \A y \in L : ~y.dense => y.score < a.score
  BY <1>12 DEF Ahead
<1>14. 1 \in DOMAIN s /\ 1 \in DOMAIN r
  <2> PICK i \in DOMAIN s : s[i] = a
    BY <1>9, <1>13
  <2>1. i \in 1..Len(s)
    BY <1>9
  <2> QED
    BY <2>1, <1>9, <1>11, <1>n
<1>15. \A x \in L : x.score \in Int
  BY <1>8, Values
<1>16. r[1] = s[1] /\ r[1] \in L /\ \A x \in L : x.score <= r[1].score
  <2>1. r[1] = s[1] /\ s[1] \in L
    BY <1>9, <1>11, <1>14
  <2>2. \A x \in L : x.score <= s[1].score
    <3> TAKE x \in L
    <3> PICK i \in DOMAIN s : s[i] = x
      BY <1>9
    <3>1. i = 1 \/ 1 < i
      BY <1>9
    <3>2. CASE i = 1
      BY <3>2, <2>1, <1>15
    <3>3. CASE 1 < i
      BY <3>3, <1>6, <1>14
    <3> QED
      BY <3>1, <3>2, <3>3
  <2> QED
    BY <2>1, <2>2
<1>17. ToSet(r) \subseteq L /\ r[1] \in ToSet(r)
  BY <1>9, <1>11, <1>14 DEF ToSet
<1>18. r \in Seq(Scored) /\ r # <<>> /\ Distinct(r)
  <2>1. r \in Seq(Scored) /\ r # <<>>
    BY <1>8, <1>11, <1>14
  <2>2. Distinct(r)
    BY <1>8, <1>9, <1>11 DEF Distinct
  <2> QED
    BY <2>1, <2>2
<1>19. Ahead(r[1], ToSet(r))
  <2>1. r[1].dense
    <3>1. a.score <= r[1].score /\ a.score \in Int /\ r[1].score \in Int
      BY <1>13, <1>15, <1>16
    <3>2. ~r[1].dense => r[1].score < a.score
      BY <1>13, <1>16
    <3> QED
      BY <3>1, <3>2
  <2>2. ASSUME NEW y \in ToSet(r), ~y.dense
        PROVE  y.score < r[1].score
    <3>1. y \in L /\ y.score < a.score /\ a.score <= r[1].score
      BY <2>2, <1>13, <1>16, <1>17
    <3>2. y.score \in Int /\ a.score \in Int /\ r[1].score \in Int
      BY <3>1, <1>13, <1>15, <1>16
    <3> QED
      BY <3>1, <3>2
  <2> QED
    BY <2>1, <2>2, <1>17 DEF Ahead
<1>20. Ids(r) \subseteq IdsOf(L)
  BY <1>9, <1>11 DEF Ids, IdsOf
<1>21. Ids(r) \intersect stopped = {}
  <2> SUFFICES ASSUME NEW c \in Ids(r)
               PROVE  c \notin stopped
    OBVIOUS
  <2>1. c \in IdsOf(E)
    BY <1>2, <1>5, <1>20
  <2> PICK x \in E : x.id = c
    BY <2>1 DEF IdsOf
  <2> QED
    BY <1>1 DEF MatchInv, WorldInv, Eligible
<1>22. ASSUME Still
       PROVE  /\ r[1].id = w /\ Above(r[1], ToSet(r))
              /\ Ids(request.primary) \subseteq Ids(r) \/ Len(r) = n
  <2>1. Ids(request.hits) \subseteq IdsOf(L)
    BY <1>1, <1>2, <1>5, <1>22
  <2> PICK v \in L : v.id = w
    BY <2>1, <1>3 DEF IdsOf
  <2>2. \A y \in L : y.id # w => y.score < v.score
    BY <1>5, <1>w
  <2>3. r[1].id = w
    <3>1. v.score <= r[1].score /\ v.score \in Int /\ r[1].score \in Int
      BY <1>15, <1>16
    <3>2. r[1].id # w => r[1].score < v.score
      BY <1>16, <2>2
    <3> QED
      BY <3>1, <3>2
  <2>4. Above(r[1], ToSet(r))
    <3>1. r[1] = v
      BY <1>8, <1>16, <2>3
    <3> QED
      BY <3>1, <2>2, <1>17 DEF Above
  <2>5. CASE n <= Len(s)
    BY <2>3, <2>4, <2>5, <1>11
  <2>6. CASE ~(n <= Len(s))
    <3>1. DOMAIN r = DOMAIN s
      BY <2>6, <1>9, <1>11
    <3>2. IdsOf(L) \subseteq Ids(r)
      <4> SUFFICES ASSUME NEW x \in L
                   PROVE  x.id \in Ids(r)
        BY DEF IdsOf
      <4> PICK i \in DOMAIN s : s[i] = x
        BY <1>9
      <4> QED
        BY <3>1, <1>11 DEF Ids
    <3> QED
      BY <3>2, <2>1, <2>3, <2>4, <1>3
  <2> QED
    BY <2>5, <2>6
<1> QED
  BY <1>10, <1>17, <1>18, <1>19, <1>21, <1>22, <1>w

LEMMA RerankInv == MatchInv /\ Rerank => MatchInv'
<1> SUFFICES ASSUME MatchInv, Rerank
             PROVE  MatchInv'
  OBVIOUS
<1>1. Unchanging /\ request.at = "rerank"
  BY DEF Rerank
<1>2. CASE DenseOf(ExactReranked) = {}
  <2>r. PICK res : res = Leading(request.primary, FinalLimit)
    OBVIOUS
  <2>1. request.primary \in Seq(Scored) /\ Ids(request.primary) \intersect stopped = {}
    BY DEF MatchInv, PrimaryInv
  <2>2. DOMAIN request.primary = 1..Len(request.primary) /\ Len(request.primary) \in Nat \ {0}
    BY <1>1, PrimaryFacts
  <2>3. /\ res \in Seq(Scored)
        /\ Len(res) = IF FinalLimit <= Len(request.primary) THEN FinalLimit ELSE Len(request.primary)
        /\ \A i \in DOMAIN res : i \in DOMAIN request.primary /\ res[i] = request.primary[i]
    BY <2>1, <2>r, LeadingFacts, MatchAssumption
  <2>4. Ids(res) \intersect stopped = {}
    BY <2>1, <2>3 DEF Ids
  <2>5. res # <<>>
    <3>1. Len(res) # 0
      BY <2>2, <2>3, MatchAssumption
    <3> QED
      BY <3>1
  <2>6. Matched("primary", res)
    BY <1>2, <2>r DEF Rerank
  <2> QED
    BY <1>1, <2>4, <2>5, <2>6, Answered
<1>3. CASE DenseOf(ExactReranked) # {}
  <2>r. PICK res : res = Leading(Sorted(LockWinner(Held(ExactReranked)), RerankOrder), FinalLimit)
    OBVIOUS
  <2>1. Matched("hybrid", res)
    BY <1>3, <2>r DEF Rerank
  <2>2. /\ res \in Seq(Scored) /\ res # <<>> /\ Distinct(res)
        /\ Ids(res) \intersect stopped = {}
        /\ \E x \in ToSet(res) : Ahead(x, ToSet(res))
        /\ Still => /\ \E x \in ToSet(res) : x.id = DenseWinner.id /\ Above(x, ToSet(res))
                    /\ Ids(request.primary) \subseteq Ids(res) \/ Len(res) = FinalLimit
    BY <1>1, <1>3, <2>r, RerankFacts
  <2>3. /\ Whole(request)' /\ request'.at = "matched" /\ request'.hits = request.hits
        /\ request'.primary = request.primary /\ request'.searched = request.searched
        /\ request'.path = "hybrid" /\ request'.result = res
    BY <2>1 DEF Matched, MatchInv, WorldInv, Whole
  <2>4. WorldInv' /\ Still' = Still /\ stopped' = stopped /\ NobodyNear' = NobodyNear
    BY <1>1, <2>3, WorldStays, WorldSame DEF MatchInv
  <2>5. HitsInv' /\ PrimaryInv'
    BY <2>3, <2>4 DEF MatchInv, HitsInv, PrimaryInv
  <2>6. FusedInv' /\ FallbackInv'
    BY <2>2, <2>3 DEF FusedInv, FallbackInv
  <2>7. ResultInv'
    BY <2>2, <2>3, <2>4 DEF ResultInv
  <2>8. HybridResult'
    <3>1. DenseWinner' = DenseWinner
      BY <2>3, WinnerSame
    <3> QED
      BY <2>2, <2>3, <2>4, <3>1 DEF HybridResult
  <2>9. HybridInv'
    BY <2>3, <2>8 DEF HybridInv, HybridKeepsWinner, Ranked
  <2> QED
    BY <2>4, <2>5, <2>6, <2>7, <2>9 DEF MatchInv
<1> QED
  BY <1>2, <1>3

LEMMA UseFallbackInv == MatchInv /\ UseFallback => MatchInv'
<1> SUFFICES ASSUME MatchInv, UseFallback
             PROVE  MatchInv'
  OBVIOUS
<1>1. Unchanging /\ request.at = "matched" /\ request.result = <<>>
  BY DEF UseFallback
<1>2. request.path # "hybrid" /\ request.path # "fallback"
  BY <1>1 DEF MatchInv, HybridInv, HybridResult, ResultInv
<1>3. Still /\ request.searched => NobodyNear
  BY <1>1 DEF MatchInv, FallbackInv
<1>4. CASE served[FALLBACK_CAMPAIGN_ID].there
  <2>1. /\ Whole(request)' /\ request'.at = "select" /\ request'.hits = request.hits
        /\ request'.primary = request.primary /\ request'.searched = request.searched /\ request'.path = "fallback"
    BY <1>4 DEF UseFallback, MatchInv, WorldInv, Whole
  <2>2. WorldInv' /\ Still' = Still /\ stopped' = stopped /\ NobodyNear' = NobodyNear
    BY <1>1, <2>1, WorldStays, WorldSame DEF MatchInv
  <2>3. HitsInv' /\ PrimaryInv'
    BY <2>1, <2>2 DEF MatchInv, HitsInv, PrimaryInv
  <2>4. FusedInv' /\ HybridInv' /\ ResultInv' /\ FallbackInv'
    BY <1>3, <2>1, <2>2 DEF FusedInv, HybridInv, ResultInv, FallbackInv
  <2> QED
    BY <2>2, <2>3, <2>4 DEF MatchInv
<1>5. CASE ~served[FALLBACK_CAMPAIGN_ID].there
  <2>1. /\ Whole(request)' /\ request'.at = "error" /\ request'.hits = request.hits
        /\ request'.primary = request.primary /\ request'.searched = request.searched
        /\ request'.path = request.path /\ request'.result = request.result
    BY <1>5 DEF UseFallback, MatchInv, WorldInv, Whole
  <2>2. WorldInv' /\ Still' = Still /\ stopped' = stopped /\ NobodyNear' = NobodyNear
    BY <1>1, <2>1, WorldStays, WorldSame DEF MatchInv
  <2>3. HitsInv' /\ PrimaryInv'
    BY <2>1, <2>2 DEF MatchInv, HitsInv, PrimaryInv
  <2>4. FusedInv' /\ HybridInv' /\ FallbackInv'
    BY <1>2, <1>3, <2>1, <2>2 DEF FusedInv, HybridInv, FallbackInv
  <2>5. ResultInv'
    BY <1>2, <2>1, <2>2 DEF MatchInv, ResultInv
  <2> QED
    BY <2>2, <2>3, <2>4, <2>5 DEF MatchInv
<1> QED
  BY <1>4, <1>5

LEMMA MatchedSomeInv == MatchInv /\ MatchedSome => MatchInv'
<1> SUFFICES ASSUME MatchInv, MatchedSome
             PROVE  MatchInv'
  OBVIOUS
<1>1. Unchanging /\ request.at = "matched" /\ request.result # <<>>
  BY DEF MatchedSome
<1>2. /\ Whole(request)' /\ request'.at = "select" /\ request'.hits = request.hits
      /\ request'.primary = request.primary /\ request'.searched = request.searched
      /\ request'.path = request.path /\ request'.result = request.result
  BY DEF MatchedSome, MatchInv, WorldInv, Whole
<1>3. WorldInv' /\ Still' = Still /\ stopped' = stopped /\ NobodyNear' = NobodyNear
  BY <1>1, <1>2, WorldStays, WorldSame DEF MatchInv
<1>4. HitsInv' /\ PrimaryInv'
  BY <1>2, <1>3 DEF MatchInv, HitsInv, PrimaryInv
<1>5. request.path # "fallback"
  BY <1>1 DEF MatchInv, ResultInv
<1>6. FusedInv' /\ FallbackInv'
  BY <1>2, <1>5 DEF FusedInv, FallbackInv
<1>7. ResultInv'
  BY <1>2, <1>3, <1>5 DEF MatchInv, ResultInv
<1>8. HybridInv'
  <2>1. request.path = "hybrid" => HybridResult'
    BY <1>2, <1>3, HybridStays DEF MatchInv, HybridInv
  <2> QED
    BY <1>2, <2>1 DEF HybridInv, HybridKeepsWinner, Ranked
<1> QED
  BY <1>3, <1>4, <1>6, <1>7, <1>8 DEF MatchInv

\* The selector breaks ties by chance, but there is none for the first place.
LEMMA RankingFacts ==
    ASSUME HybridResult, NEW order \in SetToSeqs(ToSet(request.result)),
           \A i, j \in DOMAIN order : i < j => NoWorse(order[i], order[j])
    PROVE  /\ order[1].dense
           /\ Still => /\ order[1].id = DenseWinner.id
                       /\ Ids(request.primary) \subseteq Ids(order) \/ Len(order) = FinalLimit
<1>r. PICK r : r = request.result
  OBVIOUS
<1>S. PICK S : S = ToSet(r)
  OBVIOUS
<1>1. r \in Seq(Scored) /\ r # <<>> /\ Distinct(r)
  BY <1>r DEF HybridResult
<1>2. Field(S) /\ Cardinality(S) = Len(r)
  BY <1>1, <1>S, FieldOfSeq
<1>3. IsFiniteSet(S) /\ S \subseteq Scored
  BY <1>2 DEF Field
<1>4. /\ Len(order) = Cardinality(S) /\ Len(order) \in Nat /\ DOMAIN order = 1..Len(order)
      /\ \A i \in DOMAIN order : order[i] \in S
      /\ \A x \in S : \E i \in DOMAIN order : order[i] = x
  BY <1>3, <1>r, <1>S, SeqOfSet
<1>5. PICK a \in S : Ahead(a, S)
  BY <1>r, <1>S DEF HybridResult
<1>6. a.dense /\ \A y \in S : ~y.dense => y.score < a.score
  BY <1>5 DEF Ahead
<1>7. 1 \in DOMAIN order /\ order[1] \in S
  <2> PICK i \in DOMAIN order : order[i] = a
    BY <1>4
  <2>1. i \in 1..Len(order)
    BY <1>4
  <2> QED
    BY <2>1, <1>4
<1>8. \A x \in S : x.score \in Int
  BY <1>3, Values
<1>9. \A x \in S : x.score <= order[1].score
  <2> TAKE x \in S
  <2> PICK i \in DOMAIN order : order[i] = x
    BY <1>4
  <2>1. i = 1 \/ 1 < i
    BY <1>4
  <2>2. CASE i = 1
    BY <2>2, <1>7, <1>8
  <2>3. CASE 1 < i
    <3>1. NoWorse(order[1], x)
      BY <2>3, <1>7
    <3> QED
      BY <3>1, <1>7, <1>8 DEF NoWorse
  <2> QED
    BY <2>1, <2>2, <2>3
<1>10. order[1].dense
  <2>1. a.score <= order[1].score /\ a.score \in Int /\ order[1].score \in Int
    BY <1>7, <1>8, <1>9
  <2>2. ~order[1].dense => order[1].score < a.score
    BY <1>6, <1>7
  <2> QED
    BY <2>1, <2>2
<1>11. ASSUME Still
       PROVE  /\ order[1].id = DenseWinner.id
              /\ Ids(request.primary) \subseteq Ids(order) \/ Len(order) = FinalLimit
  <2>1. PICK x \in S : x.id = DenseWinner.id /\ Above(x, S)
    BY <1>11, <1>r, <1>S DEF HybridResult
  <2>2. order[1].id = DenseWinner.id
    <3>1. x.score <= order[1].score /\ x.score \in Int /\ order[1].score \in Int
      BY <1>7, <1>8, <1>9
    <3>2. order[1].id # x.id => order[1].score < x.score
      BY <2>1, <1>7 DEF Above
    <3> QED
      BY <2>1, <3>1, <3>2
  <2>3. Ids(r) \subseteq Ids(order)
    <3> SUFFICES ASSUME NEW i \in DOMAIN r
                 PROVE  r[i].id \in Ids(order)
      BY DEF Ids
    <3>1. r[i] \in S
      BY <1>S DEF ToSet
    <3> PICK k \in DOMAIN order : order[k] = r[i]
      BY <3>1, <1>4
    <3> QED
      BY DEF Ids
  <2>4. Ids(request.primary) \subseteq Ids(r) \/ Len(r) = FinalLimit
    BY <1>11, <1>r DEF HybridResult
  <2> QED
    BY <2>2, <2>3, <2>4, <1>2, <1>4
<1> QED
  BY <1>10, <1>11

LEMMA RankCandidatesInv == MatchInv /\ RankCandidates => MatchInv'
<1> SUFFICES ASSUME MatchInv, RankCandidates
             PROVE  MatchInv'
  OBVIOUS
<1>1. /\ request.at = "select" /\ request' = [request EXCEPT !.at = "ranked"]
      /\ UNCHANGED <<served, indexed, setting, stopped, changes>>
  BY DEF RankCandidates
<1>2. PICK order \in SetToSeqs(ToSet(request.result)) :
         /\ \A i, j \in DOMAIN order : i < j => NoWorse(order[i], order[j])
         /\ ranking' = order
  BY DEF RankCandidates
<1>3. /\ Whole(request)' /\ request'.at = "ranked" /\ request'.hits = request.hits
      /\ request'.primary = request.primary /\ request'.searched = request.searched
      /\ request'.path = request.path /\ request'.result = request.result
  BY <1>1 DEF MatchInv, WorldInv, Whole
<1>4. WorldInv' /\ Still' = Still /\ stopped' = stopped
  BY <1>1, <1>3 DEF MatchInv, WorldInv, Still
<1>5. NobodyNear' = NobodyNear
  BY <1>1 DEF NobodyNear, Searchable
<1>6. HitsInv' /\ PrimaryInv'
  BY <1>3, <1>4 DEF MatchInv, HitsInv, PrimaryInv
<1>7. FusedInv' /\ FallbackInv'
  BY <1>1, <1>3, <1>4, <1>5 DEF MatchInv, FusedInv, FallbackInv
<1>8. ResultInv'
  <2>1. Ids(order) \subseteq Ids(request.result)
    <3>1. \A i \in DOMAIN order : order[i] \in ToSet(request.result)
      BY DEF SetToSeqs
    <3>2. \A i \in DOMAIN order : \E j \in DOMAIN request.result : order[i] = request.result[j]
      BY <3>1 DEF ToSet
    <3> QED
      BY <3>2 DEF Ids
  <2> QED
    BY <1>1, <1>2, <1>3, <1>4, <2>1 DEF MatchInv, ResultInv
<1>9. HybridInv'
  <2> SUFFICES ASSUME request.path = "hybrid"
               PROVE  HybridResult' /\ HybridKeepsWinner'
    BY <1>3 DEF HybridInv
  <2>1. HybridResult
    BY DEF MatchInv, HybridInv
  <2>2. HybridResult'
    BY <1>3, <1>4, <2>1, HybridStays
  <2>3. /\ order[1].dense
        /\ Still => /\ order[1].id = DenseWinner.id
                    /\ Ids(request.primary) \subseteq Ids(order) \/ Len(order) = FinalLimit
    BY <1>2, <2>1, RankingFacts
  <2>4. DenseWinner' = DenseWinner
    BY <1>3, WinnerSame
  <2>5. HybridKeepsWinner'
    BY <1>2, <1>3, <1>4, <2>3, <2>4 DEF HybridKeepsWinner
  <2> QED
    BY <2>2, <2>5
<1> QED
  BY <1>4, <1>6, <1>7, <1>8, <1>9 DEF MatchInv

LEMMA ReindexInv ==
    ASSUME MatchInv, NEW c \in Campaigns, Reindex(c)
    PROVE  MatchInv'
<1>1. /\ request.at \notin {"ranked", "error"} /\ indexed' = [indexed EXCEPT ![c] = served[c]]
      /\ UNCHANGED <<served, setting, request, ranking, stopped, changes>> /\ indexed[c] # served[c]
  BY DEF Reindex
<1>2. ~Still /\ ~Still'
  BY <1>1 DEF Still, MatchInv, WorldInv
<1>3. WorldInv'
  BY <1>1, <1>2 DEF MatchInv, WorldInv, Whole
<1>4. HitsInv' /\ PrimaryInv' /\ FusedInv' /\ FallbackInv' /\ ResultInv'
  BY <1>1, <1>2 DEF MatchInv, HitsInv, PrimaryInv, FusedInv, FallbackInv, ResultInv
<1>5. request.path = "hybrid" => HybridResult'
  BY <1>1, <1>2, HybridStays DEF MatchInv, HybridInv
<1>6. HybridInv'
  BY <1>1, <1>5 DEF MatchInv, HybridInv, HybridKeepsWinner, Ranked
<1> QED
  BY <1>3, <1>4, <1>6 DEF MatchInv

LEMMA ChangeCampaignInv ==
    ASSUME MatchInv, NEW c \in Campaigns, NEW copy \in Copies, ChangeCampaign(c, copy)
    PROVE  MatchInv'
<1>1. /\ request.at \notin {"ranked", "error"} /\ served' = [served EXCEPT ![c] = copy]
      /\ changes' = changes + 1 /\ stopped' = IF copy.eligible THEN stopped \ {c} ELSE stopped
      /\ UNCHANGED <<indexed, setting, request, ranking>>
  BY DEF ChangeCampaign
<1>2. ~Still' /\ changes' \in Nat
  BY <1>1 DEF Still, MatchInv, WorldInv
<1>3. stopped' \subseteq stopped /\ \A d \in stopped' : ~served'[d].eligible
  BY <1>1 DEF MatchInv, WorldInv
<1>4. WorldInv'
  BY <1>1, <1>2, <1>3 DEF MatchInv, WorldInv, Whole
<1>5. HitsInv' /\ FusedInv' /\ FallbackInv'
  BY <1>1, <1>2 DEF MatchInv, HitsInv, FusedInv, FallbackInv
<1>6. PrimaryInv'
  BY <1>1, <1>3 DEF MatchInv, PrimaryInv
<1>7. ResultInv'
  BY <1>1, <1>3 DEF MatchInv, ResultInv
<1>8. request.path = "hybrid" => HybridResult'
  BY <1>1, <1>2, HybridStays DEF MatchInv, HybridInv
<1>9. HybridInv'
  BY <1>1, <1>8 DEF MatchInv, HybridInv, HybridKeepsWinner, Ranked
<1> QED
  BY <1>4, <1>5, <1>6, <1>7, <1>9 DEF MatchInv

LEMMA MatchStandsStill == MatchInv /\ UNCHANGED matchVars => MatchInv'
<1> SUFFICES ASSUME MatchInv, UNCHANGED matchVars
             PROVE  MatchInv'
  OBVIOUS
<1>1. UNCHANGED <<served, indexed, setting, request, ranking, stopped, changes>>
  BY DEF matchVars
<1>2. Still' = Still /\ DenseWinner' = DenseWinner
  BY <1>1, WinnerSame DEF Still
<1>3. WorldInv' /\ PrimaryInv' /\ FusedInv' /\ ResultInv'
  BY <1>1, <1>2 DEF MatchInv, WorldInv, PrimaryInv, FusedInv, ResultInv, Whole
<1>4. HitsInv' /\ FallbackInv'
  BY <1>1, <1>2 DEF MatchInv, HitsInv, FallbackInv, NobodyNear, Searchable
<1>5. request.path = "hybrid" => HybridResult'
  BY <1>1, <1>2, HybridStays DEF MatchInv, HybridInv
<1>6. HybridInv'
  BY <1>1, <1>2, <1>5 DEF MatchInv, HybridInv, HybridKeepsWinner, Ranked
<1> QED
  BY <1>3, <1>4, <1>6 DEF MatchInv

LEMMA MatchNextInv == MatchInv /\ [MatchNext]_matchVars => MatchInv'
<1> SUFFICES ASSUME MatchInv, [MatchNext]_matchVars
             PROVE  MatchInv'
  OBVIOUS
<1>1. CASE ModelNotReady \/ HaveEmbedding \/ EmbeddingPending
  BY <1>1, ModelNotReadyInv, HaveEmbeddingInv, EmbeddingPendingInv
<1>2. CASE FindCandidatesByLexicalFallback \/ ScoreAllCampaigns \/ SearchTags \/ ScoreTags
  BY <1>2, LexicalInv, ScoreAllInv, SearchTagsInv, ScoreTagsInv
<1>3. CASE SearchDocuments \/ SearchFails \/ LoadCampaigns \/ RankSparse \/ Rerank
  BY <1>3, SearchDocumentsInv, SearchFailsInv, LoadCampaignsInv, RankSparseInv, RerankInv
<1>4. CASE UseFallback \/ MatchedSome \/ RankCandidates
  BY <1>4, UseFallbackInv, MatchedSomeInv, RankCandidatesInv
<1>5. CASE \E c \in Campaigns : Reindex(c) \/ \E copy \in Copies : ChangeCampaign(c, copy)
  BY <1>5, ReindexInv, ChangeCampaignInv
<1>6. CASE UNCHANGED matchVars
  BY <1>6, MatchStandsStill
<1> QED
  BY <1>1, <1>2, <1>3, <1>4, <1>5, <1>6 DEF MatchNext

\* The invariant holds of every decision, with any number of campaigns and changes.
THEOREM MatchInvHolds == MatchSpec => []MatchInv
<1>1. MatchInit => MatchInv
  BY MatchInitInv
<1>2. MatchInv /\ [MatchNext]_matchVars => MatchInv'
  BY MatchNextInv
<1> QED
  BY <1>1, <1>2, PTL DEF MatchSpec

(***************************************************************************)
(* Hybrid retrieval leaves the winner alone: a campaign found by its tags  *)
(* only never wins, whatever changes while the decision waits, and as long *)
(* as nothing changes the winner is the one vectors alone would choose.    *)
(***************************************************************************)
THEOREM WinnerIsKept == MatchSpec => []HybridKeepsWinner
<1>1. MatchInv => HybridKeepsWinner
  BY DEF MatchInv, HybridInv, HybridKeepsWinner
<1> QED
  BY <1>1, MatchInvHolds, PTL

(***************************************************************************)
(* Who was not eligible at any time of the decision is no candidate, and   *)
(* the fallback campaign is taken after a search that worked only if no    *)
(* searchable campaign is near enough.                                     *)
(***************************************************************************)
THEOREM CandidatesCanBeServed == MatchSpec => []CandidatesAreServable
<1>1. MatchInv => CandidatesAreServable
  <2> SUFFICES ASSUME MatchInv
               PROVE  CandidatesAreServable
    OBVIOUS
  <2>1. Ranked /\ request.path # "fallback" => Ids(ranking) \intersect stopped = {}
    BY DEF MatchInv, ResultInv, Ranked
  <2>2. Still /\ request.path = "fallback" /\ request.searched => NobodyNear
    BY DEF MatchInv, FallbackInv
  <2> QED
    BY <2>1, <2>2 DEF CandidatesAreServable, NobodyNear
<1> QED
  BY <1>1, MatchInvHolds, PTL

=============================================================================
