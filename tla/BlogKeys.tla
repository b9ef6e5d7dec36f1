-------------------------------- MODULE BlogKeys --------------------------------
(***************************************************************************)
(* Blogs and the guard in front of the script's requests.  A creation      *)
(* writes the row and then Redis; the guard asks Redis for the key's blog, *)
(* then MySQL, and compares host names without their www.  The row's       *)
(* domain is unique as it was written, www. and all.                       *)
(***************************************************************************)
EXTENDS Naturals, Sequences, FiniteSets, SequencesExt

CONSTANTS
    Creations,   \* calls of createBlog; the key each one draws has its name
    DomainOf,    \* the domain each creation asks for
    Domains,     \* host names
    Plain,       \* normalizeHostname: lower case, no trailing dot, no www.
    Guards,      \* requests of the script
    NoKey,       \* a key nobody was given
    MaxBroken    \* bound: calls of Redis that fail, expiries

VARIABLES
    blog,       \* MySQL: keys with a row
    document,   \* keys with blog:{id}
    index,      \* keys with blog:key:{key}
    creation,   \* how far each creation is
    loading,    \* blogs the start of the server has yet to cache
    guard,      \* how far each request is
    broken

blogVars == <<blog, document, index, creation, loading, guard, broken>>

-----------------------------------------------------------------------------
NoGuard == [at |-> "idle", key |-> NoKey, domain |-> NoKey, known |-> FALSE]

BlogInit ==
    /\ blog = {} /\ document = {} /\ index = {}
    /\ creation = [c \in Creations |-> "idle"]
    /\ loading = <<>>
    /\ guard = [g \in Guards |-> NoGuard]
    /\ broken = 0

Break == broken < MaxBroken /\ broken' = broken + 1

Created(c, at, next) == creation[c] = at /\ creation' = [creation EXCEPT ![c] = next]

SameHost(key, domain) == Plain[DomainOf[key]] = Plain[domain]

Registered(key, domain) == key \in blog /\ SameHost(key, domain)

-----------------------------------------------------------------------------
\* existsBlogByDomain, before the row is inserted.
CheckDomain(c) ==
    /\ Created(c, "idle", IF \E b \in blog : DomainOf[b] = DomainOf[c] THEN "refused" ELSE "insert")
    /\ UNCHANGED <<blog, document, index, loading, guard, broken>>

InsertTwice(c) ==
    /\ Created(c, "insert", "save")
    /\ blog' = blog \union {c}
    /\ UNCHANGED <<document, index, loading, guard, broken>>

\* The domain is unique: who comes second gets an error.
InsertBlog(c) ==
    LET taken == \E b \in blog : DomainOf[b] = DomainOf[c]
    IN  /\ Created(c, "insert", IF taken THEN "failed" ELSE "save")
        /\ blog' = IF taken THEN blog ELSE blog \union {c}
        /\ UNCHANGED <<document, index, loading, guard, broken>>

SaveBlog(c) ==
    /\ Created(c, "save", "index")
    /\ document' = document \union {c}
    /\ UNCHANGED <<blog, index, loading, guard, broken>>

SaveIndex(c) ==
    /\ Created(c, "index", "done")
    /\ index' = index \union {c}
    /\ UNCHANGED <<blog, document, loading, guard, broken>>

\* The creation is reported as failed, and its row stays.
SavingFails(c) ==
    /\ Created(c, "save", "failed") \/ Created(c, "index", "failed")
    /\ Break
    /\ UNCHANGED <<blog, document, index, loading, guard>>

\* loadAllBlogs, at the start of the server: one blog after the other; an error ends it.
StartLoading ==
    /\ loading = <<>> /\ blog # {} /\ Break
    /\ loading' = SetToSeq(blog)
    /\ UNCHANGED <<blog, document, index, creation, guard>>

LoadBlog ==
    /\ loading # <<>>
    /\ document' = document \union {Head(loading)} /\ index' = index \union {Head(loading)}
    /\ loading' = Tail(loading)
    /\ UNCHANGED <<blog, creation, guard, broken>>

LoadingFails ==
    /\ loading # <<>> /\ Break
    /\ document' \in {document, document \union {Head(loading)}}
    /\ loading' = <<>>
    /\ UNCHANGED <<blog, index, creation, guard>>

\* Both keys live seven days.
ExpireBlog(c) ==
    /\ Break
    /\ \/ c \in document /\ document' = document \ {c} /\ index' = index
       \/ c \in index /\ index' = index \ {c} /\ document' = document
    /\ UNCHANGED <<blog, creation, loading, guard>>

-----------------------------------------------------------------------------
Answer(g, answer) == guard' = [guard EXCEPT ![g].at = answer]

AnswerByDomain(g) == Answer(g, IF SameHost(guard[g].key, guard[g].domain) THEN "ok" ELSE "forbidden")

Ask(g, key, domain) ==
    /\ guard[g].at = "idle"
    /\ guard' = [guard EXCEPT ![g] = [at |-> "index", key |-> key, domain |-> domain,
                                      known |-> Registered(key, domain)]]
    /\ UNCHANGED <<blog, document, index, creation, loading, broken>>

ReadIndex(g) ==
    /\ guard[g].at = "index"
    /\ Answer(g, IF guard[g].key \in index THEN "document" ELSE "row")
    /\ UNCHANGED <<blog, document, index, creation, loading, broken>>

ReadDocument(g) ==
    /\ guard[g].at = "document"
    /\ IF guard[g].key \in document THEN AnswerByDomain(g) ELSE Answer(g, "row")
    /\ UNCHANGED <<blog, document, index, creation, loading, broken>>

\* An error of Redis counts as a miss.
RedisFails(g) ==
    /\ guard[g].at \in {"index", "document"} /\ Break
    /\ Answer(g, "row")
    /\ UNCHANGED <<blog, document, index, creation, loading>>

ReadRow(g) ==
    /\ guard[g].at = "row"
    /\ IF guard[g].key \in blog THEN AnswerByDomain(g) ELSE Answer(g, "forbidden")
    /\ UNCHANGED <<blog, document, index, creation, loading, broken>>

RowFails(g) ==
    /\ guard[g].at = "row" /\ Break
    /\ Answer(g, "error")
    /\ UNCHANGED <<blog, document, index, creation, loading>>

AskAgain(g) ==
    /\ guard[g].at \in {"ok", "forbidden", "error"}
    /\ guard' = [guard EXCEPT ![g] = NoGuard]
    /\ UNCHANGED <<blog, document, index, creation, loading, broken>>

BlogNext ==
    \/ \E c \in Creations : \/ CheckDomain(c) \/ InsertBlog(c) \/ SaveBlog(c) \/ SaveIndex(c) \/ SavingFails(c)
                            \/ ExpireBlog(c)
    \/ StartLoading \/ LoadBlog \/ LoadingFails
    \/ \E g \in Guards : \/ ReadIndex(g) \/ ReadDocument(g) \/ RedisFails(g) \/ ReadRow(g) \/ RowFails(g)
                         \/ AskAgain(g)
                         \/ \E key \in Creations \union {NoKey}, domain \in Domains : Ask(g, key, domain)

BlogSpec == BlogInit /\ [][BlogNext]_blogVars

-----------------------------------------------------------------------------
(***************************************************************************)
(* A blog's script is served from the moment the blog is registered, and   *)
(* only on the domain it was registered for, with or without www.,         *)
(* whatever of it is in Redis; no domain is registered twice, though the   *)
(* check comes before the row.                                             *)
(***************************************************************************)
BlogsAreServed ==
    /\ \A g \in Guards :
         /\ guard[g].at = "ok" => Registered(guard[g].key, guard[g].domain)
         /\ guard[g].at = "forbidden" => ~guard[g].known
    /\ \A b, c \in blog : DomainOf[b] = DomainOf[c] => b = c

=============================================================================
