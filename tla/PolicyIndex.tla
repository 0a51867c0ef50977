----------------------------- MODULE PolicyIndex -----------------------------
(***************************************************************************)
(* The policy index (repositories/policies.py): bootstrap_policy_collection*)
(* brings a Milvus collection in line with the clauses in the code, step   *)
(* by step, when the process starts (main.py, lifespan); searches then     *)
(* read it behind a Redis cache.                                           *)
(*                                                                         *)
(* A process may end between any two calls, any call may fail, and each    *)
(* deployment may bring other clauses, another embedding model, or the     *)
(* order to rebuild.  The collection and the cache outlive the process.    *)
(***************************************************************************)
EXTENDS FiniteSets, Naturals

CONSTANTS
    Clauses,       \* ids of policy documents
    Texts,         \* what a clause may say: its domain, title and content
    Models,        \* embedding models
    Dim,           \* the dimension of each model's vectors
    Searches,      \* searches under way
    None

ASSUME ModelsAssumption == Dim \in [Models -> Nat]
Rows == [text : Texts, model : Models, hashed : BOOLEAN]
Index == [dim : Nat, rows : [Clauses -> Rows \union {None}]]

ASSUME NoneAssumption == None \notin Texts /\ None \notin Rows /\ None \notin Index

Steps == {"lookup", "rebuild", "read", "embed", "check", "drop", "create",
          "upsert", "delete", "synced", "failed"}

VARIABLES
    corpus,        \* POLICY_DOCUMENTS of the code that is deployed
    model,         \* its embedding model
    rebuild,       \* policy_rebuild
    collection,    \* None, or its dimension and its rows
    step,          \* where the bootstrap stands
    exists,        \* what the bootstrap knows of the collection ...
    changed,       \* ... the clauses it will embed and upsert ...
    removed,       \* ... and the rows it will delete
    cache,         \* the cached answer of a query: None, or hits and whether
                   \* an earlier process left it
    search         \* where each search stands, and its hits

deployment == <<corpus, model, rebuild>>
locals == <<exists, changed, removed>>
vars == <<deployment, collection, step, locals, cache, search>>

Idle == [at |-> "idle", hits |-> {}, inherited |-> FALSE]

Corpora == {c \in [Clauses -> Texts \union {None}] : \E i \in Clauses : c[i] # None}
Present == {i \in Clauses : corpus[i] # None}
Stored == {i \in Clauses : collection.rows[i] # None}

\* A faulty variant of Unchanged: the model is left out of the hash.
UnchangedText(i) ==
    /\ collection.rows[i] # None
    /\ collection.rows[i].hashed
    /\ collection.rows[i].text = corpus[i]

\* The stored content_hash equals _content_hash: same text, same model.  Rows of
\* early versions have no hash and are never unchanged.
Unchanged(i) ==
    /\ collection.rows[i] # None
    /\ collection.rows[i].hashed
    /\ collection.rows[i].text = corpus[i]
    /\ collection.rows[i].model = model

\* A collection an early version may have left, without hashes.  (One text and one
\* model for all its rows: nothing looks at either.)
Legacy == {[dim |-> Dim[m], rows |-> [i \in Clauses |->
               IF i \in s THEN [text |-> t, model |-> m, hashed |-> FALSE] ELSE None]] :
           m \in Models, t \in Texts, s \in SUBSET Clauses}

Init ==
    /\ corpus \in Corpora /\ model \in Models /\ rebuild \in BOOLEAN
    /\ collection \in Legacy \union {None}
    /\ step = "lookup"
    /\ exists = FALSE /\ changed = {} /\ removed = {}
    /\ cache = None
    /\ search = [r \in Searches |-> Idle]

-----------------------------------------------------------------------------
(* bootstrap_policy_collection, one action per call of Milvus or of the   *)
(* embedding service                                                      *)

\* has_collection.  Without one, every clause is new.
LookUp ==
    /\ step = "lookup"
    /\ exists' = (collection # None)
    /\ step' = IF collection = None THEN "embed" ELSE IF rebuild THEN "rebuild" ELSE "read"
    /\ changed' = IF collection = None THEN Present ELSE {}
    /\ removed' = {}
    /\ UNCHANGED <<deployment, collection, cache, search>>

DropForRebuild ==
    /\ step = "rebuild" /\ step' = "embed"
    /\ collection' = None /\ exists' = FALSE
    /\ changed' = Present
    /\ UNCHANGED <<deployment, removed, cache, search>>

\* A faulty variant of ReadHashes: clauses no longer in the code are left alone.
ReadHashesKeeping ==
    /\ step = "read" /\ step' = "embed"
    /\ changed' = {i \in Present : ~Unchanged(i)}
    /\ UNCHANGED <<deployment, collection, exists, removed, cache, search>>

\* query: the stored hashes tell what to embed and what to delete.
ReadHashes ==
    /\ step = "read" /\ step' = "embed"
    /\ changed' = {i \in Present : ~Unchanged(i)}
    /\ removed' = Stored \ Present
    /\ UNCHANGED <<deployment, collection, exists, cache, search>>

\* aembed_documents; it is not called when nothing has changed.
Embed ==
    /\ step = "embed"
    /\ step' = IF ~exists THEN "create" ELSE IF changed # {} THEN "check" ELSE "delete"
    /\ UNCHANGED <<deployment, collection, locals, cache, search>>

\* A faulty variant of CheckDimension: any change rebuilds the collection.
CheckNothing ==
    /\ step = "check" /\ step' = "drop"
    /\ UNCHANGED <<deployment, collection, locals, cache, search>>

\* describe_collection
CheckDimension ==
    /\ step = "check"
    /\ step' = IF collection.dim # Dim[model] THEN "drop" ELSE "upsert"
    /\ UNCHANGED <<deployment, collection, locals, cache, search>>

DropForDimension ==
    /\ step = "drop" /\ step' = "create"
    /\ collection' = None /\ exists' = FALSE /\ removed' = {}
    /\ UNCHANGED <<deployment, changed, cache, search>>

Create ==
    /\ step = "create" /\ step' = "upsert"
    /\ collection' = [dim |-> Dim[model], rows |-> [i \in Clauses |-> None]]
    /\ UNCHANGED <<deployment, locals, cache, search>>

Upsert ==
    /\ step = "upsert" /\ step' = "delete"
    /\ collection' = [collection EXCEPT !.rows = [i \in Clauses |->
           IF i \in changed THEN [text |-> corpus[i], model |-> model, hashed |-> TRUE]
           ELSE @[i]]]
    /\ UNCHANGED <<deployment, locals, cache, search>>

\* delete, and the report that the collection is in line.
Delete ==
    /\ step = "delete" /\ step' = "synced"
    /\ collection' = [collection EXCEPT !.rows = [i \in Clauses |->
           IF i \in removed THEN None ELSE @[i]]]
    /\ UNCHANGED <<deployment, locals, cache, search>>

\* A call fails, with its effect (fail at the next step) or without it; lifespan
\* logs it and goes on to serve.
SyncFails ==
    /\ step \notin {"synced", "failed"} /\ step' = "failed"
    /\ UNCHANGED <<deployment, collection, locals, cache, search>>

\* The process ends, at any point; the next one may be another deployment.
Restart ==
    /\ corpus' \in Corpora /\ model' \in Models /\ rebuild' \in BOOLEAN
    /\ step' = "lookup" /\ exists' = FALSE /\ changed' = {} /\ removed' = {}
    /\ cache' = IF cache = None THEN None ELSE [cache EXCEPT !.inherited = TRUE]
    /\ search' = [r \in Searches |-> Idle]
    /\ UNCHANGED collection

-----------------------------------------------------------------------------
(* CachedMilvusPolicyRepository.search, for the searches of one query      *)

Serving == step \in {"synced", "failed"}
Search(r, at, hits, inherited) ==
    search' = [search EXCEPT ![r] = [at |-> at, hits |-> hits, inherited |-> inherited]]

\* _read_cache.  An entry that cannot be read or parsed counts as none.
ReadCache(r) ==
    /\ Serving /\ search[r].at \in {"idle", "answered", "error"}
    /\ \/ cache # None /\ Search(r, "answered", cache.hits, cache.inherited)
       \/ Search(r, "looking", {}, FALSE)
    /\ UNCHANGED <<deployment, collection, step, locals, cache>>

Searchable == collection # None /\ collection.dim = Dim[model]

\* A vector search finds some of the rows; it fails without a collection, or when
\* the query's vector does not fit.
Find(r) ==
    /\ search[r].at = "looking" /\ Searchable
    /\ \E found \in SUBSET Stored :
        Search(r, "found", {<<i, collection.rows[i].text, collection.rows[i].model>> : i \in found}, FALSE)
    /\ UNCHANGED <<deployment, collection, step, locals, cache>>

SearchFails(r) ==
    /\ search[r].at = "looking"
    /\ Search(r, "error", {}, FALSE)
    /\ UNCHANGED <<deployment, collection, step, locals, cache>>

\* _write_cache: a failure to write is only logged.
WriteCache(r) ==
    /\ search[r].at = "found"
    /\ cache' \in {cache, [hits |-> search[r].hits, inherited |-> FALSE]}
    /\ search' = [search EXCEPT ![r].at = "answered"]
    /\ UNCHANGED <<deployment, collection, step, locals>>

\* Redis drops the entry after 300 seconds.
Expire ==
    /\ cache # None /\ cache' = None
    /\ UNCHANGED <<deployment, collection, step, locals, search>>

Next ==
    \/ LookUp \/ DropForRebuild \/ ReadHashes \/ Embed
    \/ CheckDimension \/ DropForDimension \/ Create \/ Upsert \/ Delete
    \/ SyncFails \/ Restart
    \/ \E r \in Searches : ReadCache(r) \/ Find(r) \/ SearchFails(r) \/ WriteCache(r)
    \/ Expire

Spec == Init /\ [][Next]_vars

-----------------------------------------------------------------------------
\* Types of all variables.
TypeOK ==
    /\ corpus \in [Clauses -> Texts \union {None}]
    /\ \E i \in Clauses : corpus[i] # None
    /\ model \in Models /\ rebuild \in BOOLEAN
    /\ collection \in Index \union {None}
    /\ step \in Steps
    /\ exists \in BOOLEAN /\ changed \in SUBSET Clauses /\ removed \in SUBSET Clauses

\* The collection holds the clauses of the code, each as it now reads and with a
\* vector of the present model, and nothing else.
Exact ==
    /\ collection # None
    /\ Stored = Present
    /\ \A i \in Present : collection.rows[i].text = corpus[i] /\ collection.rows[i].model = model

\* "policy_collection_synced" is true, whatever earlier deployments left behind
\* and wherever they were cut off.
SyncIsExact == step = "synced" => Exact

\* A clause whose row is in order stays findable throughout: no step of a sync
\* takes it away, unless the operator ordered a rebuild.
CurrentRowsStay ==
    [][\A i \in Clauses :
        ~rebuild /\ collection # None /\ i \in Present /\ Unchanged(i)
            => collection' # None /\ collection'.rows[i] = collection.rows[i]]_vars

\* What a search answers after a successful sync are clauses as the code now has
\* them, found by comparable vectors; only an answer some earlier process left in
\* the cache can differ, until it expires.
AnswersAreCurrent ==
    \A r \in Searches :
        step = "synced" /\ search[r].at = "answered" /\ ~search[r].inherited =>
            \A i \in Clauses, t \in Texts, m \in Models :
                <<i, t, m>> \in search[r].hits => t = corpus[i] /\ m = model
=============================================================================
