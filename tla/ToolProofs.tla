------------------------------ MODULE ToolProofs ------------------------------
(***************************************************************************)
(* Theorems about the two tools that keep state of their own.              *)
(*                                                                         *)
(* PolicyIndex, for any clauses, texts and models, and however many        *)
(* deployments, failures and restarts came before: a sync that reports     *)
(* success leaves exactly the clauses of the code, no step of a sync takes *)
(* away a row that is in order, and searches answer with what is there.    *)
(*                                                                         *)
(* MeetingRooms (second half), for any calls, rooms and slots: as long as  *)
(* no two calls have overlapped, none was stopped half way and the process *)
(* lives on, no room is booked twice and the memory says what the ledger   *)
(* says.                                                                   *)
(***************************************************************************)
EXTENDS PolicyIndex, MeetingRooms, Integers, TLAPS

-----------------------------------------------------------------------------
(* The policy index *)

USE ModelsAssumption, NoneAssumption

\* Every row has the dimension of its collection.  (So a row of the present model
\* is proof that the collection has the present dimension.)
RowsFit ==
  collection # None =>
    \A i \in Stored : collection.dim = Dim[collection.rows[i].model]

\* What the bootstrap remembers is still true of the collection when it acts on it.
Informed ==
  /\ step \in {"rebuild", "read"} => exists /\ collection # None /\ removed = {}
  /\ step = "rebuild" => rebuild
  /\ step \in {"embed", "check", "drop"} =>
        /\ exists <=> collection # None
        /\ ~exists => changed = Present /\ removed = {}
        /\ exists => changed = {i \in Present : ~Unchanged(i)} /\ removed = Stored \ Present
  /\ step \in {"check", "drop"} => exists
  /\ step = "drop" => collection.dim # Dim[model]
  /\ step = "create" => collection = None /\ changed = Present /\ removed = {}

\* From the upsert on, what is not in order is still on one of the two lists.
Converging ==
  /\ step = "upsert" =>
        /\ collection # None /\ collection.dim = Dim[model]
        /\ changed \subseteq Present
        /\ \A i \in Present \ changed : Unchanged(i)
        /\ removed = Stored \ Present
  /\ step = "delete" =>
        /\ collection # None
        /\ \A i \in Present : Unchanged(i)
        /\ removed = Stored \ Present

IInv == TypeOK /\ RowsFit /\ Informed /\ Converging /\ SyncIsExact

LEMMA IInvStarts == Init => IInv
<1> SUFFICES ASSUME Init PROVE IInv
  OBVIOUS
<1>1. ASSUME NEW c \in Legacy PROVE
        /\ c \in Index
        /\ \A i \in Clauses : c.rows[i] # None => c.dim = Dim[c.rows[i].model]
  <2>1. PICK m \in Models, t \in Texts, s \in SUBSET Clauses :
          c = [dim |-> Dim[m], rows |-> [i \in Clauses |->
                 IF i \in s THEN [text |-> t, model |-> m, hashed |-> FALSE] ELSE None]]
    BY DEF Legacy
  <2>2. [text |-> t, model |-> m, hashed |-> FALSE] \in Rows
    BY DEF Rows
  <2>3. Dim[m] \in Nat
    OBVIOUS
  <2> QED BY <2>1, <2>2, <2>3 DEF Index
<1>2. TypeOK
  BY <1>1 DEF Init, TypeOK, Corpora, Steps
<1>3. RowsFit
  BY <1>1 DEF Init, RowsFit, Stored
<1> QED BY <1>2, <1>3 DEF Init, IInv, Informed, Converging, SyncIsExact

\* A step that touches neither the collection nor the bootstrap.
LEMMA ElsewhereKeepsIInv ==
  ASSUME IInv, UNCHANGED <<deployment, collection, step, locals>> PROVE IInv'
  BY DEF IInv, TypeOK, RowsFit, Informed, Converging, SyncIsExact, Exact, Stored, Present,
         Unchanged, deployment, locals

LEMMA LookUpKeepsIInv ==
  ASSUME IInv, LookUp PROVE IInv'
  BY DEF IInv, TypeOK, RowsFit, Informed, Converging, SyncIsExact, Exact, Stored, Present,
         Unchanged, LookUp, deployment, Steps

LEMMA DropForRebuildKeepsIInv ==
  ASSUME IInv, DropForRebuild PROVE IInv'
  BY DEF IInv, TypeOK, RowsFit, Informed, Converging, SyncIsExact, Exact, Stored, Present,
         Unchanged, DropForRebuild, deployment, Steps

LEMMA ReadHashesKeepsIInv ==
  ASSUME IInv, ReadHashes PROVE IInv'
<1>1. /\ UNCHANGED <<corpus, model, rebuild, collection, exists>>
      /\ step = "read" /\ step' = "embed"
      /\ changed' = {i \in Present : ~Unchanged(i)} /\ removed' = Stored \ Present
  BY DEF ReadHashes, deployment
<1>2. TypeOK' /\ RowsFit'
  BY <1>1 DEF IInv, TypeOK, RowsFit, Stored, Present, Steps
<1>3. /\ Present' = Present /\ Stored' = Stored
      /\ \A i \in Clauses : Unchanged(i)' <=> Unchanged(i)
  BY <1>1 DEF Stored, Present, Unchanged
<1>4. /\ changed' = {i \in Present' : ~Unchanged(i)'}
      /\ removed' = Stored' \ Present'
  BY <1>1, <1>3 DEF Present
<1>5. exists' /\ collection' # None
  BY <1>1 DEF IInv, Informed
<1>6. Informed'
  BY <1>1, <1>4, <1>5 DEF Informed
<1> QED BY <1>1, <1>2, <1>6 DEF IInv, Converging, SyncIsExact

\* With nothing to embed, every clause is in order already.
LEMMA EmbedKeepsIInv ==
  ASSUME IInv, Embed PROVE IInv'
  BY DEF IInv, TypeOK, RowsFit, Informed, Converging, SyncIsExact, Exact, Stored, Present,
         Unchanged, Embed, deployment, locals, Steps

LEMMA CheckDimensionKeepsIInv ==
  ASSUME IInv, CheckDimension PROVE IInv'
  BY DEF IInv, TypeOK, RowsFit, Informed, Converging, SyncIsExact, Exact, Stored, Present,
         Unchanged, CheckDimension, deployment, locals, Steps

\* A collection of another dimension has no row of the present model: all clauses
\* are on the list, none is lost with it.
LEMMA DropForDimensionKeepsIInv ==
  ASSUME IInv, DropForDimension PROVE IInv'
<1>1. changed = Present
  BY DEF IInv, RowsFit, Informed, DropForDimension, Stored, Present, Unchanged
<1> QED
  BY <1>1 DEF IInv, TypeOK, RowsFit, Informed, Converging, SyncIsExact, Exact, Stored,
         Present, Unchanged, DropForDimension, deployment, locals, Steps

LEMMA CreateKeepsIInv ==
  ASSUME IInv, Create PROVE IInv'
<1> DEFINE empty == [dim |-> Dim[model], rows |-> [i \in Clauses |-> None]]
<1>1. empty \in Index /\ empty # None
  BY DEF IInv, TypeOK, Index
<1> QED
  BY <1>1 DEF IInv, TypeOK, RowsFit, Informed, Converging, SyncIsExact, Exact, Stored,
         Present, Unchanged, Create, deployment, locals, Steps

LEMMA UpsertKeepsIInv ==
  ASSUME IInv, Upsert PROVE IInv'
<1>1. /\ collection \in Index /\ collection # None /\ collection.dim = Dim[model]
      /\ model \in Models /\ changed \subseteq Present
      /\ \A i \in Present \ changed : Unchanged(i)
      /\ removed = Stored \ Present
  BY DEF IInv, TypeOK, Converging, Upsert
<1>2. UNCHANGED <<corpus, model, rebuild, exists, changed, removed>> /\ step' = "delete"
  BY DEF Upsert, deployment, locals
<1> DEFINE new(i) == [text |-> corpus[i], model |-> model, hashed |-> TRUE]
<1>3. ASSUME NEW i \in changed PROVE new(i) \in Rows /\ new(i) # None
  <2>1. corpus[i] \in Texts
    BY <1>1 DEF IInv, TypeOK, Present
  <2>2. new(i) \in Rows
    BY <1>1, <2>1 DEF Rows
  <2> QED BY <2>2
<1>4. /\ collection'.dim = collection.dim
      /\ \A i \in Clauses : collection'.rows[i] = IF i \in changed THEN new(i) ELSE collection.rows[i]
  BY <1>1 DEF Upsert, Index
<1>5. collection' \in Index
  <2>1. [i \in Clauses |-> IF i \in changed THEN new(i) ELSE collection.rows[i]]
            \in [Clauses -> Rows \union {None}]
    BY <1>1, <1>3 DEF Index
  <2> QED BY <1>1, <2>1 DEF Upsert, Index
<1>6. TypeOK'
  BY <1>2, <1>5 DEF IInv, TypeOK, Steps
<1>7. RowsFit'
  <2> SUFFICES ASSUME NEW i \in Clauses, collection'.rows[i] # None
               PROVE  collection'.dim = Dim[collection'.rows[i].model]
    BY DEF RowsFit, Stored
  <2>1. CASE i \in changed
    <3>1. collection'.rows[i] = new(i)
      BY <1>4, <2>1
    <3>2. new(i).model = model
      OBVIOUS
    <3> QED BY <1>1, <1>4, <3>1, <3>2
  <2>2. CASE i \notin changed
    BY <1>1, <1>4, <2>2 DEF IInv, RowsFit, Stored
  <2> QED BY <2>1, <2>2
<1>8. Converging'
  <2>1. collection' # None
    BY <1>5
  <2>2. ASSUME NEW i \in Present PROVE Unchanged(i)'
    <3>1. i \in Clauses
      BY DEF Present
    <3>2. CASE i \in changed
      <4>1. collection'.rows[i] = new(i) /\ new(i) # None
        BY <1>3, <1>4, <3>1, <3>2
      <4>2. new(i).hashed /\ new(i).text = corpus[i] /\ new(i).model = model
        OBVIOUS
      <4> QED BY <1>2, <4>1, <4>2 DEF Unchanged
    <3>3. CASE i \notin changed
      <4>1. collection'.rows[i] = collection.rows[i] /\ Unchanged(i)
        BY <1>1, <1>4, <3>1, <3>3
      <4> QED BY <1>2, <4>1 DEF Unchanged
    <3> QED BY <3>2, <3>3
  <2>3. Stored' \ Present = Stored \ Present
    BY <1>1, <1>3, <1>4 DEF Stored
  <2>4. Present' = Present
    BY <1>2 DEF Present
  <2> QED BY <1>1, <1>2, <2>1, <2>2, <2>3, <2>4 DEF Converging
<1> QED BY <1>2, <1>6, <1>7, <1>8 DEF IInv, Informed, SyncIsExact

LEMMA DeleteKeepsIInv ==
  ASSUME IInv, Delete PROVE IInv'
<1>1. /\ collection \in Index /\ collection # None
      /\ \A i \in Present : Unchanged(i)
      /\ removed = Stored \ Present
  BY DEF IInv, TypeOK, Converging, Delete
<1>2. UNCHANGED <<corpus, model, rebuild, exists, changed, removed>> /\ step' = "synced"
  BY DEF Delete, deployment, locals
<1>3. /\ collection'.dim = collection.dim
      /\ \A i \in Clauses : collection'.rows[i] = IF i \in removed THEN None ELSE collection.rows[i]
  BY <1>1 DEF Delete, Index
<1>4. collection' \in Index
  <2>1. [i \in Clauses |-> IF i \in removed THEN None ELSE collection.rows[i]]
            \in [Clauses -> Rows \union {None}]
    BY <1>1 DEF Index
  <2> QED BY <1>1, <2>1 DEF Delete, Index
<1>5. TypeOK'
  BY <1>2, <1>4 DEF IInv, TypeOK, Steps
<1>6. RowsFit'
  BY <1>1, <1>2, <1>3 DEF IInv, RowsFit, Stored
<1>7. Exact'
  <2>1. collection' # None
    BY <1>4
  <2>2. Stored' = Present'
    BY <1>1, <1>2, <1>3 DEF Stored, Present, Unchanged
  <2>3. \A i \in Present' : collection'.rows[i].text = corpus'[i] /\ collection'.rows[i].model = model'
    BY <1>1, <1>2, <1>3 DEF Unchanged, Present
  <2> QED BY <2>1, <2>2, <2>3 DEF Exact
<1> QED BY <1>2, <1>5, <1>6, <1>7 DEF IInv, Informed, Converging, SyncIsExact

LEMMA SyncFailsKeepsIInv ==
  ASSUME IInv, SyncFails PROVE IInv'
  BY DEF IInv, TypeOK, RowsFit, Informed, Converging, SyncIsExact, Stored, SyncFails,
         deployment, locals, Steps

LEMMA RestartKeepsIInv ==
  ASSUME IInv, Restart PROVE IInv'
  BY DEF IInv, TypeOK, RowsFit, Informed, Converging, SyncIsExact, Stored, Restart, Corpora,
         Steps

LEMMA NextKeepsIInv == IInv /\ [Next]_vars => IInv'
<1> SUFFICES ASSUME IInv, [Next]_vars PROVE IInv'
  OBVIOUS
<1>1. CASE LookUp BY <1>1, LookUpKeepsIInv
<1>2. CASE DropForRebuild BY <1>2, DropForRebuildKeepsIInv
<1>3. CASE ReadHashes BY <1>3, ReadHashesKeepsIInv
<1>4. CASE Embed BY <1>4, EmbedKeepsIInv
<1>5. CASE CheckDimension BY <1>5, CheckDimensionKeepsIInv
<1>6. CASE DropForDimension BY <1>6, DropForDimensionKeepsIInv
<1>7. CASE Create BY <1>7, CreateKeepsIInv
<1>8. CASE Upsert BY <1>8, UpsertKeepsIInv
<1>9. CASE Delete BY <1>9, DeleteKeepsIInv
<1>10. CASE SyncFails BY <1>10, SyncFailsKeepsIInv
<1>11. CASE Restart BY <1>11, RestartKeepsIInv
<1>12. CASE \E r \in Searches : ReadCache(r) \/ Find(r) \/ SearchFails(r) \/ WriteCache(r)
  BY <1>12, ElsewhereKeepsIInv DEF ReadCache, Find, SearchFails, WriteCache
<1>13. CASE Expire
  BY <1>13, ElsewhereKeepsIInv DEF Expire
<1>14. CASE UNCHANGED vars
  BY <1>14, ElsewhereKeepsIInv DEF vars
<1> QED
  BY <1>1, <1>2, <1>3, <1>4, <1>5, <1>6, <1>7, <1>8, <1>9, <1>10, <1>11, <1>12, <1>13,
     <1>14 DEF Next

LEMMA Inductive == Spec => []IInv
<1>1. Init => IInv BY IInvStarts
<1>2. IInv /\ [Next]_vars => IInv' BY NextKeepsIInv
<1> QED BY <1>1, <1>2, PTL DEF Spec

\* Every variable of the bootstrap keeps its type, in every deployment.
THEOREM TypeCorrect == Spec => []TypeOK
<1>1. IInv => TypeOK BY DEF IInv
<1> QED BY <1>1, Inductive, PTL

\* bootstrap_policy_collection reports success only when the collection holds
\* exactly the clauses of the code, with vectors of the present model.
THEOREM SyncExact == Spec => []SyncIsExact
<1>1. IInv => SyncIsExact BY DEF IInv
<1> QED BY <1>1, Inductive, PTL

\* No step of a sync, or of anything else, takes away a row that is in order: only
\* a rebuild the operator ordered does.
THEOREM RowsStay == Spec => CurrentRowsStay
<1> DEFINE Stays == \A i \in Clauses :
        ~rebuild /\ collection # None /\ i \in Present /\ Unchanged(i)
            => collection' # None /\ collection'.rows[i] = collection.rows[i]
<1>1. IInv /\ [Next]_vars => [Stays]_vars
  <2> SUFFICES ASSUME IInv, Next, NEW i \in Clauses,
                      ~rebuild, collection # None, i \in Present, Unchanged(i)
               PROVE  collection' # None /\ collection'.rows[i] = collection.rows[i]
    OBVIOUS
  <2>1. CASE DropForRebuild
    BY <2>1 DEF IInv, Informed, DropForRebuild
  <2>2. CASE DropForDimension
    BY <2>2 DEF IInv, Informed, RowsFit, Unchanged, Stored, DropForDimension
  <2>3. CASE Create
    BY <2>3 DEF IInv, Informed, Create
  <2>4. CASE Upsert
    <3>1. collection \in Index /\ IInv'
      BY <2>4, UpsertKeepsIInv DEF IInv, TypeOK
    <3>2. collection'.rows[i] = IF i \in changed
              THEN [text |-> corpus[i], model |-> model, hashed |-> TRUE] ELSE collection.rows[i]
      BY <2>4, <3>1 DEF Upsert, Index
    <3>3. collection.rows[i] = [text |-> corpus[i], model |-> model, hashed |-> TRUE]
      BY <3>1 DEF Unchanged, Index, Rows
    <3>4. collection' # None
      BY <2>4, <3>1 DEF IInv, Converging, Upsert
    <3> QED BY <3>2, <3>3, <3>4
  <2>5. CASE Delete
    <3>1. collection \in Index /\ i \notin removed /\ IInv'
      BY <2>5, DeleteKeepsIInv DEF IInv, TypeOK, Converging, Delete
    <3>2. collection'.rows[i] = collection.rows[i]
      BY <2>5, <3>1 DEF Delete, Index
    <3>3. collection' # None
      BY <2>5, <3>1 DEF IInv, SyncIsExact, Exact, Delete
    <3> QED BY <3>2, <3>3
  <2>6. CASE UNCHANGED collection
    BY <2>6
  <2> QED
    BY <2>1, <2>2, <2>3, <2>4, <2>5, <2>6
       DEF Next, LookUp, ReadHashes, Embed, CheckDimension, SyncFails, Restart, ReadCache, Find,
           SearchFails, WriteCache, Expire
<1>2. Spec => [][Stays]_vars
  BY <1>1, Inductive, PTL DEF Spec
<1> QED BY <1>2 DEF CurrentRowsStay

-----------------------------------------------------------------------------
(* The searches *)

Hits == SUBSET (Clauses \X Texts \X Models)
Positions == {"idle", "looking", "found", "answered", "error"}
Entry == [hits : Hits, inherited : BOOLEAN]
Reading == [at : Positions, hits : Hits, inherited : BOOLEAN]

Current(h) ==
  \A i \in Clauses, t \in Texts, m \in Models : <<i, t, m>> \in h => t = corpus[i] /\ m = model

\* Nobody searches before the sync is over, and only earlier processes have written
\* to the cache by then; after a success what is found, cached and answered is
\* current, unless an earlier process left it.
SearchInv ==
  /\ search \in [Searches -> Reading]
  /\ \A r \in Searches : search[r].at = "found" => ~search[r].inherited
  /\ cache # None => cache \in Entry
  /\ step \notin {"synced", "failed"} =>
        /\ \A r \in Searches : search[r].at = "idle"
        /\ cache # None => cache.inherited
  /\ step = "synced" =>
        /\ \A r \in Searches :
             search[r].at \in {"found", "answered"} /\ ~search[r].inherited
                 => Current(search[r].hits)
        /\ cache # None /\ ~cache.inherited => Current(cache.hits)

\* What a search finds in the rows it finds in a collection that is in line.
LEMMA FoundIsTyped ==
  ASSUME IInv, NEW found \in SUBSET Stored, collection # None
  PROVE  {<<i, collection.rows[i].text, collection.rows[i].model>> : i \in found} \in Hits
<1>1. \A i \in found : i \in Clauses /\ collection.rows[i] \in Rows
  BY DEF IInv, TypeOK, Index, Stored
<1> QED BY <1>1 DEF Hits, Rows

LEMMA FoundIsCurrent ==
  ASSUME IInv, NEW found \in SUBSET Stored, step = "synced"
  PROVE  Current({<<i, collection.rows[i].text, collection.rows[i].model>> : i \in found})
  BY DEF IInv, SyncIsExact, Exact, Stored, Present, Current

\* A step of the sync: nobody searches yet.
LEMMA SyncKeepsSearches ==
  ASSUME SearchInv, step \notin {"synced", "failed"},
         UNCHANGED <<deployment, cache, search>>
  PROVE  SearchInv'
<1>1. /\ UNCHANGED <<corpus, model, cache, search>>
      /\ \A r \in Searches : search[r].at = "idle"
      /\ cache # None => cache.inherited
  BY DEF deployment, SearchInv
<1> QED BY <1>1 DEF SearchInv, Current

LEMMA RestartKeepsSearches ==
  ASSUME SearchInv, Restart
  PROVE  SearchInv'
<1>1. Idle \in Reading /\ Idle.at = "idle"
  BY DEF Idle, Reading, Positions, Hits
<1>2. search' = [r \in Searches |-> Idle] /\ step' = "lookup"
  BY DEF Restart
<1>3. search' \in [Searches -> Reading] /\ \A r \in Searches : search'[r].at = "idle"
  BY <1>1, <1>2
<1>4. cache' # None => cache' \in Entry /\ cache'.inherited
  BY DEF SearchInv, Restart, Entry
<1> QED BY <1>2, <1>3, <1>4 DEF SearchInv

\* One search goes on to a reading that is current if it must be.
LEMMA SearchKeepsSearches ==
  ASSUME SearchInv, NEW r \in Searches, NEW new \in Reading,
         search' = [search EXCEPT ![r] = new],
         step \in {"synced", "failed"},
         new.at = "found" => ~new.inherited,
         step = "synced" /\ new.at \in {"found", "answered"} /\ ~new.inherited
             => Current(new.hits),
         UNCHANGED <<corpus, model, step>>,
         cache' = cache \/ (/\ cache' \in Entry
                            /\ step = "synced" /\ ~cache'.inherited => Current(cache'.hits))
  PROVE  SearchInv'
<1>1. search \in [Searches -> Reading]
  BY DEF SearchInv
<1>2. /\ search' \in [Searches -> Reading]
      /\ \A x \in Searches : search'[x] = IF x = r THEN new ELSE search[x]
  BY <1>1
<1>3. \A h : Current(h)' <=> Current(h)
  BY DEF Current
<1>4. cache' # None => cache' \in Entry
  BY DEF SearchInv
<1>5. step' = "synced" =>
        /\ \A x \in Searches :
             search'[x].at \in {"found", "answered"} /\ ~search'[x].inherited
                 => Current(search'[x].hits)
        /\ cache' # None /\ ~cache'.inherited => Current(cache'.hits)
  BY <1>2 DEF SearchInv
<1> QED BY <1>2, <1>3, <1>4, <1>5 DEF SearchInv, Current

LEMMA NextKeepsSearches == IInv /\ SearchInv /\ [Next]_vars => SearchInv'
<1> SUFFICES ASSUME IInv, SearchInv, [Next]_vars PROVE SearchInv'
  OBVIOUS
<1> USE DEF deployment, locals
<1>1. CASE \/ LookUp \/ DropForRebuild \/ ReadHashes \/ Embed \/ CheckDimension
           \/ DropForDimension \/ Create \/ Upsert \/ Delete \/ SyncFails
  <2>1. step \notin {"synced", "failed"} /\ UNCHANGED <<deployment, cache, search>>
    BY <1>1 DEF LookUp, DropForRebuild, ReadHashes, Embed, CheckDimension, DropForDimension,
                Create, Upsert, Delete, SyncFails
  <2> QED BY <2>1, SyncKeepsSearches
<1>2. CASE Restart
  BY <1>2, RestartKeepsSearches
<1>3. ASSUME NEW r \in Searches, ReadCache(r) PROVE SearchInv'
  <2>1. step \in {"synced", "failed"} /\ UNCHANGED <<corpus, model, step, cache>>
    BY <1>3 DEF ReadCache, Serving
  <2>2. CASE cache # None /\ Search(r, "answered", cache.hits, cache.inherited)
    <3> DEFINE new == [at |-> "answered", hits |-> cache.hits, inherited |-> cache.inherited]
    <3>1. cache \in Entry
      BY <2>2 DEF SearchInv
    <3>2. new \in Reading /\ new.hits = cache.hits /\ new.inherited = cache.inherited
          /\ new.at = "answered"
      BY <3>1 DEF Entry, Reading, Positions
    <3>3. search' = [search EXCEPT ![r] = new]
      BY <2>2 DEF Search
    <3>4. step = "synced" /\ ~new.inherited => Current(new.hits)
      BY <2>2, <3>2 DEF SearchInv
    <3> HIDE DEF new
    <3> QED BY <2>1, <3>2, <3>3, <3>4, SearchKeepsSearches
  <2>3. CASE Search(r, "looking", {}, FALSE)
    <3> DEFINE new == [at |-> "looking", hits |-> {}, inherited |-> FALSE]
    <3>1. new \in Reading /\ new.at = "looking"
      BY DEF Reading, Positions, Hits
    <3>2. search' = [search EXCEPT ![r] = new]
      BY <2>3 DEF Search
    <3> HIDE DEF new
    <3> QED BY <2>1, <3>1, <3>2, SearchKeepsSearches
  <2> QED BY <1>3, <2>2, <2>3 DEF ReadCache
<1>4. ASSUME NEW r \in Searches, Find(r) PROVE SearchInv'
  <2>1. search[r].at = "looking" /\ collection # None /\ UNCHANGED <<corpus, model, step, cache>>
    BY <1>4 DEF Find, Searchable
  <2>2. step \in {"synced", "failed"}
    BY <2>1 DEF SearchInv
  <2>3. PICK found \in SUBSET Stored :
          Search(r, "found",
                 {<<i, collection.rows[i].text, collection.rows[i].model>> : i \in found}, FALSE)
    BY <1>4 DEF Find
  <2>4. PICK h : h = {<<i, collection.rows[i].text, collection.rows[i].model>> : i \in found}
    OBVIOUS
  <2>5. h \in Hits /\ (step = "synced" => Current(h))
    BY <2>1, <2>4, FoundIsTyped, FoundIsCurrent
  <2> DEFINE new == [at |-> "found", hits |-> h, inherited |-> FALSE]
  <2>6. new \in Reading /\ new.hits = h /\ ~new.inherited
    BY <2>5 DEF Reading, Positions
  <2>7. search' = [search EXCEPT ![r] = new]
    BY <2>3, <2>4 DEF Search
  <2> HIDE DEF new
  <2> QED BY <2>1, <2>2, <2>5, <2>6, <2>7, SearchKeepsSearches
<1>5. ASSUME NEW r \in Searches, SearchFails(r) PROVE SearchInv'
  <2>1. search[r].at = "looking" /\ UNCHANGED <<corpus, model, step, cache>>
    BY <1>5 DEF SearchFails
  <2>2. step \in {"synced", "failed"}
    BY <2>1 DEF SearchInv
  <2> DEFINE new == [at |-> "error", hits |-> {}, inherited |-> FALSE]
  <2>3. new \in Reading /\ new.at = "error"
    BY DEF Reading, Positions, Hits
  <2>4. search' = [search EXCEPT ![r] = new]
    BY <1>5 DEF SearchFails, Search
  <2> HIDE DEF new
  <2> QED BY <2>1, <2>2, <2>3, <2>4, SearchKeepsSearches
<1>6. ASSUME NEW r \in Searches, WriteCache(r) PROVE SearchInv'
  <2>1. /\ search[r].at = "found" /\ UNCHANGED <<corpus, model, step>>
        /\ cache' \in {cache, [hits |-> search[r].hits, inherited |-> FALSE]}
        /\ search' = [search EXCEPT ![r].at = "answered"]
    BY <1>6 DEF WriteCache
  <2>2. step \in {"synced", "failed"} /\ search[r] \in Reading
    BY <2>1 DEF SearchInv
  <2>3. PICK new : new = [search[r] EXCEPT !.at = "answered"]
    OBVIOUS
  <2>4. /\ new \in Reading /\ new.hits = search[r].hits /\ new.inherited = search[r].inherited
        /\ new.at = "answered"
        /\ search' = [search EXCEPT ![r] = new]
    BY <2>1, <2>2, <2>3 DEF Reading, Positions
  <2>5. step = "synced" /\ ~search[r].inherited => Current(search[r].hits)
    BY <2>1 DEF SearchInv
  <2>6. PICK e : e = [hits |-> search[r].hits, inherited |-> FALSE]
    OBVIOUS
  <2>7. e \in Entry /\ e.hits = search[r].hits
    BY <2>2, <2>6 DEF Entry, Reading
  <2>8. step = "synced" => ~search[r].inherited
    BY <2>1, <2>2 DEF SearchInv
  <2>9. cache' = cache \/ (cache' \in Entry /\ (step = "synced" => Current(cache'.hits)))
    BY <2>1, <2>5, <2>6, <2>7, <2>8
  <2> QED BY <2>1, <2>2, <2>4, <2>5, <2>9, SearchKeepsSearches
<1>7. CASE Expire
  BY <1>7 DEF Expire, SearchInv, Current
<1>8. CASE UNCHANGED vars
  BY <1>8 DEF vars, SearchInv, Current
<1> QED BY <1>1, <1>2, <1>3, <1>4, <1>5, <1>6, <1>7, <1>8 DEF Next

\* CachedMilvusPolicyRepository.search: after a successful sync a search answers with
\* clauses as the code has them, but for what an earlier process left in the cache.
THEOREM SearchesAreCurrent == Spec => []AnswersAreCurrent
<1>1. Init => SearchInv
  <2> SUFFICES ASSUME Init PROVE SearchInv
    OBVIOUS
  <2>1. Idle \in Reading /\ Idle.at = "idle"
    BY DEF Idle, Reading, Positions, Hits
  <2> QED BY <2>1 DEF Init, SearchInv
<1>2. IInv /\ SearchInv /\ [Next]_vars => SearchInv'
  BY NextKeepsSearches
<1>3. SearchInv => AnswersAreCurrent
  BY DEF SearchInv, AnswersAreCurrent, Current
<1> QED BY <1>1, <1>2, <1>3, Inductive, PTL DEF Spec

-----------------------------------------------------------------------------
(* The meeting rooms *)

LEMMA CallsApart ==
  Books \cap Updates = {} /\ Books \cap Revokes = {} /\ Updates \cap Revokes = {}
  BY CallsAssumption DEF CallsAssumption

LEMMA SlotsAreIntervals ==
  \A s \in Wanted : s.start \in Nat /\ s.end \in Nat /\ s.start < s.end /\ s.day \in Nat
  BY SlotsAssumption DEF SlotsAssumption

LEMMA BoundsAreNat == MaxDay \in Nat /\ MaxFaults \in Nat
  BY BoundsAssumption DEF BoundsAssumption

LEMMA NothingIsNothing == Nothing \notin Books \cup Wanted \cup Bookings
  BY NothingAssumption DEF NothingAssumption

Busy(c) == phase[c] \in {"cleared", "written"}

\* The slot a booking ought to hold in the memory.
Held(r) == IF Live(r) THEN ledger[r].slot ELSE Nothing

\* While calls come one after the other: a call does its part once, what was clear at
\* its check is clear when it records, and the memory lags behind the ledger only by
\* the call that has recorded and not yet returned.
InTurn ==
  /\ \A c, d \in Calls : Busy(c) /\ Busy(d) => c = d
  /\ \A c \in Books : /\ phase[c] \in {"idle", "cleared"} => ledger[c] = Nothing
                      /\ Busy(c) => target[c] = c
  /\ \A c \in Updates \cup Revokes : phase[c] \in {"idle", "cleared"} => c \notin logged
  /\ \A c \in Calls : phase[c] = "cleared" =>
       /\ c \notin Revokes => \A r \in Books \ {target[c]} :
                                Live(r) => ~Overlap(slot[c], ledger[r].slot)
       /\ c \notin Books => Live(target[c])
  /\ \A c \in Calls : phase[c] = "written" =>
       /\ c \in Revokes => ~Live(target[c])
       /\ c \notin Revokes => ledger[target[c]] = [slot |-> slot[c], revoked |-> FALSE]
  /\ \A r \in Books :
       (\A c \in Calls : phase[c] = "written" => target[c] # r) => booked[r] = Held(r)
  /\ RoomBookedOnce

RoomsInv == RoomsTypeOK /\ (calm => InTurn)

-----------------------------------------------------------------------------
(* Slots *)

\* Two slots that share an instant clash.
LEMMA OverlapClashes ==
  ASSUME NEW s \in Wanted, NEW o \in Wanted, Overlap(s, o)
  PROVE  Clashes(s, o)
<1>1. /\ s.start \in Nat /\ s.end \in Nat /\ o.start \in Nat /\ o.end \in Nat
  BY SlotsAreIntervals
<1>2. PICK x : x \in (s.start .. s.end - 1) \cap (o.start .. o.end - 1)
  BY DEF Overlap
<1>3. x \in Int /\ s.start <= x /\ x <= s.end - 1 /\ o.start <= x /\ x <= o.end - 1
  BY <1>1, <1>2
<1> QED BY <1>1, <1>3 DEF Overlap, Clashes

LEMMA OverlapSymmetric ==
  ASSUME NEW s, NEW o, Overlap(s, o)
  PROVE  Overlap(o, s)
  BY DEF Overlap

\* A slot that is free clashes with no booking's slot in memory.
LEMMA FreeIsClear ==
  ASSUME NEW s, NEW ignore, IsFree(s, ignore), NEW r \in Books \ ignore, booked[r] # Nothing
  PROVE  ~Clashes(s, booked[r])
<1>1. booked[r] \in OccupiedBut(ignore)
  BY DEF OccupiedBut
<1> QED BY <1>1 DEF IsFree

-----------------------------------------------------------------------------
(* The three steps of a call *)

\* _is_free or _merged: with nobody else between check and end, what is free in the
\* memory is free in the ledger.
LEMMA CheckInTurn ==
  ASSUME RoomsInv, NEW c \in Calls, NEW r \in Books, NEW s, NEW p \in {"cleared", "done"},
         phase[c] = "idle", calm, Alone(c),
         phase' = [phase EXCEPT ![c] = p], target' = [target EXCEPT ![c] = r],
         \A d \in Calls : slot'[d] = IF d = c THEN s ELSE slot[d],
         UNCHANGED <<booked, ledger, logged>>,
         c \in Books => r = c,
         p = "cleared" /\ c \notin Revokes =>
            s \in Wanted /\ \A q \in Books \ {r} : booked[q] # Nothing => ~Clashes(s, booked[q]),
         p = "cleared" /\ c \notin Books => Live(r)
  PROVE  InTurn'
<1>1. InTurn /\ RoomsTypeOK
  BY DEF RoomsInv
<1>2. /\ phase \in [Calls -> {"idle", "cleared", "written", "done"}]
      /\ target \in [Calls -> Books \cup {Nothing}]
      /\ booked \in [Books -> Wanted \cup {Nothing}]
      /\ ledger \in [Books -> Bookings \cup {Nothing}]
      /\ Books \subseteq Calls
  BY <1>1 DEF RoomsTypeOK, Calls
<1>3. \A d \in Calls : /\ phase'[d] = IF d = c THEN p ELSE phase[d]
                       /\ target'[d] = IF d = c THEN r ELSE target[d]
  BY <1>2
<1>4. \A d \in Calls : ~Busy(d)
  BY DEF Alone, Busy
<1>5. \A d \in Calls : phase'[d] # "written"
  BY <1>3, <1>4 DEF Busy
<1>6. \A d \in Calls : phase'[d] = "cleared" => d = c
  BY <1>3, <1>4 DEF Busy
<1>7. \A q \in Books : booked[q] = Held(q)
  BY <1>1, <1>4 DEF InTurn, Busy
<1>8. \A q : Live(q)' <=> Live(q)
  BY DEF Live
<1>9. \A d, e \in Calls : Busy(d)' /\ Busy(e)' => d = e
  BY <1>5, <1>6 DEF Busy
<1>10. \A d \in Books : /\ phase'[d] \in {"idle", "cleared"} => ledger'[d] = Nothing
                        /\ Busy(d)' => target'[d] = d
  <2>1. \A d \in Books : phase'[d] \in {"idle", "cleared"} => phase[d] = "idle"
    BY <1>2, <1>3, <1>4 DEF Busy
  <2>2. \A d \in Books : Busy(d)' => d = c
    BY <1>2, <1>5, <1>6 DEF Busy
  <2> QED BY <1>1, <1>3, <2>1, <2>2 DEF InTurn
<1>11. \A d \in Updates \cup Revokes : phase'[d] \in {"idle", "cleared"} => d \notin logged'
  <2>1. \A d \in Updates \cup Revokes : phase'[d] \in {"idle", "cleared"} => phase[d] = "idle"
    BY <1>3, <1>4 DEF Busy, Calls
  <2> QED BY <1>1, <2>1 DEF InTurn
<1>12. ASSUME p = "cleared", c \notin Revokes, NEW q \in Books \ {r}, Live(q),
              Overlap(s, ledger[q].slot)
       PROVE  FALSE
  <2>1. booked[q] = ledger[q].slot
    BY <1>7, <1>12 DEF Held
  <2>2. ledger[q] \in Bookings /\ ledger[q].slot \in Wanted
    BY <1>2, <1>12 DEF Live, Bookings
  <2>3. booked[q] # Nothing
    BY <2>1, <2>2, NothingIsNothing
  <2> QED BY <1>12, <2>1, <2>2, <2>3, OverlapClashes
<1>13. \A d \in Calls : phase'[d] = "cleared" =>
         /\ d \notin Revokes => \A q \in Books \ {target'[d]} :
                                  Live(q)' => ~Overlap(slot'[d], ledger'[q].slot)
         /\ d \notin Books => Live(target[d])'
  <2> SUFFICES ASSUME phase'[c] = "cleared"
               PROVE  /\ c \notin Revokes => \A q \in Books \ {target'[c]} :
                                  Live(q)' => ~Overlap(slot'[c], ledger'[q].slot)
                      /\ c \notin Books => Live(target[c])'
    BY <1>6
  <2>1. p = "cleared" /\ target'[c] = r /\ slot'[c] = s
    BY <1>3
  <2>2. Live(target[c])' <=> Live(r)
    BY <2>1 DEF Live
  <2> QED BY <1>8, <1>12, <2>1, <2>2
<1>14. \A q \in Books : booked'[q] = Held(q)'
  BY <1>7 DEF Held, Live
<1>15. RoomBookedOnce'
  BY <1>1 DEF InTurn, RoomBookedOnce, Live
<1> QED BY <1>5, <1>9, <1>10, <1>11, <1>13, <1>14, <1>15 DEF InTurn

\* The write to the ledger: what was clear at the check still is.
LEMMA RecordInTurn ==
  ASSUME RoomsInv, NEW c \in Calls, phase[c] = "cleared", calm,
         phase' = [phase EXCEPT ![c] = "written"],
         \A q \in Books \ {target[c]} : ledger'[q] = ledger[q],
         c \in Revokes => ~Live(target[c])',
         c \notin Revokes => ledger'[target[c]] = [slot |-> slot[c], revoked |-> FALSE],
         logged' \subseteq logged \cup {c},
         UNCHANGED <<booked, target, slot>>
  PROVE  InTurn'
<1> DEFINE r == target[c]
<1>1. InTurn /\ RoomsTypeOK
  BY DEF RoomsInv
<1>2. /\ phase \in [Calls -> {"idle", "cleared", "written", "done"}]
      /\ Books \subseteq Calls /\ r \in Books
  BY <1>1 DEF RoomsTypeOK, Calls
<1>3. \A d \in Calls : phase'[d] = IF d = c THEN "written" ELSE phase[d]
  BY <1>2
<1>4. \A d \in Calls : d # c => ~Busy(d)
  BY <1>1 DEF InTurn, Busy
<1>5. \A d \in Calls : phase'[d] # "cleared"
  BY <1>3, <1>4 DEF Busy
<1>6. \A d \in Calls : phase'[d] = "written" => d = c
  BY <1>3, <1>4 DEF Busy
<1>7. \A q \in Books : booked[q] = Held(q)
  <2>1. \A d \in Calls : phase[d] # "written"
    BY <1>4 DEF Busy
  <2> QED BY <1>1, <2>1 DEF InTurn
<1>8. \A q \in Books \ {r} : Live(q)' <=> Live(q)
  BY DEF Live
<1>9. /\ c \in Books => r = c
      /\ c \notin Books => Live(r)
      /\ c \notin Revokes => \A q \in Books \ {r} : Live(q) => ~Overlap(slot[c], ledger[q].slot)
  BY <1>1 DEF InTurn, Busy
<1>10. \A d \in Books : /\ phase'[d] \in {"idle", "cleared"} => ledger'[d] = Nothing
                        /\ Busy(d)' => target'[d] = d
  <2>1. ASSUME NEW d \in Books, phase'[d] \in {"idle", "cleared"} PROVE ledger'[d] = Nothing
    <3>1. d # c /\ ledger[d] = Nothing
      BY <1>1, <1>2, <1>3, <2>1 DEF InTurn
    <3>2. d # r
      BY <1>9, <3>1 DEF Live
    <3> QED BY <3>1, <3>2
  <2>2. \A d \in Books : Busy(d)' => d = c
    BY <1>2, <1>5, <1>6 DEF Busy
  <2> QED BY <1>9, <2>1, <2>2
<1>11. \A d \in Updates \cup Revokes : phase'[d] \in {"idle", "cleared"} => d \notin logged'
  <2>1. \A d \in Updates \cup Revokes :
          phase'[d] \in {"idle", "cleared"} => d # c /\ phase[d] \in {"idle", "cleared"}
    BY <1>3 DEF Calls
  <2> QED BY <1>1, <2>1 DEF InTurn
<1>12. \A d \in Calls : phase'[d] = "written" =>
         /\ d \in Revokes => ~Live(target[d])'
         /\ d \notin Revokes => ledger'[target'[d]] = [slot |-> slot'[d], revoked |-> FALSE]
  BY <1>6
<1>13. \A q \in Books :
         (\A d \in Calls : phase'[d] = "written" => target'[d] # q) => booked'[q] = Held(q)'
  <2> SUFFICES ASSUME NEW q \in Books, \A d \in Calls : phase'[d] = "written" => target'[d] # q
               PROVE  booked'[q] = Held(q)'
    OBVIOUS
  <2>1. q # r
    BY <1>3
  <2> QED BY <1>7, <2>1 DEF Held, Live
<1>14. RoomBookedOnce'
  <2> SUFFICES ASSUME NEW q \in Books, NEW o \in Books \ {q}, Live(q)', Live(o)',
                      Overlap(ledger'[q].slot, ledger'[o].slot)
               PROVE  FALSE
    BY DEF RoomBookedOnce
  <2>1. CASE q # r /\ o # r
    <3>1. Live(q) /\ Live(o) /\ ledger'[q] = ledger[q] /\ ledger'[o] = ledger[o]
      BY <1>8, <2>1
    <3> QED BY <1>1, <3>1 DEF InTurn, RoomBookedOnce
  <2>2. CASE q = r
    <3>1. c \notin Revokes /\ ledger'[r].slot = slot[c]
      BY <2>2
    <3>2. Live(o) /\ ledger'[o] = ledger[o]
      BY <1>8, <2>2
    <3> QED BY <1>9, <2>2, <3>1, <3>2
  <2>3. CASE o = r
    <3>1. c \notin Revokes /\ ledger'[r].slot = slot[c]
      BY <2>3
    <3>2. Live(q) /\ ledger'[q] = ledger[q]
      BY <1>8, <2>3
    <3> QED BY <1>9, <2>3, <3>1, <3>2, OverlapSymmetric
  <2> QED BY <2>1, <2>2, <2>3
<1>15. \A d, e \in Calls : Busy(d)' /\ Busy(e)' => d = e
  BY <1>5, <1>6 DEF Busy
<1> QED BY <1>5, <1>10, <1>11, <1>12, <1>13, <1>14, <1>15 DEF InTurn

\* The write to the memory: it catches up with the ledger.
LEMMA HoldInTurn ==
  ASSUME RoomsInv, NEW c \in Calls, phase[c] = "written", calm,
         phase' = [phase EXCEPT ![c] = "done"],
         booked' = [booked EXCEPT ![target[c]] = IF c \in Revokes THEN Nothing ELSE slot[c]],
         UNCHANGED <<ledger, logged, target, slot>>
  PROVE  InTurn'
<1> DEFINE r == target[c]
<1>1. InTurn /\ RoomsTypeOK
  BY DEF RoomsInv
<1>2. /\ phase \in [Calls -> {"idle", "cleared", "written", "done"}]
      /\ booked \in [Books -> Wanted \cup {Nothing}]
      /\ Books \subseteq Calls /\ r \in Books
  BY <1>1 DEF RoomsTypeOK, Calls
<1>3. \A d \in Calls : phase'[d] = IF d = c THEN "done" ELSE phase[d]
  BY <1>2
<1>4. \A q \in Books : booked'[q] = IF q = r THEN (IF c \in Revokes THEN Nothing ELSE slot[c])
                                    ELSE booked[q]
  BY <1>2
<1>5. \A d \in Calls : Busy(d)' => Busy(d)
  BY <1>3 DEF Busy
<1>6. \A q : Live(q)' <=> Live(q)
  BY DEF Live
<1>7. Held(r) = IF c \in Revokes THEN Nothing ELSE slot[c]
  <2>1. c \in Revokes => ~Live(r)
    BY <1>1 DEF InTurn
  <2>2. c \notin Revokes => ledger[r] = [slot |-> slot[c], revoked |-> FALSE]
    BY <1>1 DEF InTurn
  <2>3. ledger[r] # Nothing
    <3>1. c \notin Revokes => [slot |-> slot[c], revoked |-> FALSE] \in Bookings
      BY <1>1 DEF RoomsTypeOK, Bookings
    <3>2. c \in Revokes => c \notin Books
      BY CallsApart
    <3> QED BY <1>1, <2>2, <3>1, <3>2, NothingIsNothing DEF RoomsTypeOK
  <2> QED BY <2>1, <2>2, <2>3 DEF Held, Live
<1>8. \A q \in Books :
        (\A d \in Calls : phase'[d] = "written" => target'[d] # q) => booked'[q] = Held(q)'
  <2> SUFFICES ASSUME NEW q \in Books, \A d \in Calls : phase'[d] = "written" => target'[d] # q
               PROVE  booked'[q] = Held(q)'
    OBVIOUS
  <2>1. Held(q)' = Held(q)
    BY DEF Held, Live
  <2>2. CASE q = r
    BY <1>4, <1>7, <2>1, <2>2
  <2>3. CASE q # r
    <3>1. \A d \in Calls : phase[d] = "written" => target[d] # q
      BY <1>3, <2>3
    <3> QED BY <1>1, <1>4, <2>1, <2>3, <3>1 DEF InTurn
  <2> QED BY <2>2, <2>3
<1>9. \A d \in Books : /\ phase'[d] \in {"idle", "cleared"} => ledger'[d] = Nothing
                       /\ Busy(d)' => target'[d] = d
  BY <1>1, <1>2, <1>3, <1>5 DEF InTurn
<1>10. \A d \in Updates \cup Revokes : phase'[d] \in {"idle", "cleared"} => d \notin logged'
  BY <1>1, <1>3 DEF InTurn, Calls
<1>11. \A d \in Calls : phase'[d] = "cleared" =>
         /\ d \notin Revokes => \A q \in Books \ {target'[d]} :
                                  Live(q)' => ~Overlap(slot'[d], ledger'[q].slot)
         /\ d \notin Books => Live(target[d])'
  <2>1. \A d \in Calls : Live(target[d])' <=> Live(target[d])
    BY DEF Live
  <2> QED BY <1>1, <1>3, <1>6, <2>1 DEF InTurn
<1>12. \A d \in Calls : phase'[d] = "written" =>
         /\ d \in Revokes => ~Live(target[d])'
         /\ d \notin Revokes => ledger'[target'[d]] = [slot |-> slot'[d], revoked |-> FALSE]
  <2>1. \A d \in Calls : Live(target[d])' <=> Live(target[d])
    BY DEF Live
  <2> QED BY <1>1, <1>3, <2>1 DEF InTurn
<1>13. RoomBookedOnce'
  BY <1>1 DEF InTurn, RoomBookedOnce, Live
<1>14. \A d, e \in Calls : Busy(d)' /\ Busy(e)' => d = e
  BY <1>1, <1>5 DEF InTurn
<1> QED BY <1>8, <1>9, <1>10, <1>11, <1>12, <1>13, <1>14 DEF InTurn

-----------------------------------------------------------------------------
(* Types *)

\* A step of one call to a new place, with its arguments, keeps the types.
LEMMA CallKeepsTypes ==
  ASSUME RoomsTypeOK, NEW c \in Calls,
         NEW p \in {"idle", "cleared", "written", "done"}, phase' = [phase EXCEPT ![c] = p],
         NEW t \in Books \cup {Nothing}, target' = [target EXCEPT ![c] = t],
         NEW s \in Wanted \cup {Nothing}, slot' = [slot EXCEPT ![c] = s],
         NEW a \in Outcomes \cup {Nothing}, answer' = [answer EXCEPT ![c] = a],
         booked' \in [Books -> Wanted \cup {Nothing}],
         ledger' \in [Books -> Bookings \cup {Nothing}],
         \A r \in Books : ledger[r] # Nothing => ledger'[r] # Nothing,
         logged' \subseteq Updates \cup Revokes, calm' \in BOOLEAN,
         UNCHANGED <<today, faults>>,
         p \in {"cleared", "written"} =>
            /\ t # Nothing
            /\ c \notin Revokes => s # Nothing
            /\ c \notin Books => ledger[t] # Nothing
  PROVE  RoomsTypeOK'
<1>1. /\ phase \in [Calls -> {"idle", "cleared", "written", "done"}]
      /\ target \in [Calls -> Books \cup {Nothing}]
      /\ slot \in [Calls -> Wanted \cup {Nothing}]
      /\ answer \in [Calls -> Outcomes \cup {Nothing}]
      /\ today' \in 0..MaxDay /\ faults' \in 0..MaxFaults
  BY DEF RoomsTypeOK
<1>2. /\ phase' \in [Calls -> {"idle", "cleared", "written", "done"}]
      /\ \A d \in Calls : phase'[d] = IF d = c THEN p ELSE phase[d]
  BY <1>1
<1>3. /\ target' \in [Calls -> Books \cup {Nothing}]
      /\ \A d \in Calls : target'[d] = IF d = c THEN t ELSE target[d]
  BY <1>1
<1>4. /\ slot' \in [Calls -> Wanted \cup {Nothing}]
      /\ \A d \in Calls : slot'[d] = IF d = c THEN s ELSE slot[d]
  BY <1>1
<1>5. answer' \in [Calls -> Outcomes \cup {Nothing}]
  BY <1>1
<1>6. \A d \in Calls : phase[d] \in {"cleared", "written"} =>
        /\ target[d] # Nothing /\ target[d] \in Books
        /\ d \notin Revokes => slot[d] # Nothing
        /\ d \notin Books => ledger[target[d]] # Nothing
  BY DEF RoomsTypeOK
<1>7. \A d \in Calls : phase'[d] \in {"cleared", "written"} =>
        /\ target'[d] # Nothing
        /\ d \notin Revokes => slot'[d] # Nothing
        /\ d \notin Books => ledger'[target'[d]] # Nothing
  BY <1>2, <1>3, <1>4, <1>6
<1> QED BY <1>1, <1>2, <1>3, <1>4, <1>5, <1>7 DEF RoomsTypeOK

\* The functions that change in one place, as the lemma above wants them.
LEMMA SameCall ==
  ASSUME RoomsTypeOK, NEW c \in Calls
  PROVE  /\ target = [target EXCEPT ![c] = target[c]] /\ target[c] \in Books \cup {Nothing}
         /\ slot = [slot EXCEPT ![c] = slot[c]] /\ slot[c] \in Wanted \cup {Nothing}
         /\ answer = [answer EXCEPT ![c] = answer[c]] /\ answer[c] \in Outcomes \cup {Nothing}
  BY DEF RoomsTypeOK

-----------------------------------------------------------------------------
(* The calls *)

LEMMA BookCheckKeeps == ASSUME RoomsInv, NEW c \in Calls, BookCheck(c)
  PROVE  RoomsInv'
<1>1. RoomsTypeOK /\ c \in Books /\ phase[c] = "idle" /\ calm' = (calm /\ Alone(c))
  BY DEF RoomsInv, BookCheck
<1>2. /\ target' = [target EXCEPT ![c] = c]
      /\ UNCHANGED <<booked, ledger, logged, today, faults>>
  BY DEF BookCheck
<1>3. PICK s \in (IF slot[c] = Nothing THEN Wanted ELSE {slot[c]}) :
        /\ slot' = [slot EXCEPT ![c] = s]
        /\ \/ s.room \notin Rooms /\ Refuse(c, "no_room")
           \/ s.room \in Rooms /\ ~IsFree(s, {}) /\ Refuse(c, "occupied")
           \/ /\ s.room \in Rooms /\ IsFree(s, {})
              /\ phase' = [phase EXCEPT ![c] = "cleared"]
              /\ UNCHANGED answer
  BY DEF BookCheck
<1>4. s \in Wanted
  BY <1>1, <1>3 DEF RoomsTypeOK
<1>5. s # Nothing /\ c # Nothing /\ c \notin Revokes
  BY <1>1, <1>4, NothingIsNothing, CallsApart
<1>6. PICK p \in {"cleared", "done"}, a \in Outcomes \cup {Nothing} :
        /\ phase' = [phase EXCEPT ![c] = p] /\ answer' = [answer EXCEPT ![c] = a]
        /\ p = "cleared" => IsFree(s, {})
  <2>1. CASE Refuse(c, "no_room")
    BY <2>1 DEF Refuse, Outcomes
  <2>2. CASE Refuse(c, "occupied")
    BY <2>2 DEF Refuse, Outcomes
  <2>3. CASE /\ IsFree(s, {})
             /\ phase' = [phase EXCEPT ![c] = "cleared"]
             /\ UNCHANGED answer
    BY <1>1, <2>3, SameCall
  <2> QED BY <1>3, <2>1, <2>2, <2>3
<1>7. RoomsTypeOK'
  <2>1. calm' \in BOOLEAN
    BY <1>1
  <2>2. /\ booked' \in [Books -> Wanted \cup {Nothing}]
        /\ ledger' \in [Books -> Bookings \cup {Nothing}]
        /\ \A r \in Books : ledger[r] # Nothing => ledger'[r] # Nothing
        /\ logged' \subseteq Updates \cup Revokes
    BY <1>1, <1>2 DEF RoomsTypeOK
  <2>3. p \in {"idle", "cleared", "written", "done"} /\ c \in Books \cup {Nothing}
        /\ s \in Wanted \cup {Nothing}
    BY <1>1, <1>4
  <2> QED BY <1>1, <1>2, <1>3, <1>5, <1>6, <2>1, <2>2, <2>3, CallKeepsTypes
<1>8. ASSUME calm' PROVE InTurn'
  <2>1. calm /\ Alone(c)
    BY <1>1, <1>8
  <2>2. \A d \in Calls : slot'[d] = IF d = c THEN s ELSE slot[d]
    BY <1>1, <1>3 DEF RoomsTypeOK
  <2>3. p = "cleared" => \A q \in Books \ {c} : booked[q] # Nothing => ~Clashes(s, booked[q])
    BY <1>6, FreeIsClear
  <2> QED BY <1>1, <1>2, <1>4, <1>5, <1>6, <2>1, <2>2, <2>3, CheckInTurn
<1> QED BY <1>7, <1>8 DEF RoomsInv

LEMMA MoveCheckKeeps == ASSUME RoomsInv, NEW c \in Calls, MoveCheck(c)
  PROVE  RoomsInv'
<1>1. RoomsTypeOK /\ c \in Updates /\ phase[c] = "idle" /\ calm' = (calm /\ Alone(c))
  BY DEF RoomsInv, MoveCheck
<1>2. UNCHANGED <<booked, ledger, logged, today, faults>>
  BY DEF MoveCheck
<1>3. PICK r \in (IF target[c] = Nothing THEN Books ELSE {target[c]}),
           s \in (IF slot[c] = Nothing THEN Wanted ELSE {slot[c]}) :
        /\ target' = [target EXCEPT ![c] = r]
        /\ slot' = [slot EXCEPT ![c] = s]
        /\ \/ ledger[r] = Nothing /\ Refuse(c, "not_found")
           \/ ledger[r] # Nothing /\ ledger[r].revoked /\ Refuse(c, "is_revoked")
           \/ /\ ledger[r] # Nothing /\ ~ledger[r].revoked
              /\ \/ Refuse(c, "invalid")
                 \/ s.room \notin Rooms /\ Refuse(c, "no_room")
                 \/ s.room \in Rooms /\ ~IsFree(s, {r}) /\ Refuse(c, "occupied")
                 \/ /\ s.room \in Rooms /\ IsFree(s, {r})
                    /\ phase' = [phase EXCEPT ![c] = "cleared"]
                    /\ UNCHANGED answer
  BY DEF MoveCheck
<1>4. r \in Books /\ s \in Wanted
  BY <1>1, <1>3 DEF RoomsTypeOK
<1>5. s # Nothing /\ r # Nothing /\ c \notin Revokes /\ c \notin Books
  BY <1>1, <1>4, NothingIsNothing, CallsApart
<1>6. PICK p \in {"cleared", "done"}, a \in Outcomes \cup {Nothing} :
        /\ phase' = [phase EXCEPT ![c] = p] /\ answer' = [answer EXCEPT ![c] = a]
        /\ p = "cleared" => IsFree(s, {r}) /\ Live(r)
  <2>1. CASE \E why \in {"not_found", "is_revoked", "no_room", "occupied", "invalid"} : Refuse(c, why)
    BY <2>1 DEF Refuse, Outcomes
  <2>2. CASE /\ ledger[r] # Nothing /\ ~ledger[r].revoked /\ IsFree(s, {r})
             /\ phase' = [phase EXCEPT ![c] = "cleared"]
             /\ UNCHANGED answer
    BY <1>1, <2>2, SameCall DEF Live
  <2> QED BY <1>3, <2>1, <2>2
<1>7. RoomsTypeOK'
  <2>1. calm' \in BOOLEAN
    BY <1>1
  <2>2. /\ booked' \in [Books -> Wanted \cup {Nothing}]
        /\ ledger' \in [Books -> Bookings \cup {Nothing}]
        /\ \A q \in Books : ledger[q] # Nothing => ledger'[q] # Nothing
        /\ logged' \subseteq Updates \cup Revokes
    BY <1>1, <1>2 DEF RoomsTypeOK
  <2>3. p \in {"idle", "cleared", "written", "done"} /\ r \in Books \cup {Nothing}
        /\ s \in Wanted \cup {Nothing}
    BY <1>4
  <2>4. p \in {"cleared", "written"} => ledger[r] # Nothing
    BY <1>6 DEF Live
  <2> QED BY <1>1, <1>2, <1>3, <1>5, <1>6, <2>1, <2>2, <2>3, <2>4, CallKeepsTypes
<1>8. ASSUME calm' PROVE InTurn'
  <2>1. calm /\ Alone(c)
    BY <1>1, <1>8
  <2>2. \A d \in Calls : slot'[d] = IF d = c THEN s ELSE slot[d]
    BY <1>1, <1>3 DEF RoomsTypeOK
  <2>3. p = "cleared" => \A q \in Books \ {r} : booked[q] # Nothing => ~Clashes(s, booked[q])
    BY <1>6, FreeIsClear
  <2> QED BY <1>1, <1>2, <1>3, <1>4, <1>5, <1>6, <2>1, <2>2, <2>3, CheckInTurn
<1> QED BY <1>7, <1>8 DEF RoomsInv

LEMMA RevokeCheckKeeps == ASSUME RoomsInv, NEW c \in Calls, RevokeCheck(c)
  PROVE  RoomsInv'
<1>1. RoomsTypeOK /\ c \in Revokes /\ phase[c] = "idle" /\ calm' = (calm /\ Alone(c))
  BY DEF RoomsInv, RevokeCheck
<1>2. UNCHANGED <<booked, ledger, slot, logged, today, faults>>
  BY DEF RevokeCheck
<1>3. PICK r \in (IF target[c] = Nothing THEN Books ELSE {target[c]}) :
        /\ target' = [target EXCEPT ![c] = r]
        /\ \/ ledger[r] = Nothing /\ Refuse(c, "not_found")
           \/ ledger[r] # Nothing /\ ledger[r].revoked /\ Refuse(c, "is_revoked")
           \/ /\ ledger[r] # Nothing /\ ~ledger[r].revoked
              /\ phase' = [phase EXCEPT ![c] = "cleared"]
              /\ UNCHANGED answer
  BY DEF RevokeCheck
<1>4. r \in Books
  BY <1>1, <1>3 DEF RoomsTypeOK
<1>5. r # Nothing /\ c \notin Books
  BY <1>1, <1>4, NothingIsNothing, CallsApart
<1>6. PICK p \in {"cleared", "done"}, a \in Outcomes \cup {Nothing} :
        /\ phase' = [phase EXCEPT ![c] = p] /\ answer' = [answer EXCEPT ![c] = a]
        /\ p = "cleared" => Live(r)
  <2>1. CASE \E why \in {"not_found", "is_revoked"} : Refuse(c, why)
    BY <2>1 DEF Refuse, Outcomes
  <2>2. CASE /\ ledger[r] # Nothing /\ ~ledger[r].revoked
             /\ phase' = [phase EXCEPT ![c] = "cleared"]
             /\ UNCHANGED answer
    BY <1>1, <2>2, SameCall DEF Live
  <2> QED BY <1>3, <2>1, <2>2
<1>7. RoomsTypeOK'
  <2>1. calm' \in BOOLEAN
    BY <1>1
  <2>2. /\ booked' \in [Books -> Wanted \cup {Nothing}]
        /\ ledger' \in [Books -> Bookings \cup {Nothing}]
        /\ \A q \in Books : ledger[q] # Nothing => ledger'[q] # Nothing
        /\ logged' \subseteq Updates \cup Revokes
    BY <1>1, <1>2 DEF RoomsTypeOK
  <2>3. p \in {"idle", "cleared", "written", "done"} /\ r \in Books \cup {Nothing}
    BY <1>4
  <2>4. p \in {"cleared", "written"} => ledger[r] # Nothing
    BY <1>6 DEF Live
  <2>5. slot' = [slot EXCEPT ![c] = slot[c]] /\ slot[c] \in Wanted \cup {Nothing}
    BY <1>1, <1>2, SameCall
  <2> QED BY <1>1, <1>2, <1>3, <1>5, <1>6, <2>1, <2>2, <2>3, <2>4, <2>5, CallKeepsTypes
<1>8. ASSUME calm' PROVE InTurn'
  <2>1. calm /\ Alone(c)
    BY <1>1, <1>8
  <2>2. \A d \in Calls : slot'[d] = IF d = c THEN slot[c] ELSE slot[d]
    BY <1>2
  <2> QED BY <1>1, <1>2, <1>3, <1>4, <1>5, <1>6, <2>1, <2>2, CheckInTurn
<1> QED BY <1>7, <1>8 DEF RoomsInv

LEMMA RecordKeepsTypes ==
  ASSUME RoomsTypeOK, NEW c \in Calls, phase[c] = "cleared",
         phase' = [phase EXCEPT ![c] = "written"],
         ledger' \in [Books -> Bookings \cup {Nothing}],
         \A r \in Books : ledger[r] # Nothing => ledger'[r] # Nothing,
         logged' \subseteq Updates \cup Revokes,
         UNCHANGED <<booked, target, slot, answer, today, faults, calm>>
  PROVE  RoomsTypeOK'
<1>1. phase' \in [Calls -> {"idle", "cleared", "written", "done"}]
  BY DEF RoomsTypeOK
<1>2. \A d \in Calls : phase'[d] \in {"cleared", "written"} => phase[d] \in {"cleared", "written"}
  BY DEF RoomsTypeOK
<1>3. \A d \in Calls : phase[d] \in {"cleared", "written"} =>
        /\ target[d] # Nothing /\ target[d] \in Books
        /\ d \notin Revokes => slot[d] # Nothing
        /\ d \notin Books => ledger[target[d]] # Nothing
  BY DEF RoomsTypeOK
<1>4. \A d \in Calls : phase'[d] \in {"cleared", "written"} =>
        /\ target'[d] # Nothing
        /\ d \notin Revokes => slot'[d] # Nothing
        /\ d \notin Books => ledger'[target'[d]] # Nothing
  BY <1>2, <1>3
<1> QED BY <1>1, <1>4 DEF RoomsTypeOK

\* The write to the ledger, by a call of any of the three tools.
LEMMA RecordKeeps ==
  ASSUME RoomsInv, NEW c \in Calls, phase[c] = "cleared",
         phase' = [phase EXCEPT ![c] = "written"],
         ledger' \in [Books -> Bookings \cup {Nothing}],
         \A r \in Books : ledger[r] # Nothing => ledger'[r] # Nothing,
         logged' \subseteq (Updates \cup Revokes) \cap (logged \cup {c}),
         UNCHANGED <<booked, target, slot, answer, today, faults, calm>>,
         calm => /\ \A q \in Books \ {target[c]} : ledger'[q] = ledger[q]
                 /\ c \in Revokes => ~Live(target[c])'
                 /\ c \notin Revokes =>
                       ledger'[target[c]] = [slot |-> slot[c], revoked |-> FALSE]
  PROVE  RoomsInv'
<1>1. RoomsTypeOK
  BY DEF RoomsInv
<1>2. logged' \subseteq Updates \cup Revokes
  OBVIOUS
<1>3. UNCHANGED <<booked, target, slot, answer, today, faults, calm>>
  OBVIOUS
<1>4. RoomsTypeOK'
  BY <1>1, <1>2, <1>3, RecordKeepsTypes
<1>5. ASSUME calm' PROVE InTurn'
  <2>1. logged' \subseteq logged \cup {c} /\ calm
    BY <1>5
  <2>2. UNCHANGED <<booked, target, slot>>
    OBVIOUS
  <2> QED BY <2>1, <2>2, RecordInTurn
<1> QED BY <1>4, <1>5 DEF RoomsInv

LEMMA BookRecordKeeps == ASSUME RoomsInv, NEW c \in Calls, BookRecord(c)
  PROVE  RoomsInv'
<1>1. /\ RoomsTypeOK /\ c \in Books /\ phase[c] = "cleared" /\ calm \in BOOLEAN
      /\ phase' = [phase EXCEPT ![c] = "written"]
      /\ UNCHANGED <<booked, target, slot, answer, logged, today, faults, calm>>
  BY DEF RoomsInv, BookRecord, RoomsTypeOK
<1>2. c \notin Revokes
  BY <1>1, CallsApart
<1> DEFINE row == [slot |-> slot[c], revoked |-> FALSE]
<1>3. row \in Bookings /\ row # Nothing
  <2>1. slot[c] \in Wanted
    BY <1>1, <1>2 DEF RoomsTypeOK
  <2>2. row \in Bookings
    BY <2>1 DEF Bookings
  <2> HIDE DEF row
  <2> QED BY <2>1, <2>2, NothingIsNothing
<1>4. ledger' = [ledger EXCEPT ![c] = IF ledger[c] = Nothing THEN row ELSE ledger[c]]
  BY DEF BookRecord
<1> HIDE DEF row
<1>5. /\ ledger' \in [Books -> Bookings \cup {Nothing}]
      /\ \A r \in Books : ledger'[r] = IF r = c /\ ledger[c] = Nothing THEN row ELSE ledger[r]
  BY <1>1, <1>3, <1>4 DEF RoomsTypeOK
<1>6. \A r \in Books : ledger[r] # Nothing => ledger'[r] # Nothing
  BY <1>3, <1>5
<1>7. logged' \subseteq (Updates \cup Revokes) \cap (logged \cup {c})
  BY <1>1 DEF RoomsTypeOK
<1>8. calm => /\ \A q \in Books \ {target[c]} : ledger'[q] = ledger[q]
              /\ c \in Revokes => ~Live(target[c])'
              /\ c \notin Revokes => ledger'[target[c]] = [slot |-> slot[c], revoked |-> FALSE]
  <2>1. calm => target[c] = c /\ ledger[c] = Nothing
    BY <1>1 DEF RoomsInv, InTurn, Busy
  <2> QED BY <1>1, <1>2, <1>5, <2>1 DEF row
<1> QED BY <1>1, <1>5, <1>6, <1>7, <1>8, RecordKeeps

LEMMA MoveRecordKeeps == ASSUME RoomsInv, NEW c \in Calls, MoveRecord(c)
  PROVE  RoomsInv'
<1>1. /\ RoomsTypeOK /\ c \in Updates /\ phase[c] = "cleared"
      /\ phase' = [phase EXCEPT ![c] = "written"]
      /\ logged' = logged \cup {c}
      /\ UNCHANGED <<booked, target, slot, answer, today, faults, calm>>
  BY DEF RoomsInv, MoveRecord
<1>2. c \notin Revokes /\ c \notin Books
  BY <1>1, CallsApart
<1> DEFINE row == [slot |-> slot[c], revoked |-> FALSE]
<1>3. row \in Bookings /\ row # Nothing /\ target[c] \in Books
  <2>1. slot[c] \in Wanted /\ target[c] \in Books
    BY <1>1, <1>2 DEF RoomsTypeOK
  <2>2. row \in Bookings
    BY <2>1 DEF Bookings
  <2> HIDE DEF row
  <2> QED BY <2>1, <2>2, NothingIsNothing
<1>4. ledger' = IF c \in logged THEN ledger ELSE [ledger EXCEPT ![target[c]] = row]
  BY DEF MoveRecord
<1> HIDE DEF row
<1>5. /\ ledger' \in [Books -> Bookings \cup {Nothing}]
      /\ \A r \in Books :
           ledger'[r] = IF c \notin logged /\ r = target[c] THEN row ELSE ledger[r]
  BY <1>1, <1>3, <1>4 DEF RoomsTypeOK
<1>6. \A r \in Books : ledger[r] # Nothing => ledger'[r] # Nothing
  BY <1>3, <1>5
<1>7. logged' \subseteq (Updates \cup Revokes) \cap (logged \cup {c})
  BY <1>1 DEF RoomsTypeOK
<1>8. calm => /\ \A q \in Books \ {target[c]} : ledger'[q] = ledger[q]
              /\ c \in Revokes => ~Live(target[c])'
              /\ c \notin Revokes => ledger'[target[c]] = [slot |-> slot[c], revoked |-> FALSE]
  <2>1. calm => c \notin logged
    BY <1>1 DEF RoomsInv, InTurn
  <2> QED BY <1>2, <1>3, <1>5, <2>1 DEF row
<1> QED BY <1>1, <1>5, <1>6, <1>7, <1>8, RecordKeeps

LEMMA RevokeRecordKeeps == ASSUME RoomsInv, NEW c \in Calls, RevokeRecord(c)
  PROVE  RoomsInv'
<1>1. /\ RoomsTypeOK /\ c \in Revokes /\ phase[c] = "cleared"
      /\ phase' = [phase EXCEPT ![c] = "written"]
      /\ UNCHANGED <<booked, target, slot, answer, today, faults, calm>>
  BY DEF RoomsInv, RevokeRecord
<1>2. c \notin Books
  BY <1>1, CallsApart
<1>3. target[c] \in Books /\ ledger[target[c]] \in Bookings
  BY <1>1, <1>2 DEF RoomsTypeOK
<1> DEFINE row == [ledger[target[c]] EXCEPT !.revoked = TRUE]
<1>4. row \in Bookings /\ row.revoked /\ row # Nothing
  BY <1>3, NothingIsNothing DEF Bookings
<1>5. \/ /\ c \in logged \/ ledger[target[c]].revoked
         /\ UNCHANGED <<ledger, logged>>
      \/ /\ ledger' = [ledger EXCEPT ![target[c]] = row]
         /\ logged' = logged \cup {c}
  BY DEF RevokeRecord
<1> HIDE DEF row
<1>6. /\ ledger' \in [Books -> Bookings \cup {Nothing}]
      /\ \A r \in Books : r # target[c] => ledger'[r] = ledger[r]
      /\ ledger'[target[c]] \in {row, ledger[target[c]]}
  BY <1>1, <1>3, <1>4, <1>5 DEF RoomsTypeOK
<1>7. \A r \in Books : ledger[r] # Nothing => ledger'[r] # Nothing
  BY <1>4, <1>6
<1>8. logged' \subseteq (Updates \cup Revokes) \cap (logged \cup {c})
  BY <1>1, <1>5 DEF RoomsTypeOK
<1>9. calm => /\ \A q \in Books \ {target[c]} : ledger'[q] = ledger[q]
              /\ c \in Revokes => ~Live(target[c])'
              /\ c \notin Revokes => ledger'[target[c]] = [slot |-> slot[c], revoked |-> FALSE]
  <2>1. calm => c \notin logged /\ ~ledger[target[c]].revoked
    BY <1>1, <1>2 DEF RoomsInv, InTurn, Live
  <2>2. calm => ledger'[target[c]] = row
    BY <1>1, <1>3, <1>5, <2>1 DEF RoomsTypeOK
  <2>3. calm => ~Live(target[c])'
    BY <1>1, <1>4, <2>2 DEF Live
  <2> QED BY <1>1, <1>6, <2>3
<1> QED BY <1>1, <1>6, <1>7, <1>8, <1>9, RecordKeeps

\* The write to the memory, and the answer.
LEMMA HoldKeeps ==
  ASSUME RoomsInv, NEW c \in Calls, phase[c] = "written",
         NEW why \in Outcomes, Refuse(c, why),
         NEW r \in Books, NEW s \in Wanted \cup {Nothing}, booked' = [booked EXCEPT ![r] = s],
         calm => r = target[c] /\ s = IF c \in Revokes THEN Nothing ELSE slot[c],
         UNCHANGED <<ledger, target, slot, logged, today, faults, calm>>
  PROVE  RoomsInv'
<1>1. RoomsTypeOK
  BY DEF RoomsInv
<1>2. /\ target' = [target EXCEPT ![c] = target[c]] /\ target[c] \in Books \cup {Nothing}
      /\ slot' = [slot EXCEPT ![c] = slot[c]] /\ slot[c] \in Wanted \cup {Nothing}
  BY <1>1, SameCall
<1>3. /\ booked' \in [Books -> Wanted \cup {Nothing}]
      /\ ledger' \in [Books -> Bookings \cup {Nothing}]
      /\ \A q \in Books : ledger[q] # Nothing => ledger'[q] # Nothing
      /\ logged' \subseteq Updates \cup Revokes
      /\ calm' \in BOOLEAN
  BY <1>1 DEF RoomsTypeOK
<1>4. phase' = [phase EXCEPT ![c] = "done"] /\ answer' = [answer EXCEPT ![c] = why]
  BY DEF Refuse
<1>5. RoomsTypeOK'
  BY <1>1, <1>2, <1>3, <1>4, CallKeepsTypes
<1>6. ASSUME calm' PROVE InTurn'
  <2>1. /\ calm /\ UNCHANGED <<ledger, logged, target, slot>>
        /\ booked' = [booked EXCEPT ![target[c]] = IF c \in Revokes THEN Nothing ELSE slot[c]]
    BY <1>6
  <2> QED BY <1>4, <2>1, HoldInTurn
<1> QED BY <1>5, <1>6 DEF RoomsInv

LEMMA BookHoldKeeps == ASSUME RoomsInv, NEW c \in Calls, BookHold(c)
  PROVE  RoomsInv'
<1>1. /\ RoomsTypeOK /\ c \in Books /\ phase[c] = "written" /\ Refuse(c, "submitted")
      /\ booked' = [booked EXCEPT ![c] = slot[c]]
      /\ UNCHANGED <<ledger, target, slot, logged, today, faults, calm>>
  BY DEF RoomsInv, BookHold
<1>2. calm => c = target[c] /\ slot[c] = IF c \in Revokes THEN Nothing ELSE slot[c]
  BY <1>1, CallsApart DEF RoomsInv, InTurn, Busy
<1>3. slot[c] \in Wanted \cup {Nothing} /\ "submitted" \in Outcomes
  BY <1>1, SameCall DEF Outcomes
<1> QED BY <1>1, <1>2, <1>3, HoldKeeps

LEMMA MoveHoldKeeps == ASSUME RoomsInv, NEW c \in Calls, MoveHold(c)
  PROVE  RoomsInv'
<1>1. /\ RoomsTypeOK /\ c \in Updates /\ phase[c] = "written" /\ Refuse(c, "updated")
      /\ booked' = [booked EXCEPT ![target[c]] = slot[c]]
      /\ UNCHANGED <<ledger, target, slot, logged, today, faults, calm>>
  BY DEF RoomsInv, MoveHold
<1>2. slot[c] = IF c \in Revokes THEN Nothing ELSE slot[c]
  BY <1>1, CallsApart
<1>3. slot[c] \in Wanted \cup {Nothing} /\ target[c] \in Books /\ "updated" \in Outcomes
  BY <1>1 DEF RoomsTypeOK, Outcomes
<1> QED BY <1>1, <1>2, <1>3, HoldKeeps

LEMMA RevokeReleaseKeeps == ASSUME RoomsInv, NEW c \in Calls, RevokeRelease(c)
  PROVE  RoomsInv'
<1>1. /\ RoomsTypeOK /\ c \in Revokes /\ phase[c] = "written" /\ Refuse(c, "revoked")
      /\ booked' = [booked EXCEPT ![target[c]] = Nothing]
      /\ UNCHANGED <<ledger, target, slot, logged, today, faults, calm>>
  BY DEF RoomsInv, RevokeRelease
<1>2. target[c] \in Books /\ "revoked" \in Outcomes
  BY <1>1 DEF RoomsTypeOK, Outcomes
<1> QED BY <1>1, <1>2, HoldKeeps

-----------------------------------------------------------------------------
(* The environment: after a fault only the types are left. *)

LEMMA CancelKeeps == ASSUME RoomsInv, NEW c \in Calls, Cancel(c)
  PROVE  RoomsInv'
<1>1. RoomsTypeOK /\ ~calm'
  BY DEF RoomsInv, Cancel
<1>2. /\ phase' = [phase EXCEPT ![c] = "idle"]
      /\ UNCHANGED <<booked, ledger, target, slot, answer, logged, today>>
      /\ calm' = FALSE /\ faults < MaxFaults /\ faults' = faults + 1
  BY DEF Cancel
<1>3. phase' \in [Calls -> {"idle", "cleared", "written", "done"}]
  BY <1>1, <1>2 DEF RoomsTypeOK
<1>4. \A d \in Calls : phase'[d] \in {"cleared", "written"} => phase[d] \in {"cleared", "written"}
  BY <1>1, <1>2 DEF RoomsTypeOK
<1>5. faults' \in 0..MaxFaults
  BY <1>1, <1>2, BoundsAreNat DEF RoomsTypeOK
<1>6. RoomsTypeOK'
  BY <1>1, <1>2, <1>3, <1>4, <1>5 DEF RoomsTypeOK
<1> QED BY <1>1, <1>6 DEF RoomsInv

LEMMA ForgettingKeeps == ASSUME RoomsInv, RestartRooms
  PROVE  RoomsInv'
<1>1. RoomsTypeOK /\ ~calm'
  BY DEF RoomsInv, RestartRooms
<1>2. /\ booked' = [r \in Books |-> Nothing]
      /\ phase' = [c \in Calls |-> IF phase[c] = "done" THEN "done" ELSE "idle"]
      /\ UNCHANGED <<ledger, target, slot, answer, logged, today>>
      /\ calm' = FALSE /\ faults < MaxFaults /\ faults' = faults + 1
  BY DEF RestartRooms
<1>3. faults' \in 0..MaxFaults
  BY <1>1, <1>2, BoundsAreNat DEF RoomsTypeOK
<1>4. RoomsTypeOK'
  BY <1>1, <1>2, <1>3 DEF RoomsTypeOK
<1> QED BY <1>1, <1>4 DEF RoomsInv

LEMMA MidnightKeeps == ASSUME RoomsInv, Midnight
  PROVE  RoomsInv'
<1>1. /\ RoomsTypeOK /\ today < MaxDay /\ today' = today + 1
      /\ UNCHANGED <<booked, ledger, phase, target, slot, answer, logged, faults, calm>>
  BY DEF RoomsInv, Midnight
<1>2. today' \in 0..MaxDay
  BY <1>1, BoundsAreNat DEF RoomsTypeOK
<1>3. RoomsTypeOK'
  BY <1>1, <1>2 DEF RoomsTypeOK
<1>4. InTurn' <=> InTurn
  BY <1>1 DEF InTurn, Busy, Live, Held, RoomBookedOnce
<1> QED BY <1>1, <1>3, <1>4 DEF RoomsInv

-----------------------------------------------------------------------------
(* The theorems *)

LEMMA RoomsInvStarts == ASSUME RoomsInit PROVE RoomsInv
<1>1. Books \subseteq Calls /\ 0 \in 0..MaxDay /\ 0 \in 0..MaxFaults
  BY BoundsAreNat DEF Calls
<1>2. RoomsTypeOK
  BY <1>1 DEF RoomsInit, RoomsTypeOK
<1>3. \A c \in Calls : phase[c] = "idle"
  BY DEF RoomsInit
<1>4. \A r \in Books : ledger[r] = Nothing /\ booked[r] = Nothing
  BY DEF RoomsInit
<1>5. InTurn
  BY <1>1, <1>3, <1>4 DEF RoomsInit, InTurn, Busy, Live, Held, RoomBookedOnce, Calls
<1> QED BY <1>2, <1>5 DEF RoomsInv

LEMMA NextKeepsRooms == ASSUME RoomsInv, [RoomsNext]_roomVars PROVE RoomsInv'
<1>1. CASE RestartRooms BY <1>1, ForgettingKeeps
<1>2. CASE Midnight BY <1>2, MidnightKeeps
<1>3. ASSUME NEW c \in Calls, BookCheck(c) \/ BookRecord(c) \/ BookHold(c)
      PROVE  RoomsInv'
  BY <1>3, BookCheckKeeps, BookRecordKeeps, BookHoldKeeps
<1>4. ASSUME NEW c \in Calls, MoveCheck(c) \/ MoveRecord(c) \/ MoveHold(c)
      PROVE  RoomsInv'
  BY <1>4, MoveCheckKeeps, MoveRecordKeeps, MoveHoldKeeps
<1>5. ASSUME NEW c \in Calls,
             RevokeCheck(c) \/ RevokeRecord(c) \/ RevokeRelease(c)
      PROVE  RoomsInv'
  BY <1>5, RevokeCheckKeeps, RevokeRecordKeeps, RevokeReleaseKeeps
<1>6. ASSUME NEW c \in Calls, Cancel(c) PROVE RoomsInv'
  BY <1>6, CancelKeeps
<1>7. CASE UNCHANGED roomVars
  BY <1>7 DEF roomVars, RoomsInv, RoomsTypeOK, InTurn, Busy, Live, Held, RoomBookedOnce
<1> QED BY <1>1, <1>2, <1>3, <1>4, <1>5, <1>6, <1>7 DEF RoomsNext

\* As long as calls do not overlap, calls, memory and ledger agree as InTurn says.
THEOREM RoomsInvHolds == RoomsSpec => []RoomsInv
<1>1. RoomsInit => RoomsInv BY RoomsInvStarts
<1>2. RoomsInv /\ [RoomsNext]_roomVars => RoomsInv' BY NextKeepsRooms
<1> QED BY <1>1, <1>2, PTL DEF RoomsSpec

\* Every variable of the meeting rooms keeps its type, and a call under way finds the
\* booking it is about recorded, whatever overlaps, stops or restarts.
THEOREM RoomTypesCorrect == RoomsSpec => []RoomsTypeOK
<1>1. RoomsInv => RoomsTypeOK BY DEF RoomsInv
<1> QED BY <1>1, RoomsInvHolds, PTL

\* Bookings, moves and revocations that come one after the other, in any number and
\* order and over any number of days, never book a room twice.
THEOREM RoomsAreBookedOnce == RoomsSpec => []NoDoubleBooking
<1>1. RoomsInv => NoDoubleBooking BY DEF RoomsInv, InTurn, NoDoubleBooking
<1> QED BY <1>1, RoomsInvHolds, PTL

\* And between them the memory of the process says what the ledger says.
THEOREM MemoryIsTrue == RoomsSpec => []MemoryMatchesLedger
<1>1. RoomsInv => MemoryMatchesLedger
  BY DEF RoomsInv, InTurn, MemoryMatchesLedger, Held
<1> QED BY <1>1, RoomsInvHolds, PTL
=============================================================================
