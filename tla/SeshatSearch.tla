---------------------------- MODULE SeshatSearch ----------------------------
(***************************************************************************)
(* Paginated search: several clients page through the results of a search  *)
(* while the writer changes the events table and the index under them.     *)
(* What a client has been given so far is kept in a cache of past searches *)
(* under the next_batch token of its last page.                            *)
(***************************************************************************)
EXTENDS Integers, Sequences, FiniteSets

CONSTANTS
    Events,       \* events of the database
    EventIds,     \* Matrix event ids
    IdOf,         \* the event id of every event
    Matching,     \* the events that match the term, the room and the keys
    Clients,      \* threads that search
    Tokens,       \* values of Uuid::new_v4
    NoToken,      \* next_batch is None
    Limit,        \* SearchConfig::limit
    Increment,    \* SEARCH_LIMIT_INCREMENT
    CacheSize,    \* SEARCH_CACHE_SIZE
    MaxChanges    \* bound of the model: steps of the writer, failing calls of
                  \* SQLite, searches begun anew

\* An event has two documents when it was indexed twice (see SeshatStore).
MaxDocs == 2

ASSUME IdAssumption == IdOf \in [Events -> EventIds]
ASSUME MatchingAssumption == Matching \subseteq Events /\ IsFiniteSet(Matching)
ASSUME NoTokenAssumption == NoToken \notin Tokens
ASSUME SizeAssumption == Limit \in Nat \ {0} /\ Increment \in Nat \ {0} /\ CacheSize \in Nat \ {0}
ASSUME TokensAssumption ==
    /\ IsFiniteSet(Tokens) /\ IsFiniteSet(Clients)
    /\ Cardinality(Tokens) > CacheSize + 2 * Cardinality(Clients)
ASSUME BoundAssumption == MaxChanges \in Nat

VARIABLES
    rows,        \* the events table
    docs,        \* committed documents of every matching event
    reader,      \* the documents that tantivy's reader has loaded
    recent,      \* search_cache: its tokens, the least recently used first
    past,        \* search_cache: the event_ids of the past search of its tokens
    poisoned,    \* a thread panicked while it held the connection's mutex
    stage,       \* where every client is in Searcher::search
    token,       \* SearchConfig::next_batch
    snapshot,    \* the documents its IndexSearcher sees
    previous,    \* event_ids of the past search
    found,       \* ids of SearchResult::results
    nextBatch,   \* SearchResult::next_batch
    changes,
    \* history, read by properties only
    given,       \* ids of the pages a client received since its first one
    resumed,     \* every token was found in the cache
    shrunk       \* a document went away between two pages

store == <<rows, docs, reader>>
searchCache == <<recent, past>>
client == <<stage, token, snapshot, previous, found, nextBatch>>
history == <<given, resumed, shrunk>>

vars == <<store, searchCache, poisoned, client, changes, history>>

-----------------------------------------------------------------------------
Stage == {"ready", "begun", "found", "ended", "panicked"}

\* Of event_ids only its members and its length are looked at.
Seen == [ids : SUBSET EventIds, len : Nat]

NothingSeen == [ids |-> {}, len |-> 0]

Documents == [Matching -> 0..MaxDocs]

NoDocs == [e \in Matching |-> 0]

WithId(id) == {e \in Events : IdOf[e] = id}

Elements(s) == {s[i] : i \in DOMAIN s}

InUse(t) == t \in DOMAIN past \/ \E c \in Clients : t \in {token[c], nextBatch[c]}

\* Uuid::new_v4: a token nobody uses; it does not matter which.
Fresh(t) == ~InUse(t) /\ t = CHOOSE u \in Tokens : ~InUse(u)

\* The least recently used entry goes when the cache is full.
Kept == IF Len(recent) >= CacheSize THEN Tail(recent) ELSE recent

\* LruCache::insert, of a token that is not in the cache.
Insert(t, seen) ==
    /\ recent' = Append(Kept, t)
    /\ past' = [u \in Elements(recent') |-> IF u = t THEN seen ELSE past[u]]

\* LruCache::get_mut
Touch(t) ==
    \E k \in DOMAIN recent :
        /\ recent[k] = t
        /\ recent' = SubSeq(recent, 1, k - 1) \o SubSeq(recent, k + 1, Len(recent)) \o <<t>>

-----------------------------------------------------------------------------
(* The query.                                                              *)

DocsOf(s) == {d \in Matching \X (1..MaxDocs) : d[2] <= s[d[1]]}

Count(s) == Cardinality(DocsOf(s))

\* The documents of a snapshot, best first; which of two is better is up to
\* scores, dates and, for ties, the segments of the index.
Rankings ==
    [s \in Documents |->
        {r \in [1..Count(s) -> Matching] :
            \A e \in Matching : Cardinality({i \in DOMAIN r : r[i] = e}) = s[e]}]

FirstOf(S, n) == {i \in S : Cardinality({j \in S : j <= i}) <= n}

\* Among the best documents, the first ones not returned by an earlier page.
NewAmong(limit, ranking, seen) ==
    FirstOf({i \in DOMAIN ranking : i <= limit /\ IdOf[ranking[i]] \notin seen.ids}, Limit)

Enough(limit, ranking, seen) ==
    \/ Cardinality(NewAmong(limit, ranking, seen)) >= Limit
    \/ limit >= Len(ranking)

\* Mutant: search_helper never asks for more documents.
FirstLimit(ranking, seen) == Limit

\* search_helper asks for more documents until there are enough.
LastLimit(ranking, seen) ==
    LET limits == {Limit + k * Increment : k \in 0..Len(ranking)}
    IN  CHOOSE l \in limits :
            /\ Enough(l, ranking, seen)
            /\ \A m \in limits : m < l => ~Enough(m, ranking, seen)

\* search_helper, as positions in the ranking.
SearchHelper(ranking, seen) == NewAmong(LastLimit(ranking, seen), ranking, seen)

\* Mutant: the ids of earlier pages are not added to those of this one.
SeenHere(seen, ids, n) == [ids |-> ids, len |-> n]

SeenWith(seen, ids, n) == [ids |-> seen.ids \cup ids, len |-> seen.len + n]

\* Mutant: the page before the last one is taken for the last one.
LastButOne(seen, count) == seen.len + 1 >= count

LastPage(seen, count) == seen.len = count

-----------------------------------------------------------------------------
(* Searcher::search of a client.                                           *)

\* get_searcher, and the past search of the token.
Begin(c) ==
    /\ stage[c] = "ready"
    /\ stage' = [stage EXCEPT ![c] = "begun"]
    /\ snapshot' = [snapshot EXCEPT ![c] = reader]
    /\ IF token[c] \in DOMAIN past
       THEN /\ previous' = [previous EXCEPT ![c] = past[token[c]]]
            /\ Touch(token[c])
       ELSE /\ previous' = [previous EXCEPT ![c] = NothingSeen]
            /\ UNCHANGED recent
    /\ resumed' = [resumed EXCEPT ![c] = @ /\ (token[c] = NoToken \/ token[c] \in DOMAIN past)]
    /\ shrunk' = [shrunk EXCEPT ![c] = @ \/ \E e \in Matching : reader[e] < snapshot[c][e]]
    /\ UNCHANGED <<store, past, poisoned, token, found, nextBatch, changes, given>>

\* The query, and a new token unless every document was returned.
Collect(c) ==
    /\ stage[c] = "begun"
    /\ stage' = [stage EXCEPT ![c] = "found"]
    /\ \E ranking \in Rankings[snapshot[c]] :
          LET new == SearchHelper(ranking, previous[c])
              ids == {IdOf[ranking[i]] : i \in new}
              seen == SeenWith(previous[c], ids, Cardinality(new))
          IN  /\ found' = [found EXCEPT ![c] = ids]
              /\ IF LastPage(seen, Count(snapshot[c]))
                 THEN /\ nextBatch' = [nextBatch EXCEPT ![c] = NoToken]
                      /\ UNCHANGED searchCache
                 ELSE \E t \in Tokens :
                          /\ Fresh(t)
                          /\ nextBatch' = [nextBatch EXCEPT ![c] = t]
                          /\ Insert(t, seen)
    /\ UNCHANGED <<store, poisoned, token, snapshot, previous, changes, history>>

\* Two rooms may hold an event of the same id; load_events selects by id alone.
SharedIds(ids) == \E e, f \in rows : e # f /\ IdOf[e] = IdOf[f] /\ IdOf[e] \in ids

\* load_events has a result: the client has its page.
Load(c) ==
    /\ stage[c] = "found"
    /\ found[c] = {} \/ (~poisoned /\ ~SharedIds(found[c]))
    /\ stage' = [stage EXCEPT ![c] = IF nextBatch[c] = NoToken THEN "ended" ELSE "ready"]
    /\ token' = [token EXCEPT ![c] = nextBatch[c]]
    /\ given' = [given EXCEPT ![c] = @ \cup found[c]]
    /\ nextBatch' = [nextBatch EXCEPT ![c] = NoToken]
    /\ found' = [found EXCEPT ![c] = {}]
    /\ previous' = [previous EXCEPT ![c] = NothingSeen]
    /\ UNCHANGED <<store, searchCache, poisoned, snapshot, changes, resumed, shrunk>>

\* The second row of an id finds its score gone: the unwrap panics while the
\* mutex is held, which poisons it for every other search.
LoadPanics(c) ==
    /\ stage[c] = "found"
    /\ found[c] # {} /\ (poisoned \/ SharedIds(found[c]))
    /\ stage' = [stage EXCEPT ![c] = "panicked"]
    /\ poisoned' = TRUE
    /\ nextBatch' = [nextBatch EXCEPT ![c] = NoToken]
    /\ found' = [found EXCEPT ![c] = {}]
    /\ previous' = [previous EXCEPT ![c] = NothingSeen]
    /\ UNCHANGED <<store, searchCache, token, snapshot, changes, history>>

Change == changes < MaxChanges /\ changes' = changes + 1

\* SQLite fails, or stays busy: the client may ask again with the token it has.
LoadFails(c) ==
    /\ stage[c] = "found"
    /\ found[c] # {} /\ ~poisoned
    /\ Change
    /\ stage' = [stage EXCEPT ![c] = "ready"]
    /\ nextBatch' = [nextBatch EXCEPT ![c] = NoToken]
    /\ found' = [found EXCEPT ![c] = {}]
    /\ previous' = [previous EXCEPT ![c] = NothingSeen]
    /\ UNCHANGED <<store, searchCache, poisoned, token, snapshot, history>>

\* The client begins another search.
Restart(c) ==
    /\ Change
    /\ stage[c] = "ended" \/ (stage[c] = "ready" /\ token[c] # NoToken)
    /\ stage' = [stage EXCEPT ![c] = "ready"]
    /\ token' = [token EXCEPT ![c] = NoToken]
    /\ snapshot' = [snapshot EXCEPT ![c] = NoDocs]
    /\ given' = [given EXCEPT ![c] = {}]
    /\ resumed' = [resumed EXCEPT ![c] = TRUE]
    /\ shrunk' = [shrunk EXCEPT ![c] = FALSE]
    /\ UNCHANGED <<store, searchCache, poisoned, previous, found, nextBatch>>

-----------------------------------------------------------------------------
(* The writer thread, step by step as SeshatStore orders it or in any other  *)
(* order, and tantivy's reader, which follows the commits in its own time.   *)

StoreEvent(e) ==
    /\ Change
    /\ e \notin rows
    /\ rows' = rows \cup {e}
    /\ UNCHANGED <<docs, reader, searchCache, poisoned, client, history>>

IndexEvent(e) ==
    /\ Change
    /\ docs[e] < MaxDocs
    /\ docs' = [docs EXCEPT ![e] = @ + 1]
    /\ UNCHANGED <<rows, reader, searchCache, poisoned, client, history>>

DeleteRows(id) ==
    /\ Change
    /\ rows \cap WithId(id) # {}
    /\ rows' = rows \ WithId(id)
    /\ UNCHANGED <<docs, reader, searchCache, poisoned, client, history>>

DeleteDocs(id) ==
    /\ Change
    /\ \E e \in Matching \cap WithId(id) : docs[e] > 0
    /\ docs' = [e \in Matching |-> IF IdOf[e] = id THEN 0 ELSE docs[e]]
    /\ UNCHANGED <<rows, reader, searchCache, poisoned, client, history>>

Reload ==
    /\ reader # docs
    /\ reader' = docs
    /\ UNCHANGED <<rows, docs, searchCache, poisoned, client, changes, history>>

-----------------------------------------------------------------------------
\* The matching events are stored and the index is up to date.
Init ==
    /\ rows = Matching
    /\ docs = [e \in Matching |-> 1]
    /\ reader = docs
    /\ recent = <<>> /\ past = [t \in {} |-> NothingSeen]
    /\ poisoned = FALSE
    /\ stage = [c \in Clients |-> "ready"]
    /\ token = [c \in Clients |-> NoToken]
    /\ snapshot = [c \in Clients |-> NoDocs]
    /\ previous = [c \in Clients |-> NothingSeen]
    /\ found = [c \in Clients |-> {}]
    /\ nextBatch = [c \in Clients |-> NoToken]
    /\ changes = 0
    /\ given = [c \in Clients |-> {}]
    /\ resumed = [c \in Clients |-> TRUE]
    /\ shrunk = [c \in Clients |-> FALSE]

SearchStep(c) == Begin(c) \/ Collect(c) \/ Load(c) \/ LoadPanics(c)

WriterStep ==
    \/ \E e \in Events : StoreEvent(e)
    \/ \E e \in Matching : IndexEvent(e)
    \/ \E id \in EventIds : DeleteRows(id) \/ DeleteDocs(id)
    \/ Reload

Next ==
    \/ \E c \in Clients : SearchStep(c) \/ LoadFails(c) \/ Restart(c)
    \/ WriterStep

Spec == Init /\ [][Next]_vars

\* A client that pages on: its thread runs and it asks with every token.
FairSpec == Spec /\ \A c \in Clients : WF_vars(SearchStep(c))

-----------------------------------------------------------------------------
(* Properties.                                                             *)

PageTypes ==
    /\ DOMAIN past \subseteq Tokens /\ past \in [DOMAIN past -> Seen]
    /\ stage \in [Clients -> Stage]
    /\ token \in [Clients -> Tokens \cup {NoToken}]
    /\ snapshot \in [Clients -> Documents]
    /\ previous \in [Clients -> Seen]
    /\ found \in [Clients -> SUBSET EventIds]
    /\ nextBatch \in [Clients -> Tokens \cup {NoToken}]
    /\ given \in [Clients -> SUBSET EventIds]
    /\ resumed \in [Clients -> BOOLEAN]
    /\ shrunk \in [Clients -> BOOLEAN]

StoreTypes ==
    /\ rows \in SUBSET Events
    /\ docs \in Documents /\ reader \in Documents
    /\ poisoned \in BOOLEAN
    /\ changes \in Nat

\* The cache holds what recent lists, each once, and no more than its size.
CacheBounded ==
    /\ recent \in Seq(Tokens) /\ Len(recent) <= CacheSize
    /\ \A i, j \in DOMAIN recent : i # j => recent[i] # recent[j]
    /\ Elements(recent) = DOMAIN past

\* The state is made of what the store, the cache and the clients can hold.
TypeOK == PageTypes /\ StoreTypes /\ CacheBounded

\* No page repeats an event of an earlier one, whatever the writer does to the
\* index in between, whichever pages failed, and however the other clients use
\* the cache, as long as the cache still had the tokens.
PagesDisjoint ==
    \A c \in Clients : stage[c] = "found" /\ resumed[c] => found[c] \cap given[c] = {}

GivenAll(c) == \A e \in Matching : snapshot[c][e] > 0 => IdOf[e] \in given[c]

\* Without a token to go on, every matching document of the index was in a page,
\* those indexed between two pages included, unless documents went away.
PagesComplete ==
    \A c \in Clients : stage[c] = "ended" /\ resumed[c] /\ ~shrunk[c] => GivenAll(c)

\* One document for every id in the index that a search sees.
OneDocPerId(s) == \A e, f \in Matching : IdOf[e] = IdOf[f] => s[e] + s[f] <= (IF e = f THEN 2 ELSE 1)

\* A page that is found has an event, as long as every id has one document and
\* none goes away, unless nothing matches at all: the pages get the client on.
NoEmptyPage ==
    \A c \in Clients :
        stage[c] = "found" /\ resumed[c] /\ ~shrunk[c] /\ OneDocPerId(snapshot[c])
        => found[c] # {} \/ Count(snapshot[c]) = 0

\* Liveness: a client that pages on gets its last page, if the index has one
\* document per id and only grows.
PagesEnd ==
    \A c \in Clients :
        [](resumed[c] /\ ~shrunk[c] /\ ~poisoned /\ OneDocPerId(snapshot[c]))
        => (stage[c] = "begun" ~> stage[c] = "ended" \/ token[c] = NoToken)

-----------------------------------------------------------------------------
(* The inductive invariant behind PagesDisjoint.                            *)

\* What a client has been given is known wherever its next page will look, and
\* the page it has found is not among it.
Remembered ==
    \A c \in Clients : resumed[c] =>
        /\ token[c] = NoToken /\ stage[c] # "ended" => given[c] = {}
        /\ token[c] \in DOMAIN past => given[c] \subseteq past[token[c]].ids
        /\ stage[c] = "begun" => given[c] \subseteq previous[c].ids
        /\ stage[c] = "found" =>
              /\ found[c] \cap given[c] = {}
              /\ nextBatch[c] \in DOMAIN past
                 => given[c] \cup found[c] \subseteq past[nextBatch[c]].ids

(* The inductive invariant behind PagesComplete.                            *)

\* The documents of a snapshot whose id is among ids.
Known(s, ids) == Cardinality({d \in DocsOf(s) : IdOf[d[1]] \in ids})

\* A past search names ids of ids only, and counts no more documents than the
\* snapshot has of them.
Covers(seen, s, ids) == seen.ids \subseteq ids /\ seen.len <= Known(s, seen.ids)

\* What a past search holds was given to the client, and its length was earned by
\* documents: it reaches the number of all of them only when all were given.
Accounted ==
    \A c \in Clients : resumed[c] /\ ~shrunk[c] =>
        /\ token[c] \in DOMAIN past => Covers(past[token[c]], snapshot[c], given[c])
        /\ stage[c] = "begun" => Covers(previous[c], snapshot[c], given[c])
        /\ stage[c] = "found" =>
              /\ nextBatch[c] = NoToken
                 => \A e \in Matching : snapshot[c][e] > 0 => IdOf[e] \in given[c] \cup found[c]
              /\ nextBatch[c] \in DOMAIN past
                 => Covers(past[nextBatch[c]], snapshot[c], given[c] \cup found[c])
        /\ stage[c] = "ended" => GivenAll(c)

(* The inductive invariant behind NoEmptyPage.                               *)

\* A past search counts a document for every id it names.
Counted(seen) == IsFiniteSet(seen.ids) /\ Cardinality(seen.ids) <= seen.len

\* What may go on has not counted as many documents as there are.
Unfinished(seen, s) == seen.len < Count(s)

Ongoing ==
    /\ \A t \in DOMAIN past : Counted(past[t])
    /\ \A c \in Clients : Counted(previous[c])
    /\ \A c \in Clients : resumed[c] /\ ~shrunk[c] =>
          /\ token[c] \in DOMAIN past => Unfinished(past[token[c]], snapshot[c])
          /\ stage[c] = "begun"
             => Unfinished(previous[c], snapshot[c]) \/ previous[c] = NothingSeen
          /\ stage[c] = "found" /\ nextBatch[c] \in DOMAIN past
             => Unfinished(past[nextBatch[c]], snapshot[c])

SearchInv == TypeOK /\ Remembered /\ Accounted /\ Ongoing /\ NoEmptyPage
=============================================================================
