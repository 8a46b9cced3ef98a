--------------------------- MODULE CommunityStore ---------------------------
(***************************************************************************)
(* circuitforge_core/community: the posts of SharedStore (store.py), and   *)
(* the seller signals and eBay categories of SnipeCommunityStore           *)
(* (snipe_store.py). As in RecipeTags, a call borrows a connection of the  *)
(* pool and runs one PostgreSQL transaction. A statement waits for the     *)
(* open transaction that has written the row or the key it writes.         *)
(***************************************************************************)
EXTENDS Naturals, FiniteSets, Sequences, SequencesExt

CONSTANTS
  Threads,
  Slugs,
  Pseudonyms,
  Times,       \* values of posts.published, which the author's node sets
  Batches,     \* the lists of categories that Snipe instances publish
  Categories,
  MaxConn,     \* _MAX_CONN
  Tables,      \* the tables that clients query
  PageSize,    \* the limit list_posts() is called with
  MaxSignals,  \* bound on the signals about the seller
  None

ConstantsOK ==
  /\ MaxConn \in Nat \ {0} /\ PageSize \in Nat \ {0} /\ MaxSignals \in Nat
  /\ Times \subseteq Nat
  /\ \A b \in Batches : b \in Seq(Categories) /\ b # <<>> /\ IsInjective(b)

VARIABLES
  posts,      \* community_posts, as committed: a set of [slug, by, at]
  catalogue,  \* category -> the thread whose name for it is committed, or None
  signals,    \* how many of the seller's committed signals say scam, and how many not
  pc,
  call,
  wrote,      \* thread -> the slugs and categories its open transaction has written
  reader      \* how far a client of list_posts() has paged through the posts

vars == <<posts, catalogue, signals, pc, call, wrote, reader>>

NoCall == [op |-> "none"]

(* The client asks for one page after the other until a page is short.     *)
NotReading == [offset |-> 0, due |-> {}, deleted |-> FALSE, over |-> FALSE]

Init ==
  /\ posts = {}
  /\ catalogue = [c \in Categories |-> None]
  /\ signals = [scam |-> 0, legitimate |-> 0]
  /\ pc = [t \in Threads |-> "idle"]
  /\ call = [t \in Threads |-> NoCall]
  /\ wrote = [t \in Threads |-> {}]
  /\ reader = NotReading

Calls ==
  [op : {"insert"}, slug : Slugs, by : Pseudonyms, at : Times]
    \cup [op : {"delete"}, slug : Slugs, by : Pseudonyms]
    \cup [op : {"list"}, allergens : BOOLEAN]
    \cup [op : {"publish"}, batch : Batches]
    \cup [op : {"signal"}, verdict : {"scam", "legitimate"}]
    \cup [op : {"read"}, table : Tables]

Go(t, where) == pc' = [pc EXCEPT ![t] = where] /\ UNCHANGED call
(* Nothing of the call matters any more but what it has written. *)
Leave(t, where) == pc' = [pc EXCEPT ![t] = where] /\ call' = [call EXCEPT ![t] = NoCall]
Executes(t, op) == pc[t] = "execute" /\ call[t].op = op
Signalling == Cardinality({u \in Threads : call[u].op = "signal"})
SlugsOf(ps) == {p.slug : p \in ps}

(* What the next statement of t writes, and whose commit it waits for. A   *)
(* DELETE does not see, nor wait for, a row that is not committed.         *)
Key(t) == IF call[t].op = "publish" THEN call[t].batch[Cardinality(wrote[t]) + 1]
                                    ELSE call[t].slug
WaitsFor(t) ==
  {u \in Threads \ {t} :
     /\ pc[t] = "execute" /\ call[t].op \in {"insert", "delete", "publish"}
     /\ Key(t) \in wrote[u]
     /\ call[t].op = "delete" => \E p \in posts : p.slug = Key(t) /\ p.by = call[t].by}

-----------------------------------------------------------------------------
(* getconn(): an exhausted pool raises PoolError and nothing has happened. *)
GetConn(t) ==
  /\ pc[t] = "idle"
  /\ Cardinality({u \in Threads : pc[u] # "idle"}) < MaxConn
  /\ \E c \in Calls :
       /\ c.op = "list" => \A u \in Threads : call[u].op # "list"
       /\ c.op = "signal" => signals.scam + signals.legitimate + Signalling < MaxSignals
       /\ call' = [call EXCEPT ![t] = c]
  /\ pc' = [pc EXCEPT ![t] = "execute"]
  /\ UNCHANGED <<posts, catalogue, signals, wrote, reader>>

(* insert_post(): the slug is UNIQUE. *)
InsertPost(t) ==
  /\ Executes(t, "insert") /\ WaitsFor(t) = {}
  /\ IF call[t].slug \in SlugsOf(posts)
     THEN Leave(t, "rollback") /\ UNCHANGED wrote
     ELSE Go(t, "commit") /\ wrote' = [wrote EXCEPT ![t] = {call[t].slug}]
  /\ UNCHANGED <<posts, catalogue, signals, reader>>

(* delete_post(): WHERE slug = ... AND pseudonym = ..., which may match no *)
(* row; the call then commits nothing and returns False.                   *)
DeletePost(t) ==
  /\ Executes(t, "delete") /\ WaitsFor(t) = {}
  /\ wrote' = [wrote EXCEPT ![t] = {p.slug : p \in {q \in posts : q.slug = call[t].slug
                                                                  /\ q.by = call[t].by}}]
  /\ Go(t, "commit")
  /\ UNCHANGED <<posts, catalogue, signals, reader>>

\* Mutant: every row is committed by itself.
UpsertAndCommit(t) ==
  /\ Executes(t, "publish") /\ WaitsFor(t) = {}
  /\ wrote' = [wrote EXCEPT ![t] = @ \cup {Key(t)}]
  /\ catalogue' = [catalogue EXCEPT ![Key(t)] = t]
  /\ Go(t, IF Cardinality(wrote[t]) + 1 = Len(call[t].batch) THEN "commit" ELSE "execute")
  /\ UNCHANGED <<posts, signals, reader>>

(* publish_categories(): executemany() upserts the rows one by one, in the *)
(* order of the list.                                                      *)
Upsert(t) ==
  /\ Executes(t, "publish") /\ WaitsFor(t) = {}
  /\ wrote' = [wrote EXCEPT ![t] = @ \cup {Key(t)}]
  /\ Go(t, IF Cardinality(wrote[t]) + 1 = Len(call[t].batch) THEN "commit" ELSE "execute")
  /\ UNCHANGED <<posts, catalogue, signals, reader>>

(* publish_seller_signal(): a row of its own; nothing to wait for.         *)
PublishSignal(t) ==
  /\ Executes(t, "signal")
  /\ Go(t, "commit")
  /\ UNCHANGED <<posts, catalogue, signals, wrote, reader>>

(* ORDER BY published DESC, with a window of the ordered rows: posts of    *)
(* one time come in any order, and another one for every query.            *)
Newer(p) == Cardinality({q \in posts : q.at > p.at})
Tied(p) == Cardinality({q \in posts : q.at = p.at})
Windows(offset, limit) ==
  {page \in SUBSET posts :
     /\ Cardinality(page) = Cardinality({i \in 1..Cardinality(posts) : i > offset /\ i <= offset + limit})
     /\ \A p \in page : Newer(p) < offset + limit /\ Newer(p) + Tied(p) > offset
     /\ \A p \in posts : Newer(p) >= offset /\ Newer(p) + Tied(p) <= offset + limit => p \in page}

\* Mutant: the page and the offset in the order of the signature.
PagesOfSwapped(offset) == Windows(PageSize, offset)
(* `LIMIT %s OFFSET %s`, given [limit, offset]. *)
PagesOf(offset) == Windows(offset, PageSize)

(* list_posts(): jsonb has no && operator, so a query with an allergen     *)
(* filter fails. A read has no except clause.                              *)
ListPosts(t) ==
  LET r == IF reader.over THEN NotReading ELSE reader IN
  /\ Executes(t, "list")
  /\ Leave(t, "put")
  /\ IF call[t].allergens THEN UNCHANGED reader
     ELSE \E page \in PagesOf(r.offset) :
            reader' = [r EXCEPT !.offset = @ + PageSize,
                                !.due = (IF r.offset = 0 THEN SlugsOf(posts) ELSE @) \ SlugsOf(page),
                                !.over = Cardinality(page) < PageSize]
  /\ UNCHANGED <<posts, catalogue, signals, wrote>>

(* One SELECT of what is committed, whoever writes meanwhile.              *)
Select(t, table) ==
  /\ Executes(t, "read") /\ call[t].table = table
  /\ Leave(t, "put")
  /\ UNCHANGED <<posts, catalogue, signals, wrote, reader>>

(* get_post_by_slug() and search_similar_posts(); list_signals_for_seller()*)
(* and scam_signal_count(); fetch_categories().                            *)
SelectPosts(t) == Select(t, "posts")
SelectSignals(t) == Select(t, "signals")
SelectCategories(t) == Select(t, "categories")

(* conn.commit(): what the transaction wrote takes effect.                 *)
Commit(t) ==
  LET mine == {p \in posts : p.slug \in wrote[t]} IN
  /\ pc[t] = "commit"
  /\ posts' = IF call[t].op = "insert"
              THEN posts \cup {[slug |-> call[t].slug, by |-> call[t].by, at |-> call[t].at]}
              ELSE posts \ mine
  /\ catalogue' = [c \in Categories |-> IF c \in wrote[t] THEN t ELSE catalogue[c]]
  /\ signals' = IF call[t].op = "signal" THEN [signals EXCEPT ![call[t].verdict] = @ + 1]
                                         ELSE signals
  /\ reader' = [reader EXCEPT !.deleted = @ \/ (mine # {} /\ reader.offset > 0)]
  /\ wrote' = [wrote EXCEPT ![t] = {}]
  /\ Leave(t, "put")

(* PostgreSQL breaks a circle of transactions that wait for each other by  *)
(* raising DeadlockDetected in one of them.                                *)
DeadlockDetected(t) ==
  /\ \E circle \in SUBSET Threads :
       /\ t \in circle
       /\ \A u \in circle : \E v \in circle : v \in WaitsFor(u)
       /\ \A u \in circle : \E v \in circle : u \in WaitsFor(v)
  /\ Leave(t, "rollback")
  /\ UNCHANGED <<posts, catalogue, signals, wrote, reader>>

(* A statement or the commit fails. Only the writes have an except clause; *)
(* the pool rolls back what a read leaves open.                            *)
Fail(t) ==
  /\ pc[t] \in {"execute", "commit"}
  /\ Leave(t, IF call[t].op \in {"list", "read"} THEN "put" ELSE "rollback")
  /\ UNCHANGED <<posts, catalogue, signals, wrote, reader>>

(* except: conn.rollback() and raise. *)
Rollback(t) ==
  /\ pc[t] = "rollback"
  /\ wrote' = [wrote EXCEPT ![t] = {}]
  /\ Leave(t, "put")
  /\ UNCHANGED <<posts, catalogue, signals, reader>>

(* finally: putconn(), and the call is over. *)
PutConn(t) ==
  /\ pc[t] = "put"
  /\ Leave(t, "idle")
  /\ UNCHANGED <<posts, catalogue, signals, wrote, reader>>

Next ==
  \E t \in Threads :
    \/ GetConn(t) \/ InsertPost(t) \/ DeletePost(t) \/ Upsert(t) \/ PublishSignal(t)
    \/ ListPosts(t) \/ SelectPosts(t) \/ SelectSignals(t) \/ SelectCategories(t)
    \/ Commit(t) \/ DeadlockDetected(t) \/ Fail(t)
    \/ Rollback(t) \/ PutConn(t)

Spec == Init /\ [][Next]_vars

-----------------------------------------------------------------------------
(* snipe_store.py:183, a batch is upserted as a whole: categories that are *)
(* always published together are always of one publisher, in whatever      *)
(* orders batches overlap, wait for each other and fail.                   *)
PublishedTogether ==
  \A c, d \in Categories :
    (\A b \in Batches : c \in Range(b) <=> d \in Range(b)) => catalogue[c] = catalogue[d]

(* store.py:102, "Paginated post list": who pages to the end is given      *)
(* every post that was there when it began, posts inserted meanwhile at    *)
(* whatever date notwithstanding. A deletion meanwhile, or a post of the   *)
(* very same time, can hide one.                                           *)
PagesMissNothing ==
  reader.over /\ ~reader.deleted =>
    \A p \in posts : p.slug \in reader.due => Tied(p) # 1
=============================================================================
