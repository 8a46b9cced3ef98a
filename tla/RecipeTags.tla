----------------------------- MODULE RecipeTags -----------------------------
(***************************************************************************)
(* circuitforge_core/community: the recipe tags of store.py and their      *)
(* votes (migrations/005_recipe_tags.sql), behind the connection pool of   *)
(* db.py. A call borrows a connection and runs one PostgreSQL transaction: *)
(* what it writes is seen by others when it commits; a unique key or a row *)
(* another open transaction has written makes it wait for that one.        *)
(***************************************************************************)
EXTENDS Naturals, FiniteSets

CONSTANTS
  Threads,     \* request threads of the products
  Pseudonyms,
  Places,      \* a recipe with domain, category and subcategory
  NoSub,       \* a place whose subcategory is NULL
  MaxConn,     \* _MAX_CONN
  MaxTags      \* bound on the ids the sequence hands out

ConstantsOK == MaxConn \in Nat \ {0} /\ MaxTags \in Nat /\ NoSub \notin Places

Threshold == 2
TagIds == 1..MaxTags

VARIABLES
  tags,    \* recipe_tags, as committed: a set of [id, place, by, upvotes]
  votes,   \* recipe_tag_votes, as committed: a set of <<id, pseudonym>>
  nextId,  \* the sequence of the primary key, which never goes back
  pc,      \* per thread
  call,    \* per thread [op, who, place, id]; id is the tag of the transaction
  held,    \* the threads that hold a connection
  error    \* per thread how its last call ended

vars == <<tags, votes, nextId, pc, call, held, error>>

NoCall == [op |-> "none", who |-> CHOOSE p \in Pseudonyms : TRUE, place |-> NoSub, id |-> 0]

Init ==
  /\ tags = {}
  /\ votes = {}
  /\ nextId = 1
  /\ pc = [t \in Threads |-> "idle"]
  /\ call = [t \in Threads |-> NoCall]
  /\ held = {}
  /\ error = [t \in Threads |-> "none"]

Exists(id) == \E tag \in tags : tag.id = id

(* Open transactions that have written the vote, the key or the row that   *)
(* thread t is about to write.                                             *)
VotePending(t) ==
  \E s \in Threads \ {t} : /\ pc[s] \in {"bump", "commit"}
                           /\ call[s].id = call[t].id /\ call[s].who = call[t].who
TagPending(t) ==
  \E s \in Threads \ {t} : /\ pc[s] \in {"selfVote", "commit"} /\ call[s].op = "submit"
                           /\ call[s].place = call[t].place /\ call[s].who = call[t].who
RowLocked(t) ==
  \E s \in Threads \ {t} : /\ pc[s] = "commit" /\ call[s].op = "upvote"
                           /\ call[s].id = call[t].id

Go(t, where) == pc' = [pc EXCEPT ![t] = where]
Raise(t, what) == Go(t, "rollback") /\ error' = [error EXCEPT ![t] = what]

-----------------------------------------------------------------------------
(* getconn(): an exhausted pool raises PoolError before the try. *)
GetConn(t) ==
  /\ pc[t] = "idle"
  /\ \E who \in Pseudonyms :
       \/ \E place \in Places \cup {NoSub} :
            /\ nextId + Cardinality({s \in Threads : pc[s] = "submit"}) <= MaxTags
            /\ call' = [call EXCEPT ![t] = [op |-> "submit", who |-> who, place |-> place, id |-> 0]]
       \/ \E id \in TagIds :
            call' = [call EXCEPT ![t] = [op |-> "upvote", who |-> who, place |-> NoSub, id |-> id]]
  /\ \/ /\ Cardinality(held) < MaxConn
        /\ held' = held \cup {t}
        /\ Go(t, call'[t].op)
        /\ error' = [error EXCEPT ![t] = "none"]
     \/ /\ Cardinality(held) >= MaxConn
        /\ Go(t, "done")
        /\ error' = [error EXCEPT ![t] = "PoolError"]
        /\ UNCHANGED held
  /\ UNCHANGED <<tags, votes, nextId>>

(* submit_recipe_tag(): INSERT INTO recipe_tags. NULLs are never equal, so *)
(* the UNIQUE constraint does not see two tags without subcategory.        *)
InsertTag(t) ==
  LET taken == \E tag \in tags : tag.place = call[t].place /\ tag.by = call[t].who IN
  /\ pc[t] = "submit"
  /\ call[t].place = NoSub \/ ~TagPending(t)
  /\ nextId' = nextId + 1
  /\ \/ /\ call[t].place = NoSub \/ ~taken
        /\ call' = [call EXCEPT ![t].id = nextId]
        /\ Go(t, "selfVote")
        /\ UNCHANGED error
     \/ /\ call[t].place # NoSub /\ taken
        /\ Raise(t, "UniqueViolation")
        /\ UNCHANGED call
  /\ UNCHANGED <<tags, votes, held>>

(* Record the submitter's self-vote: the id is new, so nothing is pending. *)
SelfVote(t) ==
  /\ pc[t] = "selfVote"
  /\ Go(t, "commit")
  /\ UNCHANGED <<tags, votes, nextId, call, held, error>>

\* Mutant: the count goes up for a vote that is there already.
InsertVoteAgain(t) ==
  /\ pc[t] = "upvote" /\ ~VotePending(t)
  /\ IF Exists(call[t].id) THEN Go(t, "bump") /\ UNCHANGED error
     ELSE Raise(t, "ForeignKeyViolation")
  /\ UNCHANGED <<tags, votes, nextId, call, held>>

(* upvote_recipe_tag(): INSERT INTO recipe_tag_votes. *)
InsertVote(t) ==
  /\ pc[t] = "upvote" /\ ~VotePending(t)
  /\ \/ ~Exists(call[t].id) /\ Raise(t, "ForeignKeyViolation")
     \/ <<call[t].id, call[t].who>> \in votes /\ Raise(t, "UniqueViolation")
     \/ /\ Exists(call[t].id) /\ <<call[t].id, call[t].who>> \notin votes
        /\ Go(t, "bump")
        /\ UNCHANGED error
  /\ UNCHANGED <<tags, votes, nextId, call, held>>

(* UPDATE recipe_tags SET upvotes = upvotes + 1. The row is there, since   *)
(* the vote refers to it and no code deletes tags; the ValueError after it *)
(* is never reached.                                                       *)
Bump(t) ==
  /\ pc[t] = "bump" /\ ~RowLocked(t)
  /\ Go(t, "commit")
  /\ UNCHANGED <<tags, votes, nextId, call, held, error>>

Increment(id) == {IF tag.id = id THEN [tag EXCEPT !.upvotes = @ + 1] ELSE tag : tag \in tags}

(* conn.commit(): both statements of the transaction take effect.          *)
Commit(t) ==
  /\ pc[t] = "commit"
  /\ \/ /\ call[t].op = "submit"
        /\ tags' = tags \cup {[id |-> call[t].id, place |-> call[t].place,
                               by |-> call[t].who, upvotes |-> 1]}
     \/ /\ call[t].op = "upvote"
        /\ tags' = Increment(call[t].id)
  /\ votes' = votes \cup {<<call[t].id, call[t].who>>}
  /\ Go(t, "put")
  /\ UNCHANGED <<nextId, call, held, error>>

(* A statement or the commit fails in the database. *)
Fail(t) ==
  /\ pc[t] \in {"submit", "selfVote", "upvote", "bump", "commit"}
  /\ Raise(t, "DatabaseError")
  /\ UNCHANGED <<tags, votes, nextId, call, held>>

(* except: conn.rollback() and raise. *)
Rollback(t) ==
  /\ pc[t] = "rollback"
  /\ Go(t, "put")
  /\ UNCHANGED <<tags, votes, nextId, call, held, error>>

(* finally: putconn(). *)
PutConn(t) ==
  /\ pc[t] = "put"
  /\ held' = held \ {t}
  /\ Go(t, "done")
  /\ UNCHANGED <<tags, votes, nextId, call, error>>

Return(t) ==
  /\ pc[t] = "done"
  /\ Go(t, "idle")
  /\ call' = [call EXCEPT ![t] = NoCall]
  /\ error' = [error EXCEPT ![t] = "none"]
  /\ UNCHANGED <<tags, votes, nextId, held>>

Next ==
  \E t \in Threads :
    \/ GetConn(t) \/ InsertTag(t) \/ SelfVote(t) \/ InsertVote(t) \/ Bump(t)
    \/ Commit(t) \/ Fail(t) \/ Rollback(t) \/ PutConn(t) \/ Return(t)

Spec == Init /\ [][Next]_vars

(* Threads and the database make progress; nothing has to fail. PostgreSQL *)
(* queues who waits for a lock, so a waiter is not passed over for ever.   *)
Fairness ==
  \A t \in Threads :
       /\ SF_vars(InsertTag(t) \/ SelfVote(t) \/ InsertVote(t) \/ Bump(t) \/ Commit(t))
       /\ WF_vars(Rollback(t) \/ PutConn(t) \/ Return(t))
FairSpec == Spec /\ Fairness

-----------------------------------------------------------------------------
(* store.py:282-283, 317-339: a tag's count is the number of those who     *)
(* voted for it, however votes overlap and wherever a call fails.          *)
CountIsVotes ==
  \A tag \in tags : tag.upvotes = Cardinality({p \in Pseudonyms : <<tag.id, p>> \in votes})

(* 005_recipe_tags.sql:9-10: what get_accepted_recipe_ids_for_subcategory()*)
(* accepts has its submitter's vote and that of somebody else.             *)
AcceptedByAnother ==
  \A tag \in tags :
    tag.upvotes >= Threshold => /\ <<tag.id, tag.by>> \in votes
                                /\ \E p \in Pseudonyms \ {tag.by} : <<tag.id, p>> \in votes

(* db.py:53, "Must be returned via putconn()": every connection that is    *)
(* out is held by a call under way.                                        *)
ConnectionsComeBack == \A t \in held : pc[t] \notin {"idle", "done"}

(* Waiting for each other's rows never stops everybody: a call ends.       *)
EveryCallEnds == \A t \in Threads : pc[t] # "idle" ~> pc[t] = "idle"

(* store.py:285-286, UniqueViolation "if the same user has already tagged  *)
(* this recipe to this location".                                          *)
OneTagPerUser == \A a, b \in tags : a.place = b.place /\ a.by = b.by => a.id = b.id

(* store.py:321, "Raises ValueError if the tag does not exist."            *)
MissingTagIsValueError ==
  \A t \in Threads :
    call[t].op = "upvote" /\ pc[t] = "rollback" /\ error[t] \notin {"DatabaseError", "UniqueViolation"}
      => error[t] = "ValueError"
=============================================================================
