------------------------ MODULE CommunityMigrations -------------------------
(***************************************************************************)
(* circuitforge_core/community/db.py: CommunityDB.run_migrations() called  *)
(* by several products on one PostgreSQL database.  Unlike the SQLite      *)
(* runner (module Migrations) it runs a file and the row that records it   *)
(* in one transaction.  What PostgreSQL makes of two transactions at once  *)
(* is external: a CREATE ... IF NOT EXISTS that another open transaction   *)
(* is also making waits for it and then fails on the catalogue's unique    *)
(* index; an ALTER ... IF NOT EXISTS waits for the lock and then finds the *)
(* column; a row of the same key waits and then fails.                     *)
(***************************************************************************)
EXTENDS Naturals, Sequences

CONSTANTS
  Starts,    \* startups of products
  Kinds,     \* per migration file, in order: "create", "alter" or "none" (SELECT 1)
  MaxLosses  \* bound on processes killed and connections lost

ConstantsOK == /\ Kinds \in Seq({"create", "alter", "none"}) /\ MaxLosses \in Nat

VARIABLES
  present,  \* files whose statements are committed; 0 is _community_migrations
  marked,   \* the committed rows of _community_migrations
  startup,  \* per startup: "begin", "waits", "select", "execute", "insert", "commit",
            \*   "done", "raised", "killed"
  at,       \* per startup, the file it is at; 0 is the CREATE of the tracking table
  open,     \* per startup, what its open transaction made: pairs <<"schema" or "row", file>>
  losses

vars == <<present, marked, startup, at, open, losses>>

Files == 1 .. Len(Kinds)

Init ==
  /\ present = {} /\ marked = {}
  /\ startup = [s \in Starts |-> "begin"]
  /\ at = [s \in Starts |-> 0]
  /\ open = [s \in Starts |-> {}]
  /\ losses = 0

Kind(m) == IF m = 0 THEN "create" ELSE Kinds[m]
Others(s, thing) == \E t \in Starts \ {s} : <<thing, at[s]>> \in open[t]

\* What follows the statements of a file: its row; the tracking table has none.
AfterSchema(s) == IF at[s] = 0 THEN "commit" ELSE "insert"

(* except: conn.rollback(); raise -- and putconn(). *)
Raise(s) ==
  /\ startup' = [startup EXCEPT ![s] = "raised"]
  /\ open' = [open EXCEPT ![s] = {}]

(* cur.execute(sql), and the CREATE of the tracking table. *)
Execute(s) ==
  /\ startup[s] \in {"begin", "execute"}
  /\ Kind(at[s]) # "none" => ~Others(s, "schema")
  /\ open' = IF at[s] \in present THEN open
             ELSE [open EXCEPT ![s] = @ \cup {<<"schema", at[s]>>}]
  /\ startup' = [startup EXCEPT ![s] = AfterSchema(s)]
  /\ UNCHANGED <<present, marked, at, losses>>

(* The table is being made by another, which has not committed. *)
Collide(s) ==
  /\ startup[s] \in {"begin", "execute"}
  /\ Kind(at[s]) = "create" /\ Others(s, "schema")
  /\ startup' = [startup EXCEPT ![s] = "waits"]
  /\ UNCHANGED <<present, marked, at, open, losses>>

(* The other has ended: committed, or rolled back. *)
Proceed(s) ==
  /\ startup[s] = "waits"
  /\ ~Others(s, "schema")
  /\ IF at[s] \in present THEN Raise(s)
     ELSE /\ open' = [open EXCEPT ![s] = @ \cup {<<"schema", at[s]>>}]
          /\ startup' = [startup EXCEPT ![s] = AfterSchema(s)]
  /\ UNCHANGED <<present, marked, at, losses>>

(* INSERT INTO _community_migrations: filename is the primary key. *)
Insert(s) ==
  /\ startup[s] = "insert"
  /\ ~Others(s, "row")
  /\ IF at[s] \in marked THEN Raise(s)
     ELSE /\ open' = [open EXCEPT ![s] = @ \cup {<<"row", at[s]>>}]
          /\ startup' = [startup EXCEPT ![s] = "commit"]
  /\ UNCHANGED <<present, marked, at, losses>>

Commit(s) ==
  /\ startup[s] = "commit"
  /\ present' = present \cup {m \in 0 .. Len(Kinds) : <<"schema", m>> \in open[s]}
  /\ marked' = marked \cup {m \in Files : <<"row", m>> \in open[s]}
  /\ open' = [open EXCEPT ![s] = {}]
  /\ at' = [at EXCEPT ![s] = @ + 1]
  /\ startup' = [startup EXCEPT ![s] = "select"]
  /\ UNCHANGED losses

(* The loop over _discover_migrations(), in the order of the names. *)
Select(s) ==
  /\ startup[s] = "select"
  /\ IF at[s] > Len(Kinds) THEN startup' = [startup EXCEPT ![s] = "done"] /\ UNCHANGED at
     ELSE IF at[s] \in marked THEN at' = [at EXCEPT ![s] = @ + 1] /\ UNCHANGED startup
     ELSE startup' = [startup EXCEPT ![s] = "execute"] /\ UNCHANGED at
  /\ UNCHANGED <<present, marked, open, losses>>

(* The process is killed, or its connection lost: the transaction is gone. *)
Lose(s) ==
  /\ losses < MaxLosses
  /\ startup[s] \notin {"done", "raised", "killed"}
  /\ losses' = losses + 1
  /\ startup' = [startup EXCEPT ![s] = "killed"]
  /\ open' = [open EXCEPT ![s] = {}]
  /\ UNCHANGED <<present, marked, at>>

(* The product is started again. *)
Again(s) ==
  /\ startup[s] \in {"raised", "killed"}
  /\ startup' = [startup EXCEPT ![s] = "begin"]
  /\ at' = [at EXCEPT ![s] = 0]
  /\ UNCHANGED <<present, marked, open, losses>>

Startup(s) ==
  \/ Execute(s) \/ Collide(s) \/ Proceed(s) \/ Insert(s) \/ Commit(s) \/ Select(s) \/ Again(s)

Next == \E s \in Starts : Startup(s) \/ Lose(s)

Spec == Init /\ [][Next]_vars
Fairness == \A s \in Starts : WF_vars(Startup(s))

-----------------------------------------------------------------------------
(* A file is recorded exactly when its statements are committed, the files  *)
(* are recorded in their order, and two open transactions never make the    *)
(* same table: after any race of startups and any kill.                     *)
RecordedIsApplied ==
  /\ present \ {0} = marked
  /\ \A m \in marked : 0 .. m \subseteq present
  /\ \A s, t \in Starts, m \in Files :
       s # t /\ Kind(m) # "none" => <<"schema", m>> \notin open[s] \cap open[t]

(* A startup that loses a race raises, but the next one of the same product *)
(* finds what the winner committed: each comes up in the end.               *)
Completed(s) == startup[s] = "done" /\ marked = Files
EveryStartupCompletes == \A s \in Starts : <>Completed(s)
=============================================================================
