---------------------------- MODULE VectorStore ----------------------------
(* The sqlite-vec store (vector/sqlite_vec.py). Clients, each with its own  *)
(* connection to one database file, upsert and delete. Every operation      *)
(* reads a row number first, in a statement of its own, and only its first  *)
(* write opens a transaction, which holds the file's write lock until it    *)
(* commits or rolls back. A row number freed by a delete is given out again *)
(* (the primary key has no AUTOINCREMENT).                                  *)
EXTENDS Naturals, FiniteSets, FiniteSetsExt

CONSTANTS Clients,
          Ids,     \* entry ids
          Vectors, \* embeddings
          Tags,    \* metadata, as far as a filter tells it apart
          MaxOps,  \* bound on the operations begun
          None

ConstantsOK == MaxOps \in Nat /\ None \notin Clients

VARIABLES meta,   \* <table>_meta: row number -> its entry id and metadata
          vecs,   \* <table>_vecs: row number -> the vector, with the id it is of
          work,   \* the two tables as the open transaction sees them, or None
          writer, \* the client that holds the write lock, or None
          pc,     \* client -> where its operation is
          op,     \* client -> its operation
          rows,   \* client -> the row numbers its SELECT returned
          ops     \* operations begun so far

vars == <<meta, vecs, work, writer, pc, op, rows, ops>>
tables == <<meta, vecs>>

Empty == << >>
Without(f, S) == [r \in DOMAIN f \ S |-> f[r]]
With(f, r, x) == [s \in DOMAIN f \cup {r} |-> IF s = r THEN x ELSE f[s]]

Operations ==
  [kind : {"upsert"}, id : Ids, vector : Vectors, tag : Tags]
    \cup [kind : {"delete"}, id : Ids]
    \cup [kind : {"deleteWhere"}, tag : Tags]

Init == /\ meta = Empty
        /\ vecs = Empty
        /\ work = None
        /\ writer = None
        /\ pc = [c \in Clients |-> "idle"]
        /\ op = [c \in Clients |-> None]
        /\ rows = [c \in Clients |-> {}]
        /\ ops = 0

Goto(c, place) == pc' = [pc EXCEPT ![c] = place]

Call(c, o) ==
  /\ pc[c] = "idle"
  /\ ops < MaxOps
  /\ op' = [op EXCEPT ![c] = o]
  /\ ops' = ops + 1
  /\ Goto(c, "select")
  /\ UNCHANGED <<tables, work, writer, rows>>

Selected(o) ==
  {r \in DOMAIN meta : IF o.kind = "deleteWhere" THEN meta[r].tag = o.tag
                       ELSE meta[r].id = o.id}

\* The SELECT: it reads what is committed, and holds no lock when it is done. A
\* delete that finds nothing has nothing to do.
Select(c) ==
  /\ pc[c] = "select"
  /\ rows' = [rows EXCEPT ![c] = Selected(op[c])]
  /\ Goto(c, IF op[c].kind # "upsert" /\ Selected(op[c]) = {} THEN "done" ELSE "first")
  /\ UNCHANGED <<tables, work, writer, op, ops>>

NewRow(m) == 1 + Max({0} \cup DOMAIN m)
Vector(o) == [of |-> o.id, vector |-> o.vector]
Entry(o) == [id |-> o.id, tag |-> o.tag]

\* The first write begins the transaction and takes the write lock. An upsert of
\* a row it found replaces the vector; an UPDATE of a row that is gone changes
\* nothing. A new entry goes to the meta table first, which gives it its row.
FirstWrite(c) ==
  /\ pc[c] = "first"
  /\ writer = None
  /\ writer' = c
  /\ \/ /\ op[c].kind = "upsert" /\ rows[c] # {}
        /\ LET r == CHOOSE r \in rows[c] : TRUE IN
             work' = [meta |-> meta,
                      vecs |-> IF r \in DOMAIN vecs
                               THEN With(vecs, r, Vector(op[c])) ELSE vecs]
        /\ UNCHANGED rows
     \/ /\ op[c].kind = "upsert" /\ rows[c] = {}
        /\ op[c].id \notin {meta[r].id : r \in DOMAIN meta}
        /\ work' = [meta |-> With(meta, NewRow(meta), Entry(op[c])), vecs |-> vecs]
        /\ rows' = [rows EXCEPT ![c] = {NewRow(meta)}]
     \/ /\ op[c].kind # "upsert"
        /\ work' = [meta |-> meta, vecs |-> Without(vecs, rows[c])]
        /\ UNCHANGED rows
  /\ Goto(c, "second")
  /\ UNCHANGED <<tables, op, ops>>

\* Mutant: an upsert of an entry that exists keeps its metadata.
SecondWriteKeepsTag(c) ==
  /\ pc[c] = "second"
  /\ \/ /\ op[c].kind = "upsert"
        /\ LET r == CHOOSE r \in rows[c] : TRUE IN
             work' = IF r \notin DOMAIN work.meta \/ r \in DOMAIN vecs THEN work
                     ELSE [work EXCEPT !.vecs = With(@, r, Vector(op[c]))]
     \/ /\ op[c].kind # "upsert"
        /\ work' = [work EXCEPT !.meta = Without(@, rows[c])]
  /\ Goto(c, "commit")
  /\ UNCHANGED <<tables, writer, op, rows, ops>>

\* The second write, to the other table.
SecondWrite(c) ==
  /\ pc[c] = "second"
  /\ \/ /\ op[c].kind = "upsert"
        /\ LET r == CHOOSE r \in rows[c] : TRUE IN
             work' = IF r \notin DOMAIN work.meta THEN work
                     ELSE IF r \in DOMAIN vecs
                     THEN [work EXCEPT !.meta[r].tag = op[c].tag]
                     ELSE [work EXCEPT !.vecs = With(@, r, Vector(op[c]))]
     \/ /\ op[c].kind # "upsert"
        /\ work' = [work EXCEPT !.meta = Without(@, rows[c])]
  /\ Goto(c, "commit")
  /\ UNCHANGED <<tables, writer, op, rows, ops>>

\* conn.commit() and conn.close().
Commit(c) ==
  /\ pc[c] = "commit"
  /\ meta' = work.meta
  /\ vecs' = work.vecs
  /\ work' = None
  /\ writer' = None
  /\ Goto(c, "done")
  /\ UNCHANGED <<op, rows, ops>>

\* A statement raises (the file is locked for too long, the id is there by now,
\* the vector has the wrong length) or the process dies: the transaction, if
\* there is one, is rolled back.
Fail(c) ==
  /\ pc[c] \in {"first", "second", "commit"}
  /\ Goto(c, "done")
  /\ IF writer = c THEN work' = None /\ writer' = None
                   ELSE UNCHANGED <<work, writer>>
  /\ UNCHANGED <<tables, op, rows, ops>>

Return(c) ==
  /\ pc[c] = "done"
  /\ Goto(c, "idle")
  /\ op' = [op EXCEPT ![c] = None]
  /\ rows' = [rows EXCEPT ![c] = {}]
  /\ UNCHANGED <<tables, work, writer, ops>>

Next == \E c \in Clients :
           \/ \E o \in Operations : Call(c, o)
           \/ Select(c) \/ FirstWrite(c) \/ SecondWrite(c) \/ Commit(c)
           \/ Fail(c) \/ Return(c)

Spec == Init /\ [][Next]_vars

\* sqlite_vec.py:37-39: the two tables describe the same rows, whatever fails
\* between the two writes of an operation, and an entry has one row.
TablesAgree ==
  /\ DOMAIN meta = DOMAIN vecs
  /\ \A r, s \in DOMAIN meta : meta[r].id = meta[s].id => r = s

\* The committed tables, read as the map the store is to its users.
RowOf(i) == CHOOSE r \in DOMAIN meta : meta[r].id = i
Stored == [i \in {meta[r].id : r \in DOMAIN meta} |->
             [vector |-> vecs[RowOf(i)].vector, tag |-> meta[RowOf(i)].tag]]

Status(c) == CASE pc[c] = "idle" -> "idle"
               [] pc[c] = "done" -> "over"
               [] OTHER -> "pending"
Map == INSTANCE VectorMap
         WITH store <- Stored, call <- op, status <- [c \in Clients |-> Status(c)]

\* base.py:23-50, for a client that has the file to itself: each of
\* its operations does to the map exactly what it promises, or nothing if it
\* raises. (With several clients it is not so: see OwnVector.)
ImplementsMap == Map!Spec

\* base.py:30: upsert replaces "a vector and its metadata", those of its entry.
\* The vector stored under an id was written by an upsert of that id.
OwnVector == \A r \in DOMAIN meta \cap DOMAIN vecs : vecs[r].of = meta[r].id

\* base.py:47: delete_where removes the vectors "whose metadata matches", and
\* not one whose metadata was replaced since.
OnlyMatchingRemoved ==
  [][\A c \in Clients : pc[c] = "commit" /\ op[c].kind = "deleteWhere" =>
       \A r \in DOMAIN meta \ DOMAIN meta' : meta[r].tag = op[c].tag]_vars
=============================================================================
