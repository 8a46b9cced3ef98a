----------------------------- MODULE Migrations -----------------------------
(***************************************************************************)
(* circuitforge_core/db/migrations.py: run_migrations() called by several  *)
(* processes on one SQLite database, each of which may be killed between   *)
(* two statements and started again.  executescript() commits every        *)
(* statement by itself.  A statement is ALTER TABLE tbl ADD COLUMN col, or *)
(* a seed: an INSERT that succeeds however often it runs.                  *)
(***************************************************************************)
EXTENDS Naturals, Sequences

CONSTANTS
  Runners,      \* processes that open the Store
  Scripts,      \* the sorted *.sql files: a sequence of sequences of statements
  Extends,      \* pairs <<c, d>>: the text of column name d begins with that of c
  MaxAttempts,  \* range(20)
  MaxCrashes    \* bound on the number of kills, per run of the model

ConstantsOK ==
  /\ Scripts \in Seq(Seq([kind : {"add", "seed"}, tbl : STRING, col : STRING]))
  /\ MaxAttempts \in Nat /\ MaxCrashes \in Nat

Add(t, c) == [kind |-> "add", tbl |-> t, col |-> c]
Seed(t)   == [kind |-> "seed", tbl |-> t, col |-> t]

VARIABLES
  columns,   \* the columns the database has: pairs <<table, column>>
  seeded,    \* per seeded table, how often its rows were inserted
  applied,   \* the _migrations table: indexes into Scripts
  pc,        \* per runner: "start", "pick", "exec", "mark", "done", "raised", "killed"
  known,     \* per runner, `applied` as read at the start
  file,      \* per runner, the migration it is at
  script,    \* per runner, the statements of the file this attempt has left to run
  source,    \* per runner, the statements of the file in the text of this attempt
  attempt,   \* per runner, 0 before recovery, then 1, 2, ...
  crashes

vars == <<columns, seeded, applied, pc, known, file, script, source, attempt, crashes>>
db == <<columns, seeded, applied>>

Statements(m) == {Scripts[m][i] : i \in DOMAIN Scripts[m]}
SeedTables == {s.tbl : s \in {x \in UNION {Statements(m) : m \in DOMAIN Scripts} : x.kind = "seed"}}

Init ==
  /\ columns = {} /\ applied = {}
  /\ seeded = [t \in SeedTables |-> 0]
  /\ pc = [r \in Runners |-> "start"]
  /\ known = [r \in Runners |-> {}]
  /\ file = [r \in Runners |-> 1]
  /\ script = [r \in Runners |-> {}]
  /\ source = [r \in Runners |-> {}]
  /\ attempt = [r \in Runners |-> 0]
  /\ crashes = 0

(* CREATE TABLE IF NOT EXISTS _migrations; SELECT name FROM _migrations. *)
Begin(r) ==
  /\ pc[r] = "start"
  /\ known' = [known EXCEPT ![r] = applied]
  /\ file' = [file EXCEPT ![r] = 1]
  /\ pc' = [pc EXCEPT ![r] = "pick"]
  /\ UNCHANGED <<db, script, source, attempt, crashes>>

(* The next file that is not in `applied`, in filename order. *)
Pick(r) ==
  /\ pc[r] = "pick"
  /\ \E m \in DOMAIN Scripts :
       /\ m \notin known[r] /\ m >= file[r]
       /\ \A n \in file[r] .. m - 1 : n \in known[r]
       /\ file' = [file EXCEPT ![r] = m]
       /\ source' = [source EXCEPT ![r] = DOMAIN Scripts[m]]
       /\ script' = [script EXCEPT ![r] = DOMAIN Scripts[m]]
  /\ attempt' = [attempt EXCEPT ![r] = 0]
  /\ pc' = [pc EXCEPT ![r] = "exec"]
  /\ UNCHANGED <<db, known, crashes>>

Finish(r) ==
  /\ pc[r] = "pick"
  /\ \A m \in DOMAIN Scripts : m \in known[r] \/ m < file[r]
  /\ pc' = [pc EXCEPT ![r] = "done"]
  /\ UNCHANGED <<db, known, file, script, source, attempt, crashes>>

Duplicate(s) == s.kind = "add" /\ <<s.tbl, s.col>> \in columns

\* Statement i of its file is the next one of runner r.
IsNext(r, i) == i \in script[r] /\ \A j \in script[r] : i <= j

(* One statement of executescript() runs and is committed. *)
Statement(r) ==
  /\ pc[r] = "exec"
  /\ \E i \in script[r] : LET s == Scripts[file[r]][i] IN
       /\ IsNext(r, i) /\ ~Duplicate(s)
       /\ IF s.kind = "add"
          THEN columns' = columns \cup {<<s.tbl, s.col>>} /\ UNCHANGED seeded
          ELSE seeded' = [seeded EXCEPT ![s.tbl] = @ + 1] /\ UNCHANGED columns
       /\ script' = [script EXCEPT ![r] = @ \ {i}]
  /\ UNCHANGED <<applied, pc, known, file, source, attempt, crashes>>

\* Mutant: removes nothing.
RemoveNothing(m, text, c) == text
(* _remove_column_add(): the pattern names the column but no table, and     *)
(* nothing ends the name, so every ADD COLUMN whose line continues the name *)
(* goes as well.                                                            *)
RemoveColumnAdd(m, text, c) ==
  {i \in text : LET s == Scripts[m][i] IN
     s.kind = "add" => s.col # c /\ <<c, s.col>> \notin Extends}

\* Mutant: a duplicate column is taken to mean the whole script ran.
HitDuplicateSwallowed(r) ==
  /\ pc[r] = "exec"
  /\ \E i \in script[r] : IsNext(r, i) /\ Duplicate(Scripts[file[r]][i])
  /\ pc' = [pc EXCEPT ![r] = "mark"]
  /\ UNCHANGED <<db, known, file, script, source, attempt, crashes>>

(* OperationalError "duplicate column name: col": the first one enters      *)
(* _run_script_with_recovery() with the whole text, the others remove.      *)
HitDuplicate(r) ==
  /\ pc[r] = "exec"
  /\ \E i \in script[r] :
       LET s == Scripts[file[r]][i]
           text == IF attempt[r] = 0 THEN source[r] ELSE RemoveColumnAdd(file[r], source[r], s.col)
       IN /\ IsNext(r, i) /\ Duplicate(s)
          /\ source' = [source EXCEPT ![r] = text]
          /\ script' = [script EXCEPT ![r] = text]
  /\ attempt' = [attempt EXCEPT ![r] = @ + 1]
  /\ pc' = [pc EXCEPT ![r] = IF attempt[r] = MaxAttempts THEN "raised" ELSE "exec"]
  /\ UNCHANGED <<db, known, file, crashes>>

ScriptDone(r) ==
  /\ pc[r] = "exec"
  /\ script[r] = {}
  /\ pc' = [pc EXCEPT ![r] = "mark"]
  /\ UNCHANGED <<db, known, file, script, source, attempt, crashes>>

(* INSERT OR IGNORE INTO _migrations. *)
Mark(r) ==
  /\ pc[r] = "mark"
  /\ applied' = applied \cup {file[r]}
  /\ file' = [file EXCEPT ![r] = @ + 1]
  /\ pc' = [pc EXCEPT ![r] = "pick"]
  /\ UNCHANGED <<columns, seeded, known, script, source, attempt, crashes>>

(* The process is killed, or an error of another kind propagates. *)
Kill(r) ==
  /\ crashes < MaxCrashes
  /\ pc[r] \in {"pick", "exec", "mark"}
  /\ crashes' = crashes + 1
  /\ pc' = [pc EXCEPT ![r] = "killed"]
  /\ UNCHANGED <<db, known, file, script, source, attempt>>

Restart(r) ==
  /\ pc[r] = "killed"
  /\ pc' = [pc EXCEPT ![r] = "start"]
  /\ UNCHANGED <<db, known, file, script, source, attempt, crashes>>

Runner(r) ==
  \/ Begin(r) \/ Pick(r) \/ Finish(r) \/ Statement(r) \/ HitDuplicate(r)
  \/ ScriptDone(r) \/ Mark(r) \/ Restart(r)

Next == \E r \in Runners : Runner(r) \/ Kill(r)

Spec == Init /\ [][Next]_vars
Fairness == \A r \in Runners : WF_vars(Runner(r))
FairSpec == Spec /\ Fairness

-----------------------------------------------------------------------------
(* No script adds columns of one name to two tables, of which a removal      *)
(* would take both.                                                         *)
NamesApart ==
  \A m \in DOMAIN Scripts : \A i, j \in DOMAIN Scripts[m] :
    LET a == Scripts[m][i]
        b == Scripts[m][j]
    IN  a.kind = "add" /\ b.kind = "add" /\ a.col = b.col => a.tbl = b.tbl

(* A migration in _migrations has all its columns in the database, after    *)
(* any crash and any race of two Store() calls.                             *)
AppliedIsComplete ==
  \A m \in applied : \A s \in Statements(m) : s.kind = "add" => <<s.tbl, s.col>> \in columns

(* Recovery is never the thing that stops a startup: no runner raises.      *)
NoRunnerRaises == \A r \in Runners : pc[r] # "raised"

(* A migration is applied only after all the migrations before it.          *)
AppliedInOrder == \A m \in applied : \A n \in 1 .. m - 1 : n \in applied

(* With a bounded number of kills every startup gets through.               *)
Completed(r) == pc[r] = "done" /\ applied = DOMAIN Scripts
EveryStartupCompletes == \A r \in Runners : <>Completed(r)

(* The module docstring: "safe to call multiple times": no seed row twice.  *)
SeedsOnce == \A t \in SeedTables : seeded[t] <= 1
=============================================================================
