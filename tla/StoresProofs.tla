---------------------------- MODULE StoresProofs ----------------------------
(* Proofs about what is kept on disk or in a database, for the parts of      *)
(* MCStores: migrations that are recorded are in the schema, a saved         *)
(* preference is kept, the vector tables are a map, the cached vote counts   *)
(* are right, a batch of categories is published as a whole, and a reader of *)
(* the posts misses none.                                                    *)
EXTENDS MCStores, Integers, FiniteSetTheorems, SequenceTheorems, WellFoundedInduction, TLAPS

-----------------------------------------------------------------------------
(* Migrations on SQLite. What an attempt has left to run or to repeat, and   *)
(* what is not a column yet, are the same statements.                        *)
Missing(r) ==
  {i \in DOMAIN Scripts[current[r]] :
     LET s == Scripts[current[r]][i] IN s.kind = "add" /\ <<s.tbl, s.col>> \notin columns}

RunnerOK(r) ==
  /\ runnerPc[r] \in {"exec", "mark"} => current[r] \in DOMAIN Scripts
  /\ runnerPc[r] = "exec" => /\ Missing(r) \subseteq script[r] /\ Missing(r) \subseteq source[r]
                             /\ script[r] \cup source[r] \subseteq DOMAIN Scripts[current[r]]
  /\ runnerPc[r] = "mark" => Missing(r) = {}

SchemaIInv ==
  /\ DOMAIN runnerPc = Runners /\ DOMAIN current = Runners
  /\ DOMAIN script = Runners /\ DOMAIN source = Runners
  /\ \A r \in Runners : RunnerOK(r)
  /\ Schema!AppliedIsComplete

LEMMA SchemaInitOK == Schema!Init => SchemaIInv
BY DEF Schema!Init, SchemaIInv, RunnerOK, Schema!AppliedIsComplete

(* Columns only come: what is not missing of a file stays so. *)
LEMMA OtherRunners ==
  ASSUME NEW r \in Runners, NEW q \in Runners \ {r}, RunnerOK(q), columns \subseteq columns',
         runnerPc'[q] = runnerPc[q], current'[q] = current[q],
         script'[q] = script[q], source'[q] = source[q]
  PROVE  RunnerOK(q)'
BY DEF RunnerOK, Missing

LEMMA SchemaStep ==
  ASSUME Schema!NamesApart
  PROVE  SchemaIInv /\ [Schema!Next]_(Schema!vars) => SchemaIInv'
<1> SUFFICES ASSUME SchemaIInv, [Schema!Next]_(Schema!vars) PROVE SchemaIInv'
  OBVIOUS
<1>1. CASE UNCHANGED Schema!vars
  BY <1>1 DEF Schema!vars, SchemaIInv, RunnerOK, Missing, Schema!AppliedIsComplete
<1>2. ASSUME NEW r \in Runners, Schema!Runner(r) \/ Schema!Kill(r) PROVE SchemaIInv'
  <2> USE DEF SchemaIInv
  <2> USE DEF Schema!Begin, Schema!Pick, Schema!Finish, Schema!Statement, Schema!HitDuplicate,
              Schema!ScriptDone, Schema!Mark, Schema!Kill, Schema!Restart, Schema!Runner, Schema!db
  <2>1. /\ DOMAIN runnerPc' = Runners /\ DOMAIN current' = Runners
        /\ DOMAIN script' = Runners /\ DOMAIN source' = Runners
        /\ columns \subseteq columns'
    BY <1>2
  <2>2. ASSUME NEW q \in Runners \ {r} PROVE RunnerOK(q)'
    <3>1. /\ runnerPc'[q] = runnerPc[q] /\ current'[q] = current[q]
          /\ script'[q] = script[q] /\ source'[q] = source[q]
      BY <1>2
    <3> QED
      BY <2>1, <3>1, OtherRunners, SMTT(20)
  <2>3. RunnerOK(r)
    OBVIOUS
  <2>4. RunnerOK(r)'
    <3>1. CASE Schema!Begin(r) \/ Schema!Finish(r) \/ Schema!Mark(r) \/ Schema!Kill(r) \/ Schema!Restart(r)
      BY <3>1 DEF RunnerOK
    <3>2. CASE Schema!Pick(r)
      BY <3>2 DEF RunnerOK, Missing
    <3>3. CASE Schema!ScriptDone(r)
      BY <2>3, <3>3 DEF RunnerOK, Missing
    <3>4. CASE Schema!Statement(r)
      <4>1. PICK i \in script[r] :
              /\ script' = [script EXCEPT ![r] = script[r] \ {i}]
              /\ LET s == Scripts[current[r]][i]
                 IN  s.kind = "add" => columns' = columns \cup {<<s.tbl, s.col>>}
        BY <3>4
      <4>2. UNCHANGED <<runnerPc, current, source>> /\ runnerPc[r] = "exec"
        BY <3>4
      <4>3. Missing(r)' \subseteq Missing(r) \ {i}
        BY <2>1, <4>1, <4>2 DEF Missing
      <4> QED
        BY <2>3, <4>1, <4>2, <4>3 DEF RunnerOK
    <3>5. CASE Schema!HitDuplicate(r)
      <4>1. PICK i \in script[r] :
              LET s == Scripts[current[r]][i]
                  text == IF attempt[r] = 0 THEN source[r]
                          ELSE Schema!RemoveColumnAdd(current[r], source[r], s.col)
              IN /\ s.kind = "add" /\ <<s.tbl, s.col>> \in columns
                 /\ source' = [source EXCEPT ![r] = text]
                 /\ script' = [script EXCEPT ![r] = text]
        BY <3>5 DEF Schema!Duplicate
      <4>2. UNCHANGED <<columns, current>> /\ runnerPc[r] = "exec" /\ runnerPc'[r] \in {"raised", "exec"}
        BY <3>5
      <4>3. source'[r] = script'[r]
        BY <4>1
      <4>4. Missing(r)' \subseteq source'[r]
        <5>1. Missing(r)' = Missing(r) /\ Missing(r) \subseteq source[r]
          BY <2>3, <4>2 DEF Missing, RunnerOK
        <5>2. CASE attempt[r] = 0
          BY <4>1, <5>1, <5>2
        <5>3. CASE attempt[r] # 0
          <6> DEFINE s == Scripts[current[r]][i]
          <6>1. source'[r] = Schema!RemoveColumnAdd(current[r], source[r], s.col)
            BY <4>1, <5>3
          <6>2. s.kind = "add" /\ <<s.tbl, s.col>> \in columns
            BY <4>1
          <6>3. i \in DOMAIN Scripts[current[r]] /\ current[r] \in DOMAIN Scripts
            BY <2>3, <4>2 DEF RunnerOK
          <6>4. ASSUME NEW j \in Missing(r) PROVE Scripts[current[r]][j].col # s.col
            <7>1. j \in DOMAIN Scripts[current[r]]
              BY DEF Missing
            <7> QED
              BY <6>2, <6>3, <6>4, <7>1 DEF Missing, Schema!NamesApart
          <6> QED
            BY <5>1, <6>1, <6>4 DEF Schema!RemoveColumnAdd
        <5> QED
          BY <5>2, <5>3
      <4>5. source'[r] \subseteq DOMAIN Scripts[current[r]]
        BY <2>3, <4>1, <4>2 DEF Schema!RemoveColumnAdd, RunnerOK
      <4> QED
        BY <2>3, <4>2, <4>3, <4>4, <4>5 DEF RunnerOK
    <3> QED
      BY <1>2, <3>1, <3>2, <3>3, <3>4, <3>5
  <2>5. Schema!AppliedIsComplete'
    <3>1. CASE Schema!Mark(r)
      <4>1. applied' = applied \cup {current[r]} /\ UNCHANGED columns /\ Missing(r) = {}
        BY <2>3, <3>1 DEF RunnerOK
      <4>2. \A s \in Schema!Statements(current[r]) : s.kind = "add" => <<s.tbl, s.col>> \in columns
        BY <4>1 DEF Missing, Schema!Statements
      <4> QED
        BY <4>1, <4>2 DEF Schema!AppliedIsComplete
    <3>2. CASE ~Schema!Mark(r)
      <4>1. applied' = applied
        BY <1>2, <3>2
      <4> QED
        BY <2>1, <4>1, SMTT(20) DEF Schema!AppliedIsComplete
    <3> QED
      BY <3>1, <3>2
  <2> QED
    BY <2>1, <2>2, <2>4, <2>5, SMTT(20)
<1> QED
  BY <1>1, <1>2 DEF Schema!Next

(* What a runner read as applied at its start, and what it has passed since, *)
(* is applied.                                                               *)
PassedOK(r) ==
  runnerPc[r] \in {"pick", "exec", "mark"} =>
    /\ known[r] \subseteq applied
    /\ current[r] \in Nat /\ 1 .. current[r] - 1 \subseteq applied

OrderIInv ==
  /\ DOMAIN runnerPc = Runners /\ DOMAIN current = Runners /\ DOMAIN known = Runners
  /\ \A r \in Runners : PassedOK(r)
  /\ Schema!AppliedInOrder

LEMMA OrderInitOK == Schema!Init => OrderIInv
BY DEF Schema!Init, OrderIInv, PassedOK, Schema!AppliedInOrder

LEMMA OrderStep == OrderIInv /\ [Schema!Next]_(Schema!vars) => OrderIInv'
<1> SUFFICES ASSUME OrderIInv, [Schema!Next]_(Schema!vars) PROVE OrderIInv'
  OBVIOUS
<1>1. CASE UNCHANGED Schema!vars
  BY <1>1 DEF Schema!vars, OrderIInv, PassedOK, Schema!AppliedInOrder
<1>2. ASSUME NEW r \in Runners, Schema!Runner(r) \/ Schema!Kill(r) PROVE OrderIInv'
  <2> USE DEF OrderIInv
  <2> DEFINE Within == {"pick", "exec", "mark"}
             Passes == /\ UNCHANGED <<known, current, applied>>
                       /\ DOMAIN runnerPc' = Runners
                       /\ \A q \in Runners : runnerPc'[q] \in Within => runnerPc[q] \in Within
  <2>1. Schema!Begin(r) \/ Schema!Pick(r) \/ Schema!Mark(r) \/ Passes
    <3>1. CASE Schema!Finish(r) \/ Schema!Kill(r) \/ Schema!Restart(r)
      BY <3>1 DEF Schema!Finish, Schema!Kill, Schema!Restart, Schema!db
    <3>2. CASE Schema!ScriptDone(r) \/ Schema!HitDuplicate(r)
      BY <3>2 DEF Schema!ScriptDone, Schema!HitDuplicate, Schema!db
    <3>3. CASE Schema!Statement(r)
      BY <3>3 DEF Schema!Statement
    <3> QED
      BY <1>2, <3>1, <3>2, <3>3 DEF Schema!Runner
  <2> HIDE DEF Passes
  <2>2. CASE Passes
    BY <2>2 DEF Passes, PassedOK, Schema!AppliedInOrder
  <2>3. CASE Schema!Begin(r)
    BY <2>3 DEF Schema!Begin, Schema!db, PassedOK, Schema!AppliedInOrder
  <2>4. CASE Schema!Pick(r)
    <3>1. PICK m \in DOMAIN Scripts :
            /\ m >= current[r] /\ current' = [current EXCEPT ![r] = m]
            /\ \A n \in current[r] .. m - 1 : n \in known[r]
      BY <2>4 DEF Schema!Pick
    <3>2. m \in Nat
      BY StoresAssumption, LenProperties DEF Schema!ConstantsOK
    <3>3. UNCHANGED <<known, applied>> /\ runnerPc[r] = "pick" /\ runnerPc' = [runnerPc EXCEPT ![r] = "exec"]
      BY <2>4 DEF Schema!Pick, Schema!db
    <3>4. known[r] \subseteq applied /\ current[r] \in Nat /\ 1 .. current[r] - 1 \subseteq applied
      BY <3>3 DEF PassedOK
    <3>5. 1 .. m - 1 \subseteq applied
      BY <3>1, <3>2, <3>4
    <3>6. ASSUME NEW q \in Runners PROVE PassedOK(q)'
      BY <3>1, <3>2, <3>3, <3>4, <3>5 DEF PassedOK
    <3> QED
      BY <3>1, <3>3, <3>6 DEF Schema!AppliedInOrder
  <2>5. CASE Schema!Mark(r)
    <3>1. /\ UNCHANGED known /\ applied' = applied \cup {current[r]} /\ runnerPc[r] = "mark"
          /\ runnerPc' = [runnerPc EXCEPT ![r] = "pick"]
          /\ current' = [current EXCEPT ![r] = current[r] + 1]
      BY <2>5 DEF Schema!Mark
    <3>2. known[r] \subseteq applied /\ current[r] \in Nat /\ 1 .. current[r] - 1 \subseteq applied
      BY <3>1 DEF PassedOK
    <3>3. 1 .. (current[r] + 1) - 1 \subseteq applied'
      BY <3>1, <3>2
    <3>4. ASSUME NEW q \in Runners PROVE PassedOK(q)'
      BY <3>1, <3>2, <3>3 DEF PassedOK
    <3>5. Schema!AppliedInOrder'
      BY <3>1, <3>2 DEF Schema!AppliedInOrder
    <3> QED
      BY <3>1, <3>4, <3>5
  <2> QED
    BY <2>1, <2>2, <2>3, <2>4, <2>5
<1> QED
  BY <1>1, <1>2 DEF Schema!Next

-----------------------------------------------------------------------------
(* Migrations on PostgreSQL: a startup has everything before its file, and   *)
(* its open transaction has what it did of the file.                         *)
StartupOK(s) ==
  /\ startup[s] \in {"begin", "raised", "killed"} \/ \A m \in 0 .. at[s] - 1 : m \in present
  /\ startup[s] = "begin" => at[s] = 0
  /\ startup[s] \in {"insert", "execute"} => at[s] \in Shared!Files
  /\ startup[s] = "select" => at[s] # 0
  /\ startup[s] = "waits" => at[s] \in {0} \cup Shared!Files
  /\ startup[s] \notin {"insert", "commit"} => open[s] = {}
  /\ startup[s] = "insert" => \/ open[s] = {<<"schema", at[s]>>}
                              \/ open[s] = {} /\ at[s] \in present
  /\ startup[s] = "commit" =>
       \/ at[s] \in Shared!Files /\ open[s] = {<<"schema", at[s]>>, <<"row", at[s]>>}
       \/ at[s] = 0 /\ open[s] = {<<"schema", at[s]>>}
       \/ at[s] = 0 /\ open[s] = {} /\ 0 \in present

SharedTypeOK ==
  /\ present \subseteq 0 .. Len(Kinds)
  /\ DOMAIN startup = Runners
  /\ at \in [Runners -> 0 .. Len(Kinds) + 1]
  /\ DOMAIN open = Runners

SharedIInv ==
  /\ SharedTypeOK
  /\ \A s \in Runners : StartupOK(s)
  /\ Shared!RecordedIsApplied

LEMMA SharedInitOK == Shared!Init => SharedIInv
<1>1. Len(Kinds) \in Nat
  BY StoresAssumption DEF Shared!ConstantsOK
<1> QED
  BY <1>1 DEF Shared!Init, SharedIInv, SharedTypeOK, StartupOK, Shared!RecordedIsApplied, Shared!Files

LEMMA SharedStep == SharedIInv /\ [Shared!Next]_(Shared!vars) => SharedIInv'
<1> SUFFICES ASSUME SharedIInv, [Shared!Next]_(Shared!vars) PROVE SharedIInv'
  OBVIOUS
<1>0. Len(Kinds) \in Nat /\ Shared!Files = 1 .. Len(Kinds)
  BY StoresAssumption DEF Shared!ConstantsOK, Shared!Files
<1>1. CASE UNCHANGED Shared!vars
  BY <1>1 DEF Shared!vars, SharedIInv, SharedTypeOK, StartupOK, Shared!RecordedIsApplied
<1>2. ASSUME NEW r \in Runners, Shared!Startup(r) \/ Shared!Lose(r) PROVE SharedIInv'
  <2> USE <1>0
  <2> USE DEF SharedIInv, SharedTypeOK
  <2> USE DEF Shared!Startup, Shared!Execute, Shared!Collide, Shared!Proceed, Shared!Insert, Shared!Commit,
              Shared!Select, Shared!Again, Shared!Lose, Shared!Raise, Shared!AfterSchema
  <2>0. StartupOK(r) /\ at[r] \in Nat
    OBVIOUS
  <2>1. present \subseteq present'
    BY <1>2
  <2>2. SharedTypeOK'
    <3>1. DOMAIN startup' = Runners /\ DOMAIN open' = Runners /\ present' \subseteq 0 .. Len(Kinds)
      BY <1>2
    <3>2. at'[r] \in 0 .. Len(Kinds) + 1
      BY <1>2, <2>0 DEF StartupOK
    <3>3. at' = at \/ at' = [at EXCEPT ![r] = at'[r]]
      BY <1>2
    <3> QED
      BY <3>1, <3>2, <3>3
  <2>3. ASSUME NEW q \in Runners \ {r} PROVE StartupOK(q)'
    <3>1. startup'[q] = startup[q] /\ at'[q] = at[q] /\ open'[q] = open[q] /\ StartupOK(q)
      BY <1>2
    <3> QED
      BY <2>1, <3>1 DEF StartupOK
  <2>4. CASE Shared!Commit(r)
    <3>1. /\ present' = present \cup {m \in 0 .. Len(Kinds) : <<"schema", m>> \in open[r]}
          /\ marked' = marked \cup {m \in Shared!Files : <<"row", m>> \in open[r]}
          /\ open' = [open EXCEPT ![r] = {}] /\ at'[r] = at[r] + 1 /\ startup'[r] = "select"
          /\ startup[r] = "commit"
      BY <2>4
    <3>2. \A m \in 0 .. at[r] - 1 : m \in present
      BY <2>0, <3>1 DEF StartupOK
    <3>3. \/ at[r] \in Shared!Files /\ present' = present \cup {at[r]} /\ marked' = marked \cup {at[r]}
          \/ at[r] = 0 /\ present' = present \cup {0} /\ marked' = marked
      <4>1. CASE at[r] \in Shared!Files /\ open[r] = {<<"schema", at[r]>>, <<"row", at[r]>>}
        BY <3>1, <4>1
      <4>2. CASE at[r] = 0 /\ open[r] = {<<"schema", at[r]>>}
        BY <3>1, <4>2
      <4>3. CASE at[r] = 0 /\ open[r] = {} /\ 0 \in present
        BY <3>1, <4>3
      <4> QED
        BY <2>0, <3>1, <4>1, <4>2, <4>3 DEF StartupOK
    <3>4. \A m \in 0 .. at[r] : m \in present'
      BY <2>0, <3>2, <3>3
    <3>5. StartupOK(r)'
      BY <2>0, <3>1, <3>4 DEF StartupOK
    <3>6. present' \ {0} = marked'
      BY <3>3 DEF Shared!RecordedIsApplied
    <3>7. \A m \in marked' : 0 .. m \subseteq present'
      BY <2>0, <3>3, <3>4 DEF Shared!RecordedIsApplied
    <3>8. \A s \in Runners : open'[s] \subseteq open[s]
      BY <3>1
    <3> QED
      BY <2>2, <2>3, <3>5, <3>6, <3>7, <3>8 DEF Shared!RecordedIsApplied
  <2>5. CASE ~Shared!Commit(r)
    <3>1. UNCHANGED <<present, marked>>
      BY <1>2, <2>5
    <3>2. StartupOK(r)'
      <4>1. CASE Shared!Execute(r)
        BY <2>0, <3>1, <4>1 DEF StartupOK
      <4>2. CASE Shared!Collide(r)
        BY <2>0, <3>1, <4>2 DEF StartupOK
      <4>3. CASE Shared!Proceed(r)
        BY <2>0, <3>1, <4>3 DEF StartupOK
      <4>4. CASE Shared!Insert(r)
        <5>1. at[r] \in present => at[r] \in marked
          BY <2>0, <4>4 DEF StartupOK, Shared!RecordedIsApplied
        <5> QED
          BY <2>0, <3>1, <4>4, <5>1 DEF StartupOK
      <4>5. CASE Shared!Select(r)
        <5>1. at[r] \in marked => \A m \in 0 .. at[r] : m \in present
          BY DEF Shared!RecordedIsApplied
        <5> QED
          BY <2>0, <3>1, <4>5, <5>1 DEF StartupOK
      <4>6. CASE Shared!Again(r) \/ Shared!Lose(r)
        BY <2>0, <3>1, <4>6 DEF StartupOK
      <4> QED
        BY <1>2, <2>5, <4>1, <4>2, <4>3, <4>4, <4>5, <4>6
    <3>3. ASSUME NEW m \in Shared!Files, Shared!Kind(m) # "none", NEW s \in Runners, NEW t \in Runners, s # t
          PROVE  <<"schema", m>> \notin open'[s] \cap open'[t]
      <4>1. <<"schema", m>> \in open'[r] /\ <<"schema", m>> \notin open[r] =>
              \A q \in Runners \ {r} : <<"schema", m>> \notin open[q]
        <5>1. CASE Shared!Execute(r) \/ Shared!Proceed(r)
          <6>1. open' = open \/ open' = [open EXCEPT ![r] = {}]
                \/ /\ open' = [open EXCEPT ![r] = open[r] \cup {<<"schema", at[r]>>}]
                   /\ Shared!Kind(at[r]) # "none" => ~Shared!Others(r, "schema")
            BY <5>1
          <6>2. <<"schema", m>> \in open'[r] /\ <<"schema", m>> \notin open[r] =>
                  m = at[r] /\ ~Shared!Others(r, "schema")
            BY <3>3, <6>1
          <6> QED
            BY <6>2 DEF Shared!Others
        <5>2. CASE ~(Shared!Execute(r) \/ Shared!Proceed(r))
          BY <1>2, <2>5, <5>2
        <5> QED
          BY <5>1, <5>2
      <4>2. \A q \in Runners \ {r} : open'[q] = open[q]
        BY <1>2
      <4>3. <<"schema", m>> \notin open[s] \cap open[t]
        BY <3>3 DEF Shared!RecordedIsApplied
      <4> QED
        BY <3>3, <4>1, <4>2, <4>3
    <3> QED
      BY <2>2, <2>3, <3>1, <3>2, <3>3 DEF Shared!RecordedIsApplied
  <2> QED
    BY <2>4, <2>5
<1> QED
  BY <1>1, <1>2 DEF Shared!Next

(* run_migrations() and CommunityDB.run_migrations(): whatever starts at once *)
(* and whatever is killed, what is recorded as applied is in the database,    *)
(* and what precedes it.                                                      *)
THEOREM RecordedMeansApplied ==
  ASSUME Schema!NamesApart
  PROVE  Schema!Spec /\ Shared!Spec => []AppliedIsComplete
<1>1. SchemaIInv /\ OrderIInv /\ SharedIInv => AppliedIsComplete
  BY DEF SchemaIInv, OrderIInv, SharedIInv, AppliedIsComplete
<1>2. SchemaIInv /\ [Schema!Next]_(Schema!vars) => SchemaIInv'
  BY SchemaStep
<1> QED
  BY <1>1, <1>2, SchemaInitOK, OrderInitOK, OrderStep, SharedInitOK, SharedStep, PTL DEF Schema!Spec, Shared!Spec

-----------------------------------------------------------------------------
(* Recipe tags: a tag is counted as often as it has voters, and what an open *)
(* transaction is about to commit is not there yet.                          *)
Voters(id) == {p \in Pseudonyms : <<id, p>> \in votes}

TagRows == [id : Nat, place : Places \cup {NoSub}, by : Pseudonyms, upvotes : Nat]
RecipeTypeOK ==
  /\ nextId \in Nat \ {0}
  /\ votes \subseteq Nat \X Pseudonyms
  /\ tags \subseteq TagRows
  /\ DOMAIN pc = Threads
  /\ DOMAIN call = Threads

\* The transactions that have written a vote, as (id, pseudonym), or a new tag.
Submitting(t) == pc[t] \in {"selfVote", "commit"} /\ call[t].op = "submit"
Voting(t) == pc[t] \in {"bump", "commit"} /\ call[t].op = "upvote"

CallOK(t) ==
  /\ pc[t] \in {"submit", "selfVote"} => call[t].op = "submit"
  /\ pc[t] \in {"upvote", "bump"} => call[t].op = "upvote"
  /\ pc[t] \in {"submit", "selfVote", "upvote", "bump", "commit"} => call[t].who \in Pseudonyms
  /\ pc[t] = "commit" => call[t].op \in {"submit", "upvote"}
  /\ pc[t] = "upvote" => call[t].id \in Nat
  /\ pc[t] = "submit" =>
       call[t] \in [op : {"submit"}, who : Pseudonyms, place : Places \cup {NoSub}, id : {0}]
  /\ Submitting(t) => call[t].place \in Places \cup {NoSub}
  /\ Submitting(t) => /\ call[t].id \in Nat /\ call[t].id < nextId
                      /\ ~Recipes!Exists(call[t].id)
  /\ Voting(t) => Recipes!Exists(call[t].id) /\ <<call[t].id, call[t].who>> \notin votes

Apart(s, t) ==
  /\ Submitting(s) /\ Submitting(t) => call[s].id # call[t].id
  /\ Voting(s) /\ Voting(t) => call[s].id # call[t].id \/ call[s].who # call[t].who

RecipeIInv ==
  /\ RecipeTypeOK
  /\ \A a, b \in tags : a.id = b.id => a = b
  /\ \A tag \in tags : tag.id < nextId
  /\ \A v \in votes : Recipes!Exists(v[1])
  /\ \A t \in Threads : CallOK(t)
  /\ \A s, t \in Threads : s # t => Apart(s, t)
  /\ \A tag \in tags : IsFiniteSet(Voters(tag.id)) /\ tag.upvotes = Cardinality(Voters(tag.id))

LEMMA RecipeInitOK == Recipes!Init => RecipeIInv
BY DEF Recipes!Init, RecipeIInv, RecipeTypeOK, CallOK, Apart, Submitting, Voting

(* A step of t that commits nothing. *)
LEMMA RecipeQuiet ==
  ASSUME RecipeIInv, NEW t \in Threads,
         UNCHANGED <<tags, votes>>, nextId' \in Nat \ {0}, nextId' >= nextId,
         DOMAIN pc' = Threads, DOMAIN call' = Threads,
         \A s \in Threads \ {t} : pc'[s] = pc[s] /\ call'[s] = call[s],
         CallOK(t)',
         \A s \in Threads \ {t} : Apart(s, t)' /\ Apart(t, s)'
  PROVE  RecipeIInv'
<1>1. RecipeTypeOK'
  BY DEF RecipeIInv, RecipeTypeOK
<1>2. \A s \in Threads \ {t} : CallOK(s)'
  BY DEF RecipeIInv, RecipeTypeOK, CallOK, Submitting, Voting, Recipes!Exists
<1>3. \A r, s \in Threads \ {t} : r # s => Apart(r, s)'
  BY DEF RecipeIInv, Apart, Submitting, Voting
<1>4. \A tag \in tags' : tag.id < nextId'
  BY DEF RecipeIInv, RecipeTypeOK, TagRows
<1>5. \A tag \in tags' : IsFiniteSet(Voters(tag.id)') /\ tag.upvotes = Cardinality(Voters(tag.id)')
  BY DEF RecipeIInv, Voters
<1>6. \A a, b \in tags' : a.id = b.id => a = b
  BY DEF RecipeIInv
<1>7. \A v \in votes' : Recipes!Exists(v[1])'
  BY DEF RecipeIInv, Recipes!Exists
<1> QED
  BY <1>1, <1>2, <1>3, <1>4, <1>5, <1>6, <1>7 DEF RecipeIInv, Voters

(* conn.commit() of submit_recipe_tag(): the tag is new, and so has one voter. *)
LEMMA RecipeSubmit ==
  ASSUME RecipeIInv, NEW t \in Threads, Recipes!Commit(t), call[t].op = "submit"
  PROVE  RecipeIInv'
<1> DEFINE id == call[t].id
           who == call[t].who
           new == [id |-> id, place |-> call[t].place, by |-> who, upvotes |-> 1]
<1>1. /\ tags' = tags \cup {new} /\ votes' = votes \cup {<<id, who>>}
      /\ pc' = [pc EXCEPT ![t] = "put"] /\ UNCHANGED <<nextId, call>>
      /\ pc[t] = "commit"
  BY DEF Recipes!Commit, Recipes!Go
<1>2. /\ id \in Nat /\ id < nextId /\ who \in Pseudonyms
      /\ \A tag \in tags : tag.id # id
      /\ \A p \in Pseudonyms : <<id, p>> \notin votes
  <2>1. CallOK(t) /\ Submitting(t)
    BY <1>1 DEF RecipeIInv, Submitting
  <2>2. \A tag \in tags : tag.id # id
    BY <2>1 DEF CallOK, Recipes!Exists
  <2>3. ASSUME NEW p \in Pseudonyms, <<id, p>> \in votes PROVE FALSE
    <3>1. Recipes!Exists(<<id, p>>[1])
      BY <2>3 DEF RecipeIInv
    <3> QED
      BY <2>2, <3>1 DEF Recipes!Exists
  <2> QED
    BY <1>1, <2>1, <2>2, <2>3 DEF CallOK
<1>3. Voters(id)' = {who} /\ \A tag \in tags : Voters(tag.id)' = Voters(tag.id)
  BY <1>1, <1>2 DEF Voters
<1>4. IsFiniteSet({who}) /\ Cardinality({who}) = 1
  BY FS_Singleton
<1>5. new.id = id /\ new.upvotes = 1 /\ new \in TagRows
  <2>1. call[t].place \in Places \cup {NoSub}
    BY <1>1 DEF RecipeIInv, CallOK, Submitting
  <2> QED
    BY <1>2, <2>1 DEF TagRows
<1>6. \A a \in tags' : a \in tags \/ a = new
  BY <1>1
<1> HIDE DEF new
<1>7. RecipeTypeOK'
  BY <1>1, <1>2, <1>5, <1>6 DEF RecipeIInv, RecipeTypeOK
<1>8. \A a, b \in tags' : a.id = b.id => a = b
  BY <1>2, <1>5, <1>6 DEF RecipeIInv
<1>9. \A tag \in tags' : tag.id < nextId'
  BY <1>1, <1>2, <1>5, <1>6 DEF RecipeIInv
<1>10. \A v \in votes' : Recipes!Exists(v[1])'
  <2>1. ASSUME NEW v \in votes PROVE Recipes!Exists(v[1])'
    BY <1>1 DEF RecipeIInv, Recipes!Exists
  <2>2. Recipes!Exists(<<id, who>>[1])'
    BY <1>1, <1>5 DEF Recipes!Exists
  <2> QED
    BY <1>1, <2>1, <2>2
<1>11. \A tag \in tags' : IsFiniteSet(Voters(tag.id)') /\ tag.upvotes = Cardinality(Voters(tag.id)')
  <2> TAKE tag \in tags'
  <2>1. CASE tag \in tags
    <3>1. Voters(tag.id)' = Voters(tag.id)
      BY <1>3, <2>1
    <3> QED
      BY <2>1, <3>1 DEF RecipeIInv
  <2>2. CASE tag = new
    <3>1. tag.id = id /\ tag.upvotes = 1
      BY <1>5, <2>2
    <3>2. Voters(tag.id)' = {who}
      BY <1>1, <1>2, <3>1 DEF Voters
    <3> QED
      BY <1>4, <3>1, <3>2
  <2> QED
    BY <1>6, <2>1, <2>2
<1>12. \A s \in Threads : CallOK(s)'
  <2>1. CallOK(t)'
    BY <1>1 DEF RecipeIInv, RecipeTypeOK, CallOK, Submitting, Voting
  <2>2. ASSUME NEW s \in Threads \ {t} PROVE CallOK(s)'
    <3>1. pc'[s] = pc[s] /\ call'[s] = call[s] /\ CallOK(s)
      BY <1>1 DEF RecipeIInv
    <3>2. Submitting(s) => call[s].id # id
      BY <1>1 DEF RecipeIInv, Apart, Submitting
    <3>3. Voting(s) => Recipes!Exists(call[s].id)' /\ <<call[s].id, call[s].who>> \notin votes'
      BY <1>1, <1>2, <3>1 DEF CallOK, Recipes!Exists
    <3>4. Submitting(s) => ~Recipes!Exists(call[s].id)'
      BY <1>5, <1>6, <3>1, <3>2 DEF CallOK, Recipes!Exists
    <3> QED
      BY <1>1, <3>1, <3>3, <3>4 DEF CallOK, Submitting, Voting
  <2> QED
    BY <2>1, <2>2
<1>13. \A r, s \in Threads : r # s => Apart(r, s)'
  <2>1. \A s \in Threads : (Submitting(s)' => Submitting(s)) /\ (Voting(s)' => Voting(s))
    BY <1>1 DEF RecipeIInv, RecipeTypeOK, Submitting, Voting
  <2> QED
    BY <1>1, <2>1 DEF RecipeIInv, Apart
<1> QED
  BY <1>7, <1>8, <1>9, <1>10, <1>11, <1>12, <1>13 DEF RecipeIInv, Voters

(* conn.commit() of upvote_recipe_tag(): one more vote, and one voter more. *)
LEMMA RecipeUpvote ==
  ASSUME RecipeIInv, NEW t \in Threads, Recipes!Commit(t), call[t].op = "upvote"
  PROVE  RecipeIInv'
<1> DEFINE id == call[t].id
           who == call[t].who
           up(tag) == [tag EXCEPT !.upvotes = tag.upvotes + 1]
<1>1. /\ tags' = {IF tag.id = id THEN up(tag) ELSE tag : tag \in tags}
      /\ votes' = votes \cup {<<id, who>>}
      /\ pc' = [pc EXCEPT ![t] = "put"] /\ UNCHANGED <<nextId, call>>
      /\ pc[t] = "commit"
  BY DEF Recipes!Commit, Recipes!Go, Recipes!Increment
<1>2. who \in Pseudonyms /\ <<id, who>> \notin votes /\ \E tag \in tags : tag.id = id
  <2>1. CallOK(t) /\ Voting(t)
    BY <1>1 DEF RecipeIInv, Voting
  <2> QED
    BY <1>1, <2>1 DEF CallOK, Recipes!Exists
<1>3. \A tag \in tags : /\ up(tag) \in TagRows /\ up(tag).id = tag.id
                        /\ up(tag).upvotes = tag.upvotes + 1
  BY DEF RecipeIInv, RecipeTypeOK, TagRows
<1> HIDE DEF up
<1>4. /\ \A a \in tags' : \E tag \in tags : a = IF tag.id = id THEN up(tag) ELSE tag
      /\ \A tag \in tags : \E a \in tags' : a.id = tag.id
  <2>1. \A tag \in tags : (IF tag.id = id THEN up(tag) ELSE tag).id = tag.id
    BY <1>3
  <2> QED
    BY <1>1, <2>1
<1>5. RecipeTypeOK'
  <2>1. id \in Nat
    BY <1>2 DEF RecipeIInv, RecipeTypeOK, TagRows
  <2>2. tags' \subseteq TagRows
    BY <1>3, <1>4 DEF RecipeIInv, RecipeTypeOK
  <2> QED
    BY <1>1, <1>2, <2>1, <2>2 DEF RecipeIInv, RecipeTypeOK
<1>6. \A a, b \in tags' : a.id = b.id => a = b
  <2> TAKE a, b \in tags'
  <2>1. PICK k, l \in tags : /\ a = (IF k.id = id THEN up(k) ELSE k)
                             /\ b = (IF l.id = id THEN up(l) ELSE l)
    BY <1>4
  <2>2. a.id = k.id /\ b.id = l.id
    BY <1>3, <2>1
  <2> QED
    BY <2>1, <2>2 DEF RecipeIInv
<1>7. \A tag \in tags' : tag.id < nextId'
  BY <1>1, <1>3, <1>4 DEF RecipeIInv
<1>8. \A i : Recipes!Exists(i)' <=> Recipes!Exists(i)
  BY <1>3, <1>4 DEF Recipes!Exists
<1>9. \A v \in votes' : Recipes!Exists(v[1])'
  <2>1. Recipes!Exists(<<id, who>>[1])
    BY <1>2 DEF Recipes!Exists
  <2> QED
    BY <1>1, <1>8, <2>1 DEF RecipeIInv
<1>10. \A a \in tags' : IsFiniteSet(Voters(a.id)') /\ a.upvotes = Cardinality(Voters(a.id)')
  <2> TAKE a \in tags'
  <2>1. PICK tag \in tags : a = IF tag.id = id THEN up(tag) ELSE tag
    BY <1>4
  <2>2. IsFiniteSet(Voters(tag.id)) /\ tag.upvotes = Cardinality(Voters(tag.id)) /\ tag.upvotes \in Nat
    BY DEF RecipeIInv, RecipeTypeOK, TagRows
  <2>3. CASE tag.id = id
    <3>1. a.id = id /\ a.upvotes = tag.upvotes + 1
      BY <1>3, <2>1, <2>3
    <3>2. Voters(a.id)' = Voters(tag.id) \cup {who} /\ who \notin Voters(tag.id)
      BY <1>1, <1>2, <2>3, <3>1 DEF Voters
    <3>3. /\ IsFiniteSet(Voters(tag.id) \cup {who})
          /\ Cardinality(Voters(tag.id) \cup {who}) = Cardinality(Voters(tag.id)) + 1
      BY <2>2, <3>2, FS_AddElement
    <3> QED
      BY <2>2, <3>1, <3>2, <3>3
  <2>4. CASE tag.id # id
    <3>1. a = tag /\ Voters(tag.id)' = Voters(tag.id)
      BY <1>1, <2>1, <2>4 DEF Voters
    <3> QED
      BY <2>2, <3>1
  <2> QED
    BY <2>3, <2>4
<1>11. \A s \in Threads : CallOK(s)'
  <2>1. CallOK(t)'
    BY <1>1 DEF RecipeIInv, RecipeTypeOK, CallOK, Submitting, Voting
  <2>2. ASSUME NEW s \in Threads \ {t} PROVE CallOK(s)'
    <3>1. pc'[s] = pc[s] /\ call'[s] = call[s] /\ CallOK(s)
      BY <1>1 DEF RecipeIInv
    <3>2. Voting(s) => <<call[s].id, call[s].who>> # <<id, who>>
      BY <1>1 DEF RecipeIInv, Apart, Voting
    <3> QED
      BY <1>1, <1>8, <3>1, <3>2 DEF CallOK, Submitting, Voting
  <2> QED
    BY <2>1, <2>2
<1>12. \A r, s \in Threads : r # s => Apart(r, s)'
  <2>1. \A s \in Threads : (Submitting(s)' => Submitting(s)) /\ (Voting(s)' => Voting(s))
    BY <1>1 DEF RecipeIInv, RecipeTypeOK, Submitting, Voting
  <2> QED
    BY <1>1, <2>1 DEF RecipeIInv, Apart
<1> QED
  BY <1>5, <1>6, <1>7, <1>9, <1>10, <1>11, <1>12 DEF RecipeIInv, Voters

LEMMA RecipeStep == RecipeIInv /\ [Recipes!Next]_(Recipes!vars) => RecipeIInv'
<1> SUFFICES ASSUME RecipeIInv, [Recipes!Next]_(Recipes!vars) PROVE RecipeIInv'
  OBVIOUS
<1>1. CASE UNCHANGED Recipes!vars
  BY <1>1 DEF Recipes!vars, RecipeIInv, RecipeTypeOK, CallOK, Apart, Submitting, Voting, Voters, Recipes!Exists
<1>2. ASSUME NEW t \in Threads, Recipes!Commit(t) PROVE RecipeIInv'
  <2>1. call[t].op \in {"submit", "upvote"}
    BY <1>2 DEF Recipes!Commit
  <2> QED
    BY <1>2, <2>1, RecipeSubmit, RecipeUpvote
<1>3. ASSUME NEW t \in Threads,
             \/ Recipes!GetConn(t) \/ Recipes!InsertTag(t) \/ Recipes!SelfVote(t) \/ Recipes!InsertVote(t)
             \/ Recipes!Bump(t) \/ Recipes!Fail(t) \/ Recipes!Rollback(t) \/ Recipes!PutConn(t)
             \/ Recipes!Return(t)
      PROVE  RecipeIInv'
  <2> USE DEF Recipes!Go, Recipes!Raise
  <2>1. /\ CallOK(t) /\ DOMAIN pc = Threads /\ DOMAIN call = Threads /\ nextId \in Nat \ {0}
        /\ \A tag \in tags : tag.id \in Nat /\ tag.id < nextId
        /\ \A s \in Threads \ {t} : CallOK(s) /\ Apart(s, t) /\ Apart(t, s)
    BY DEF RecipeIInv, RecipeTypeOK, TagRows
  <2>2. UNCHANGED <<tags, votes>>
    BY <1>3 DEF Recipes!GetConn, Recipes!InsertTag, Recipes!SelfVote, Recipes!InsertVote, Recipes!Bump,
       Recipes!Fail, Recipes!Rollback, Recipes!PutConn, Recipes!Return
  <2>3. nextId' \in Nat \ {0} /\ nextId' >= nextId
    BY <1>3, <2>1 DEF Recipes!GetConn, Recipes!InsertTag, Recipes!SelfVote, Recipes!InsertVote, Recipes!Bump,
       Recipes!Fail, Recipes!Rollback, Recipes!PutConn, Recipes!Return
  <2>4. /\ DOMAIN pc' = Threads /\ DOMAIN call' = Threads
        /\ \A s \in Threads \ {t} : pc'[s] = pc[s] /\ call'[s] = call[s]
    BY <1>3, <2>1 DEF Recipes!GetConn, Recipes!InsertTag, Recipes!SelfVote, Recipes!InsertVote, Recipes!Bump,
       Recipes!Fail, Recipes!Rollback, Recipes!PutConn, Recipes!Return
  <2>5. CallOK(t)' /\ \A s \in Threads \ {t} : Apart(s, t)' /\ Apart(t, s)'
    <3> USE <2>1, <2>2, <2>4
    <3>1. CASE Recipes!GetConn(t)
      <4>1. \/ call'[t] \in [op : {"submit"}, who : Pseudonyms, place : Places \cup {NoSub}, id : {0}]
            \/ call'[t] \in [op : {"upvote"}, who : Pseudonyms, place : {NoSub}, id : Recipes!TagIds]
        <5>1. PICK who \in Pseudonyms :
                \/ \E place \in Places \cup {NoSub} :
                     call' = [call EXCEPT ![t] = [op |-> "submit", who |-> who, place |-> place, id |-> 0]]
                \/ \E id \in Recipes!TagIds :
                     call' = [call EXCEPT ![t] = [op |-> "upvote", who |-> who, place |-> NoSub, id |-> id]]
          BY <3>1 DEF Recipes!GetConn
        <5> QED
          BY <5>1
      <4>2. pc'[t] = call'[t].op \/ pc'[t] = "done"
        BY <3>1 DEF Recipes!GetConn
      <4> QED
        BY <4>1, <4>2, StoresAssumption
           DEF CallOK, Apart, Submitting, Voting, Recipes!TagIds, Recipes!ConstantsOK
    <3>2. CASE Recipes!InsertTag(t)
      <4>1. pc[t] = "submit" /\ nextId' = nextId + 1
        BY <3>2 DEF Recipes!InsertTag
      <4>2. CASE pc'[t] = "selfVote" /\ call' = [call EXCEPT ![t].id = nextId]
        <5>1. /\ call'[t].id = nextId
              /\ call'[t].op = "submit" /\ call'[t].who \in Pseudonyms
              /\ call'[t].place \in Places \cup {NoSub}
          BY <4>1, <4>2 DEF CallOK
        <5>2. ~Recipes!Exists(call[t].id)'
          BY <5>1 DEF Recipes!Exists
        <5>3. CallOK(t)'
          BY <4>1, <4>2, <5>1, <5>2 DEF CallOK, Submitting, Voting
        <5>4. ASSUME NEW s \in Threads \ {t} PROVE Apart(s, t)' /\ Apart(t, s)'
          <6>1. Submitting(s)' => call'[s].id \in Nat /\ call'[s].id < nextId
            BY DEF CallOK, Submitting
          <6>2. ~Voting(t)'
            BY <4>2 DEF Voting
          <6> QED
            BY <5>1, <6>1, <6>2 DEF Apart
        <5> QED
          BY <5>3, <5>4
      <4>3. CASE pc'[t] = "rollback" /\ UNCHANGED call
        BY <4>3 DEF CallOK, Apart, Submitting, Voting
      <4> QED
        BY <3>2, <4>2, <4>3 DEF Recipes!InsertTag
    <3>3. CASE Recipes!InsertVote(t)
      BY <3>3 DEF Recipes!InsertVote, Recipes!VotePending, CallOK, Apart, Submitting, Voting, Recipes!Exists
    <3>4. CASE Recipes!SelfVote(t) \/ Recipes!Bump(t)
      <4>1. /\ pc[t] = "selfVote" \/ pc[t] = "bump"
            /\ pc'[t] = "commit" /\ UNCHANGED <<call, nextId>>
        BY <3>4 DEF Recipes!SelfVote, Recipes!Bump
      <4>2. /\ Submitting(t)' => Submitting(t)
            /\ Voting(t)' => Voting(t)
        BY <4>1 DEF CallOK, Submitting, Voting
      <4>3. CallOK(t)'
        BY <4>1, <4>2 DEF CallOK, Submitting, Voting, Recipes!Exists
      <4>4. \A s \in Threads \ {t} : (Submitting(s)' => Submitting(s)) /\ (Voting(s)' => Voting(s))
        BY DEF Submitting, Voting
      <4> QED
        BY <4>1, <4>2, <4>3, <4>4 DEF Apart
    <3>5. CASE Recipes!Fail(t) \/ Recipes!Rollback(t) \/ Recipes!PutConn(t) \/ Recipes!Return(t)
      BY <3>5 DEF Recipes!Fail, Recipes!Rollback, Recipes!PutConn, Recipes!Return, CallOK, Apart, Submitting, Voting
    <3> QED
      BY <1>3, <3>1, <3>2, <3>3, <3>4, <3>5
  <2> QED
    BY <2>2, <2>3, <2>4, <2>5, RecipeQuiet
<1> QED
  BY <1>1, <1>2, <1>3 DEF Recipes!Next

LEMMA RecipeCardinality == \A S : Recipes!Cardinality(S) = Cardinality(S)
BY DEF Recipes!Cardinality, Cardinality

(* store.py's two statements of a vote are one transaction, and its rows are *)
(* unique: a tag's count is the number of its voters, however calls overlap. *)
THEOREM CountsAreVotes == Recipes!Spec => []CountIsVotes
<1>1. RecipeIInv => CountIsVotes
  BY RecipeCardinality DEF RecipeIInv, Voters, CountIsVotes, Recipes!CountIsVotes
<1> QED
  BY <1>1, RecipeInitOK, RecipeStep, PTL DEF Recipes!Spec

-----------------------------------------------------------------------------
(* Preferences: what a set() is about to rename into place has every value   *)
(* that another set() has saved. This needs that there is one writer: two    *)
(* would load the same file.                                                 *)
Values == [Paths -> Nat]

PrefsTypeOK ==
  /\ file \in Prefs!Inodes /\ tmp \in Prefs!Inodes \cup {0}
  /\ content \in [Prefs!Inodes -> Values]
  /\ writerPc \in [Writers -> {"idle", "save", "write", "rename"}]
  /\ fd \in [Writers -> Prefs!Inodes \cup {0}]
  /\ data \in [Writers -> Values]
  /\ path \in [Writers -> Paths]
  /\ saved \in Values

WriterOK(w) ==
  /\ writerPc[w] # "idle" => \A p \in Paths : data[w][p] >= saved[p]
  /\ fd[w] # 0 => writerPc[w] = "write"
  /\ writerPc[w] = "write" => fd[w] = tmp /\ tmp # 0
  /\ writerPc[w] = "rename" => tmp # 0 /\ content[tmp] = data[w]

PrefsIInv ==
  /\ PrefsTypeOK
  /\ tmp # file
  /\ \A w \in Writers : WriterOK(w)
  /\ SavedIsKept

LEMMA InodesOK == 1 \in Prefs!Inodes /\ 2 \in Prefs!Inodes /\ 0 \notin Prefs!Inodes
<1>1. \A S : Prefs!Cardinality(S) = Cardinality(S) /\ Prefs!IsFiniteSet(S) = IsFiniteSet(S)
  BY DEF Prefs!Cardinality, Cardinality, Prefs!IsFiniteSet, IsFiniteSet
<1>2. Cardinality(Writers) \in Nat
  BY <1>1, StoresAssumption, FS_CardinalityType DEF Prefs!ConstantsOK
<1> QED
  BY <1>1, <1>2 DEF Prefs!Inodes

LEMMA PrefsInitOK == Prefs!Init => PrefsIInv
BY InodesOK DEF Prefs!Init, PrefsIInv, PrefsTypeOK, WriterOK, SavedIsKept, Prefs!SavedIsKept,
   Prefs!NoFile, Prefs!Unset, Values

LEMMA PrefsStep ==
  ASSUME \A v, w \in Writers : v = w
  PROVE  PrefsIInv /\ [Prefs!Next]_(Prefs!vars) => PrefsIInv'
<1> SUFFICES ASSUME PrefsIInv, [Prefs!Next]_(Prefs!vars) PROVE PrefsIInv'
  OBVIOUS
<1> USE InodesOK
<1> USE DEF PrefsIInv, PrefsTypeOK, WriterOK, SavedIsKept, Prefs!SavedIsKept, Prefs!NoFile, Values
<1>1. ASSUME NEW w \in Writers, Prefs!Load(w) PROVE PrefsIInv'
  <2>1. PICK p \in Paths : /\ data' = [data EXCEPT ![w] = [content[file] EXCEPT ![p] = 1 + saved[p]]]
                           /\ path' = [path EXCEPT ![w] = p]
    BY <1>1 DEF Prefs!Load, Prefs!Fresh
  <2>2. writerPc' = [writerPc EXCEPT ![w] = "save"] /\ UNCHANGED <<file, tmp, content, fd, saved>>
        /\ writerPc[w] = "idle"
    BY <1>1 DEF Prefs!Load
  <2>3. content[file] \in Values
    OBVIOUS
  <2>4. /\ data'[w] \in Values
        /\ \A q \in Paths : data'[w][q] >= saved[q]
    BY <2>1, <2>3
  <2>5. data' \in [Writers -> Values] /\ path' \in [Writers -> Paths]
        /\ writerPc' \in [Writers -> {"idle", "save", "write", "rename"}]
    BY <2>1, <2>2, <2>4
  <2>6. WriterOK(w)'
    BY <2>2, <2>4
  <2> QED
    BY <2>2, <2>5, <2>6
<1>2. ASSUME NEW w \in Writers, Prefs!Truncate(w) PROVE PrefsIInv'
  <2>1. /\ writerPc[w] = "save" /\ UNCHANGED <<file, data, path, saved>>
        /\ tmp' = IF tmp # 0 THEN tmp ELSE CHOOSE i \in Prefs!Inodes : i # file /\ \A v \in Writers : fd[v] # i
        /\ content' = [content EXCEPT ![tmp'] = Prefs!Unset]
        /\ fd' = [fd EXCEPT ![w] = tmp']
        /\ writerPc' = [writerPc EXCEPT ![w] = "write"]
    BY <1>2 DEF Prefs!Truncate
  <2>2. \E i \in Prefs!Inodes : i # file /\ \A v \in Writers : fd[v] # i
    <3>1. \A v \in Writers : fd[v] = 0
      BY <2>1
    <3>2. \E i \in {1, 2} : i # file
      OBVIOUS
    <3> QED
      BY <3>1, <3>2
  <2>3. tmp' \in Prefs!Inodes /\ tmp' # file
    BY <2>1, <2>2
  <2>4. Prefs!Unset \in Values
    BY DEF Prefs!Unset
  <2>5. content' \in [Prefs!Inodes -> Values] /\ content'[file] = content[file]
    BY <2>1, <2>3, <2>4
  <2>6. fd' \in [Writers -> Prefs!Inodes \cup {0}] /\ writerPc' \in [Writers -> {"idle", "save", "write", "rename"}]
    BY <2>1, <2>3
  <2>7. WriterOK(w)'
    BY <2>1, <2>3
  <2> QED
    BY <2>1, <2>3, <2>5, <2>6, <2>7
<1>3. ASSUME NEW w \in Writers, Prefs!Write(w) PROVE PrefsIInv'
  <2>1. /\ writerPc[w] = "write" /\ UNCHANGED <<file, tmp, data, path, saved>>
        /\ content' = [content EXCEPT ![fd[w]] = data[w]]
        /\ fd' = [fd EXCEPT ![w] = 0]
        /\ writerPc' = [writerPc EXCEPT ![w] = "rename"]
    BY <1>3 DEF Prefs!Write
  <2>2. fd[w] = tmp /\ tmp \in Prefs!Inodes /\ tmp # file
    BY <2>1
  <2>3. content' \in [Prefs!Inodes -> Values] /\ content'[file] = content[file] /\ content'[tmp] = data[w]
    BY <2>1, <2>2
  <2>4. fd' \in [Writers -> Prefs!Inodes \cup {0}] /\ writerPc' \in [Writers -> {"idle", "save", "write", "rename"}]
    BY <2>1
  <2>5. WriterOK(w)'
    BY <2>1, <2>2, <2>3
  <2> QED
    BY <2>1, <2>2, <2>3, <2>4, <2>5
<1>4. ASSUME NEW w \in Writers, Prefs!Rename(w) PROVE PrefsIInv'
  <2>1. /\ writerPc[w] = "rename" /\ tmp # 0 /\ file' = tmp /\ tmp' = 0
        /\ saved' = [saved EXCEPT ![path[w]] = data[w][path[w]]]
        /\ writerPc' = [writerPc EXCEPT ![w] = "idle"]
        /\ UNCHANGED <<content, fd, data, path>>
    BY <1>4 DEF Prefs!Rename
  <2>2. content[tmp] = data[w] /\ data[w] \in Values /\ path[w] \in Paths
    BY <2>1
  <2>3. saved' \in Values /\ \A p \in Paths : data[w][p] >= saved'[p]
    BY <2>1, <2>2, SMTT(20)
  <2>4. WriterOK(w)' /\ writerPc' \in [Writers -> {"idle", "save", "write", "rename"}]
    BY <2>1
  <2> QED
    BY <2>1, <2>2, <2>3, <2>4
<1>5. CASE (\E p \in Paths : Prefs!Get(p)) \/ UNCHANGED Prefs!vars
  <2>1. UNCHANGED <<file, tmp, content, writerPc, fd, data, path, saved>>
    BY <1>5 DEF Prefs!Get, Prefs!vars
  <2> QED
    BY <2>1
<1>6. CASE Prefs!Crash
  <2>1. /\ writerPc' = [w \in Writers |-> "idle"] /\ fd' = [w \in Writers |-> 0]
        /\ UNCHANGED <<file, tmp, content, data, path, saved>>
    BY <1>6 DEF Prefs!Crash
  <2> QED
    BY <2>1
<1> QED
  BY <1>1, <1>2, <1>3, <1>4, <1>5, <1>6 DEF Prefs!Next

(* LocalFileStore.set(): with one writer, what a set() that returned has     *)
(* saved stays in the file wherever the process dies in a later one.         *)
THEOREM OneWriterKeeps ==
  ASSUME \A v, w \in Writers : v = w
  PROVE  Prefs!Spec => []SavedIsKept
<1>1. PrefsIInv => SavedIsKept
  BY DEF PrefsIInv
<1>2. PrefsIInv /\ [Prefs!Next]_(Prefs!vars) => PrefsIInv'
  BY PrefsStep
<1> QED
  BY <1>1, <1>2, PrefsInitOK, PTL DEF Prefs!Spec

-----------------------------------------------------------------------------
(* What Snipe shares: a transaction has written the first categories of its  *)
(* batch, and all of them when it commits.                                   *)
FirstOf(b, k) == {b[i] : i \in 1 .. k}

ShareOK(t) ==
  /\ request[t].op \in {"none", "list", "publish", "signal", "read"}
  /\ communityPc[t] \in {"idle", "execute", "commit", "rollback", "put"}
  /\ communityPc[t] \notin {"execute", "commit"} => request[t].op = "none"
  /\ request[t].op = "publish" => request[t].batch \in Batches
  /\ communityPc[t] = "execute" /\ request[t].op = "publish" =>
       /\ IsFiniteSet(wrote[t]) /\ Cardinality(wrote[t]) < Len(request[t].batch)
       /\ wrote[t] = FirstOf(request[t].batch, Cardinality(wrote[t]))
  /\ communityPc[t] = "commit" /\ request[t].op = "publish" =>
       wrote[t] = FirstOf(request[t].batch, Len(request[t].batch))
  /\ communityPc[t] # "rollback" /\ request[t].op # "publish" => wrote[t] = {}

ShareIInv ==
  /\ DOMAIN communityPc = Threads /\ DOMAIN request = Threads /\ DOMAIN wrote = Threads
  /\ DOMAIN catalogue = Categories
  /\ \A t \in Threads : ShareOK(t)
  /\ PublishedTogether

LEMMA SnipeCardinality == \A S : Snipe!Cardinality(S) = Cardinality(S)
BY DEF Snipe!Cardinality, Cardinality

LEMMA BatchFacts ==
  ASSUME NEW b \in Batches
  PROVE  /\ b \in Seq(Categories) /\ Len(b) \in Nat \ {0}
         /\ \A i, j \in 1 .. Len(b) : b[i] = b[j] => i = j
         /\ Snipe!Range(b) = FirstOf(b, Len(b))
<1>1. b \in Seq(Categories) /\ b # <<>> /\ Snipe!IsInjective(b)
  BY StoresAssumption DEF Snipe!ConstantsOK
<1>2. Len(b) \in Nat \ {0} /\ DOMAIN b = 1 .. Len(b)
  BY <1>1, EmptySeq, LenProperties
<1> QED
  BY <1>1, <1>2 DEF Snipe!IsInjective, Snipe!Range, FirstOf

LEMMA ShareInitOK == Snipe!Init => ShareIInv
BY DEF Snipe!Init, Snipe!NoCall, ShareIInv, ShareOK, PublishedTogether, Snipe!PublishedTogether

(* A step of t that commits nothing. *)
LEMMA ShareQuiet ==
  ASSUME ShareIInv, NEW t \in Threads, UNCHANGED catalogue,
         DOMAIN communityPc' = Threads, DOMAIN request' = Threads, DOMAIN wrote' = Threads,
         \A s \in Threads \ {t} : /\ communityPc'[s] = communityPc[s] /\ request'[s] = request[s]
                                  /\ wrote'[s] = wrote[s],
         ShareOK(t)'
  PROVE  ShareIInv'
<1>1. \A s \in Threads \ {t} : ShareOK(s)'
  BY DEF ShareIInv, ShareOK
<1> QED
  BY <1>1 DEF ShareIInv, PublishedTogether, Snipe!PublishedTogether

LEMMA ShareUpsert == ASSUME ShareIInv, NEW t \in Threads, Snipe!Upsert(t) PROVE ShareIInv'
<1> DEFINE b == request[t].batch
           k == Cardinality(wrote[t])
<1>1. /\ communityPc[t] = "execute" /\ request[t].op = "publish" /\ UNCHANGED <<catalogue, request>>
      /\ wrote' = [wrote EXCEPT ![t] = wrote[t] \cup {b[k + 1]}]
      /\ communityPc' = [communityPc EXCEPT ![t] = IF k + 1 = Len(b) THEN "commit" ELSE "execute"]
  BY SnipeCardinality DEF Snipe!Upsert, Snipe!Executes, Snipe!Key, Snipe!Go
<1>2. /\ b \in Batches /\ IsFiniteSet(wrote[t]) /\ k < Len(b) /\ wrote[t] = FirstOf(b, k)
  BY <1>1 DEF ShareIInv, ShareOK
<1>3. k \in Nat /\ Len(b) \in Nat
  BY <1>2, FS_CardinalityType, BatchFacts
<1>4. b[k + 1] \notin wrote[t]
  BY <1>2, <1>3, BatchFacts, SMTT(20) DEF FirstOf
<1>5. IsFiniteSet(wrote[t] \cup {b[k + 1]}) /\ Cardinality(wrote[t] \cup {b[k + 1]}) = k + 1
  BY <1>2, <1>4, FS_AddElement
<1>6. wrote[t] \cup {b[k + 1]} = FirstOf(b, k + 1)
  BY <1>2, <1>3 DEF FirstOf
<1>7. wrote'[t] = wrote[t] \cup {b[k + 1]}
  BY <1>1 DEF ShareIInv
<1>8. ShareOK(t)'
  <2>1. request'[t] = request[t] /\ request[t].op = "publish" /\ request[t].batch \in Batches
    BY <1>1, <1>2
  <2>2. CASE k + 1 = Len(b)
    <3>1. communityPc'[t] = "commit"
      BY <1>1, <2>2 DEF ShareIInv
    <3> QED
      BY <1>6, <1>7, <2>1, <2>2, <3>1 DEF ShareOK
  <2>3. CASE k + 1 # Len(b)
    <3>1. communityPc'[t] = "execute" /\ k + 1 < Len(b)
      BY <1>1, <1>2, <1>3, <2>3 DEF ShareIInv
    <3>2. IsFiniteSet(wrote'[t]) /\ Cardinality(wrote'[t]) = k + 1 /\ wrote'[t] = FirstOf(b, k + 1)
      BY <1>5, <1>6, <1>7
    <3> QED
      BY <2>1, <3>1, <3>2 DEF ShareOK
  <2> QED
    BY <2>2, <2>3
<1> QED
  BY <1>1, <1>8, ShareQuiet DEF ShareIInv

LEMMA ShareCommit == ASSUME ShareIInv, NEW t \in Threads, Snipe!Commit(t) PROVE ShareIInv'
<1>1. /\ communityPc[t] = "commit"
      /\ catalogue' = [c \in Categories |-> IF c \in wrote[t] THEN t ELSE catalogue[c]]
      /\ wrote' = [wrote EXCEPT ![t] = {}]
      /\ communityPc' = [communityPc EXCEPT ![t] = "put"]
      /\ request' = [request EXCEPT ![t] = [op |-> "none"]]
  BY DEF Snipe!Commit, Snipe!Leave, Snipe!NoCall
<1>2. wrote[t] = {} \/ \E b \in Batches : wrote[t] = Snipe!Range(b)
  BY <1>1, BatchFacts DEF ShareIInv, ShareOK
<1>3. PublishedTogether'
  <2> SUFFICES ASSUME NEW c \in Categories, NEW d \in Categories,
                      \A b \in Batches : c \in Snipe!Range(b) <=> d \in Snipe!Range(b)
               PROVE  catalogue'[c] = catalogue'[d]
    BY DEF PublishedTogether, Snipe!PublishedTogether
  <2>1. c \in wrote[t] <=> d \in wrote[t]
    BY <1>2
  <2>2. catalogue[c] = catalogue[d]
    BY DEF ShareIInv, PublishedTogether, Snipe!PublishedTogether
  <2> QED
    BY <1>1, <2>1, <2>2
<1>4. ShareOK(t)'
  BY <1>1 DEF ShareIInv, ShareOK
<1>5. \A s \in Threads \ {t} : ShareOK(s)'
  BY <1>1 DEF ShareIInv, ShareOK
<1> QED
  BY <1>1, <1>3, <1>4, <1>5 DEF ShareIInv

LEMMA ShareStep == ShareIInv /\ [Snipe!Next]_(Snipe!vars) => ShareIInv'
<1> SUFFICES ASSUME ShareIInv, [Snipe!Next]_(Snipe!vars) PROVE ShareIInv'
  OBVIOUS
<1>1. CASE UNCHANGED Snipe!vars
  BY <1>1 DEF Snipe!vars, ShareIInv, ShareOK, PublishedTogether, Snipe!PublishedTogether
<1>2. ASSUME NEW t \in Threads,
             \/ Snipe!GetConn(t) \/ Snipe!InsertPost(t) \/ Snipe!DeletePost(t) \/ Snipe!PublishSignal(t)
             \/ Snipe!ListPosts(t) \/ Snipe!SelectPosts(t) \/ Snipe!SelectSignals(t)
             \/ Snipe!SelectCategories(t) \/ Snipe!DeadlockDetected(t) \/ Snipe!Fail(t)
             \/ Snipe!Rollback(t) \/ Snipe!PutConn(t)
      PROVE  ShareIInv'
  <2>0. ShareOK(t) /\ DOMAIN communityPc = Threads /\ DOMAIN request = Threads /\ DOMAIN wrote = Threads
    BY DEF ShareIInv
  <2> USE DEF Snipe!Go, Snipe!Leave, Snipe!NoCall, Snipe!Executes
  <2>1. CASE Snipe!GetConn(t)
    <3>1. PICK c \in Snipe!Calls : request' = [request EXCEPT ![t] = c]
      BY <2>1 DEF Snipe!GetConn
    <3>2. communityPc' = [communityPc EXCEPT ![t] = "execute"] /\ UNCHANGED <<catalogue, wrote>>
          /\ communityPc[t] = "idle"
      BY <2>1 DEF Snipe!GetConn
    <3>3. request'[t] = c /\ communityPc'[t] = "execute" /\ wrote'[t] = {}
      BY <2>0, <3>1, <3>2 DEF ShareOK
    <3>4. /\ c.op \in {"list", "publish", "signal", "read"}
          /\ c.op = "publish" => c.batch \in Batches
      BY DEF Snipe!Calls
    <3>5. IsFiniteSet({}) /\ Cardinality({}) = 0 /\ \A b : FirstOf(b, 0) = {}
      BY FS_EmptySet DEF FirstOf
    <3>6. c.op = "publish" => 0 < Len(c.batch)
      BY <3>4, BatchFacts
    <3>7. ShareOK(t)'
      BY <3>3, <3>4, <3>5, <3>6 DEF ShareOK
    <3> QED
      BY <2>0, <3>1, <3>2, <3>7, ShareQuiet
  <2>2. CASE Snipe!InsertPost(t) \/ Snipe!DeletePost(t)
    BY <2>0, <2>2 DEF ShareOK, Snipe!InsertPost, Snipe!DeletePost
  <2>3. CASE Snipe!PublishSignal(t)
    BY <2>0, <2>3, ShareQuiet DEF ShareOK, Snipe!PublishSignal
  <2>4. CASE \/ Snipe!ListPosts(t) \/ Snipe!SelectPosts(t) \/ Snipe!SelectSignals(t)
             \/ Snipe!SelectCategories(t) \/ Snipe!DeadlockDetected(t) \/ Snipe!Fail(t)
             \/ Snipe!Rollback(t) \/ Snipe!PutConn(t)
    <3>1. /\ \E where \in {"put", "rollback", "idle"} : communityPc' = [communityPc EXCEPT ![t] = where]
          /\ request' = [request EXCEPT ![t] = [op |-> "none"]]
          /\ UNCHANGED catalogue
          /\ wrote' = wrote \/ wrote' = [wrote EXCEPT ![t] = {}]
      BY <2>4 DEF Snipe!ListPosts, Snipe!SelectPosts, Snipe!SelectSignals, Snipe!SelectCategories,
         Snipe!Select, Snipe!DeadlockDetected, Snipe!Fail, Snipe!Rollback, Snipe!PutConn
    <3>2. communityPc'[t] # "rollback" => wrote'[t] = {}
      BY <2>0, <2>4 DEF Snipe!ListPosts, Snipe!SelectPosts, Snipe!SelectSignals, Snipe!SelectCategories,
         Snipe!Select, Snipe!DeadlockDetected, Snipe!Fail, Snipe!Rollback, Snipe!PutConn, ShareOK
    <3>3. ShareOK(t)'
      BY <2>0, <3>1, <3>2 DEF ShareOK
    <3> QED
      BY <2>0, <3>1, <3>3, ShareQuiet, SMTT(20)
  <2> QED
    BY <1>2, <2>1, <2>2, <2>3, <2>4
<1> QED
  BY <1>1, <1>2, ShareUpsert, ShareCommit DEF Snipe!Next

(* publish_categories() upserts its rows one by one, in one transaction:     *)
(* categories that are always published together are of one publisher.       *)
THEOREM BatchesAreAtomic == Snipe!Spec => []PublishedTogether
<1>1. ShareIInv => PublishedTogether
  BY DEF ShareIInv
<1> QED
  BY <1>1, ShareInitOK, ShareStep, PTL DEF Snipe!Spec

LEMMA LeastExists ==
  ASSUME NEW S \in SUBSET Nat, S # {}
  PROVE  \E x \in S : \A y \in S : x <= y
<1> DEFINE Less == {p \in Nat \X Nat : p[1] < p[2]}
<1>1. IsWellFoundedOn(Less, Nat)
  BY NatLessThanWellFounded, Zenon DEF OpToRel
<1>2. PICK x \in S : \A y \in S : <<y, x>> \notin Less
  <2> HIDE DEF Less
  <2> QED
    BY <1>1, WFMin
<1>3. \A y \in S : ~ (y < x)
  BY <1>2
<1> QED
  BY <1>3

LEMMA GreatestExists ==
  ASSUME NEW n \in Nat, NEW S \in SUBSET (0 .. n), S # {}
  PROVE  \E x \in S : \A y \in S : x >= y
<1> DEFINE T == {n - x : x \in S}
<1>1. T \in SUBSET Nat /\ T # {}
  <2>1. \A x \in S : x \in 0 .. n
    OBVIOUS
  <2>2. \A x \in S : n - x \in Nat
    BY <2>1
  <2> QED
    BY <2>2
<1>2. PICK t \in T : \A y \in T : t <= y
  <2> HIDE DEF T
  <2> QED
    BY <1>1, LeastExists
<1>3. PICK x \in S : t = n - x
  BY <1>2
<1>4. \A y \in S : n - x <= n - y
  BY <1>2, <1>3
<1> QED
  BY <1>4

-----------------------------------------------------------------------------
(* The vector store: its two tables, and the map that they are.              *)
IdsOf(m) == {m[r].id : r \in DOMAIN m}
Agree(m, v) ==
  /\ DOMAIN m = DOMAIN v
  /\ \A r \in DOMAIN m : m[r] \in [id : Ids, tag : Tags]
  /\ \A r, s \in DOMAIN m : m[r].id = m[s].id => r = s
  /\ \E n \in Nat : DOMAIN m \subseteq 0 .. n
AsMap(m, v) ==
  [i \in IdsOf(m) |-> LET r == CHOOSE r \in DOMAIN m : m[r].id = i
                      IN  [vector |-> v[r].vector, tag |-> m[r].tag]]

LEMMA EntryOf ==
  ASSUME NEW m, NEW v, Agree(m, v), NEW r \in DOMAIN m
  PROVE  /\ m[r].id \in IdsOf(m)
         /\ AsMap(m, v)[m[r].id] = [vector |-> v[r].vector, tag |-> m[r].tag]
<1>1. m[r].id \in IdsOf(m)
  BY DEF IdsOf
<1>2. (CHOOSE s \in DOMAIN m : m[s].id = m[r].id) = r
  BY DEF Agree
<1> QED
  BY <1>1, <1>2 DEF AsMap

LEMMA SameFunction ==
  ASSUME NEW f, NEW g, f = [x \in DOMAIN f |-> f[x]], g = [x \in DOMAIN g |-> g[x]],
         DOMAIN f = DOMAIN g, \A x \in DOMAIN f : f[x] = g[x]
  PROVE  f = g
<1>1. [x \in DOMAIN f |-> f[x]] = [x \in DOMAIN g |-> g[x]]
  OBVIOUS
<1> QED
  BY <1>1

LEMMA MaxIsNat ==
  ASSUME NEW m, NEW n \in Nat, DOMAIN m \subseteq 0 .. n
  PROVE  Index!NewRow(m) \in Nat /\ Index!NewRow(m) \notin DOMAIN m
<1> DEFINE S == {0} \cup DOMAIN m
<1>1. S \in SUBSET (0 .. n) /\ S # {}
  OBVIOUS
<1>2. \E x \in S : \A y \in S : x >= y
  <2> HIDE DEF S
  <2> QED
    BY <1>1, GreatestExists
<1>3. Index!Max(S) \in S /\ \A y \in S : Index!Max(S) >= y
  BY <1>2 DEF Index!Max
<1> QED
  BY <1>1, <1>3 DEF Index!NewRow

LEMMA StoredIsMap == Index!Stored = AsMap(meta, vecs)
BY DEF Index!Stored, Index!RowOf, AsMap, IdsOf

LEMMA StatusIs ==
  ASSUME NEW c
  PROVE  Index!Status(c) = IF clientPc[c] = "idle" THEN "idle"
                           ELSE IF clientPc[c] = "done" THEN "over" ELSE "pending"
BY Zenon DEF Index!Status

AfterOf(f, o) ==
  IF o.kind = "upsert"
  THEN [j \in DOMAIN f \cup {o.id} |-> IF j = o.id THEN [vector |-> o.vector, tag |-> o.tag] ELSE f[j]]
  ELSE IF o.kind = "delete" THEN [j \in DOMAIN f \ {o.id} |-> f[j]]
  ELSE [j \in {i \in DOMAIN f : f[i].tag # o.tag} |-> f[j]]

LEMMA AfterIs ==
  ASSUME NEW o \in Index!Operations
  PROVE  Index!Map!After(o) = AfterOf(Index!Stored, o)
<1>1. o.kind \in {"upsert", "delete", "deleteWhere"}
  BY DEF Index!Operations
<1> QED
  BY <1>1, Zenon DEF Index!Map!After, Index!Map!Keep, AfterOf

LEMMA MapsAreFunctions ==
  ASSUME NEW m, NEW v, NEW o
  PROVE  /\ AsMap(m, v) = [j \in DOMAIN AsMap(m, v) |-> AsMap(m, v)[j]]
         /\ DOMAIN AsMap(m, v) = IdsOf(m)
         /\ LET g == AfterOf(AsMap(m, v), o) IN g = [j \in DOMAIN g |-> g[j]]
BY DEF AsMap, AfterOf

(* An entry that is there is replaced. *)
LEMMA Replaces ==
  ASSUME NEW m, NEW v, Agree(m, v), NEW o \in Index!Operations, o.kind = "upsert",
         NEW r \in DOMAIN m, m[r].id = o.id,
         NEW m2, NEW v2, DOMAIN m2 = DOMAIN m, DOMAIN v2 = DOMAIN v,
         m2[r] = [id |-> o.id, tag |-> o.tag], v2[r].vector = o.vector,
         \A s \in DOMAIN m \ {r} : m2[s] = m[s] /\ v2[s] = v[s]
  PROVE  Agree(m2, v2) /\ AsMap(m2, v2) = AfterOf(AsMap(m, v), o)
<1>0. o.id \in Ids /\ o.tag \in Tags
  BY DEF Index!Operations
<1>1. \A s \in DOMAIN m : m2[s].id = m[s].id
  OBVIOUS
<1>2. Agree(m2, v2)
  BY <1>0, <1>1 DEF Agree
<1>3. IdsOf(m2) = IdsOf(m) /\ o.id \in IdsOf(m)
  BY <1>1 DEF IdsOf
<1>4. ASSUME NEW j \in IdsOf(m2) PROVE AsMap(m2, v2)[j] = AfterOf(AsMap(m, v), o)[j]
  <2>1. PICK s \in DOMAIN m : m2[s].id = j /\ m[s].id = j
    BY <1>1 DEF IdsOf
  <2>2. AsMap(m2, v2)[j] = [vector |-> v2[s].vector, tag |-> m2[s].tag]
    BY <1>2, <2>1, EntryOf
  <2>3. AsMap(m, v)[j] = [vector |-> v[s].vector, tag |-> m[s].tag]
    BY <2>1, EntryOf
  <2>4. s = r <=> j = o.id
    BY <2>1 DEF Agree
  <2>5. j \in DOMAIN AsMap(m, v)
    BY <1>3, MapsAreFunctions
  <2> QED
    BY <2>2, <2>3, <2>4, <2>5 DEF AfterOf
<1>5. DOMAIN AfterOf(AsMap(m, v), o) = IdsOf(m2)
  <2>1. DOMAIN AsMap(m, v) = IdsOf(m)
    BY MapsAreFunctions
  <2>2. DOMAIN AfterOf(AsMap(m, v), o) = DOMAIN AsMap(m, v) \cup {o.id}
    BY DEF AfterOf
  <2> QED
    BY <1>3, <2>1, <2>2
<1>6. AsMap(m2, v2) = AfterOf(AsMap(m, v), o)
  BY <1>4, <1>5, MapsAreFunctions, SameFunction
<1> QED
  BY <1>2, <1>6

(* A new entry gets a row of its own. *)
LEMMA Inserts ==
  ASSUME NEW m, NEW v, Agree(m, v), NEW o \in Index!Operations, o.kind = "upsert",
         o.id \notin IdsOf(m), NEW n \in Nat, n \notin DOMAIN m,
         NEW m2, NEW v2, DOMAIN m2 = DOMAIN m \cup {n}, DOMAIN v2 = DOMAIN m \cup {n},
         m2[n] = [id |-> o.id, tag |-> o.tag], v2[n].vector = o.vector,
         \A s \in DOMAIN m : m2[s] = m[s] /\ v2[s] = v[s]
  PROVE  Agree(m2, v2) /\ AsMap(m2, v2) = AfterOf(AsMap(m, v), o)
<1>0. o.id \in Ids /\ o.tag \in Tags
  BY DEF Index!Operations
<1>1. \A s \in DOMAIN m : m[s].id # o.id
  BY DEF IdsOf
<1>2. \E k \in Nat : DOMAIN m2 \subseteq 0 .. k
  <2>1. PICK k \in Nat : DOMAIN m \subseteq 0 .. k
    BY DEF Agree
  <2>2. DOMAIN m2 \subseteq 0 .. (k + n)
    BY <2>1
  <2> QED
    BY <2>2
<1>3. Agree(m2, v2)
  BY <1>0, <1>1, <1>2 DEF Agree
<1>4. IdsOf(m2) = IdsOf(m) \cup {o.id}
  BY <1>1 DEF IdsOf
<1>5. ASSUME NEW j \in IdsOf(m2) PROVE AsMap(m2, v2)[j] = AfterOf(AsMap(m, v), o)[j]
  <2>0. j \in DOMAIN AsMap(m, v) \cup {o.id}
    BY <1>4, MapsAreFunctions
  <2>1. CASE j = o.id
    <3>1. AsMap(m2, v2)[j] = [vector |-> v2[n].vector, tag |-> m2[n].tag]
      BY <1>3, <2>1, EntryOf
    <3> QED
      BY <2>0, <2>1, <3>1 DEF AfterOf
  <2>2. CASE j # o.id
    <3>1. PICK s \in DOMAIN m : m[s].id = j
      BY <1>4, <2>2 DEF IdsOf
    <3>2. AsMap(m2, v2)[j] = [vector |-> v2[s].vector, tag |-> m2[s].tag]
      BY <1>3, <3>1, EntryOf
    <3>3. AsMap(m, v)[j] = [vector |-> v[s].vector, tag |-> m[s].tag]
      BY <3>1, EntryOf
    <3> QED
      BY <2>0, <2>2, <3>2, <3>3 DEF AfterOf
  <2> QED
    BY <2>1, <2>2
<1>6. DOMAIN AfterOf(AsMap(m, v), o) = IdsOf(m2)
  BY <1>4, MapsAreFunctions DEF AfterOf
<1>7. AsMap(m2, v2) = AfterOf(AsMap(m, v), o)
  BY <1>5, <1>6, MapsAreFunctions, SameFunction
<1> QED
  BY <1>3, <1>7

(* What a delete has selected is gone, and nothing else. *)
Picked(m, o) == {r \in DOMAIN m : IF o.kind = "deleteWhere" THEN m[r].tag = o.tag ELSE m[r].id = o.id}

LEMMA Removes ==
  ASSUME NEW m, NEW v, Agree(m, v), NEW o \in Index!Operations, o.kind # "upsert",
         NEW m2, NEW v2, DOMAIN m2 = DOMAIN m \ Picked(m, o), DOMAIN v2 = DOMAIN m2,
         \A s \in DOMAIN m2 : m2[s] = m[s] /\ v2[s] = v[s]
  PROVE  Agree(m2, v2) /\ AsMap(m2, v2) = AfterOf(AsMap(m, v), o)
<1>1. Agree(m2, v2)
  BY DEF Agree
<1>2. DOMAIN AfterOf(AsMap(m, v), o) = IdsOf(m2)
  <2>1. ASSUME NEW r \in DOMAIN m PROVE AsMap(m, v)[m[r].id].tag = m[r].tag
    <3>1. AsMap(m, v)[m[r].id] = [vector |-> v[r].vector, tag |-> m[r].tag]
      BY EntryOf
    <3> QED
      BY <3>1
  <2>2. CASE o.kind = "deleteWhere"
    <3>1. DOMAIN AfterOf(AsMap(m, v), o) = {i \in IdsOf(m) : AsMap(m, v)[i].tag # o.tag}
      BY <2>2, MapsAreFunctions DEF AfterOf
    <3> QED
      BY <2>1, <2>2, <3>1 DEF IdsOf, Picked
  <2>3. CASE o.kind = "delete"
    <3>1. DOMAIN AfterOf(AsMap(m, v), o) = IdsOf(m) \ {o.id}
      BY <2>3, MapsAreFunctions DEF AfterOf
    <3> QED
      BY <2>3, <3>1 DEF IdsOf, Picked
  <2> QED
    BY <2>2, <2>3 DEF Index!Operations
<1>3. ASSUME NEW j \in IdsOf(m2) PROVE AsMap(m2, v2)[j] = AfterOf(AsMap(m, v), o)[j]
  <2>1. PICK s \in DOMAIN m2 : m2[s].id = j /\ m[s].id = j
    BY DEF IdsOf
  <2>2. AsMap(m2, v2)[j] = [vector |-> v2[s].vector, tag |-> m2[s].tag]
    BY <1>1, <2>1, EntryOf
  <2>3. AsMap(m, v)[j] = [vector |-> v[s].vector, tag |-> m[s].tag]
    BY <2>1, EntryOf
  <2>4. AfterOf(AsMap(m, v), o)[j] = AsMap(m, v)[j]
    BY <1>2 DEF AfterOf
  <2> QED
    BY <2>1, <2>2, <2>3, <2>4
<1>4. AsMap(m2, v2) = AfterOf(AsMap(m, v), o)
  BY <1>2, <1>3, MapsAreFunctions, SameFunction
<1> QED
  BY <1>1, <1>4

(* Where an operation is. Before its first write the rows that it selected   *)
(* are those that are there: that is where it matters that no other client   *)
(* writes. After the second, what will be committed is what is promised.     *)
WrittenOnce(o, S) ==
  \/ \E r \in DOMAIN meta :
       /\ o.kind = "upsert" /\ S = {r} /\ meta[r].id = o.id
       /\ work = [meta |-> meta, vecs |-> Index!With(vecs, r, Index!Vector(o))]
  \/ \E n \in Nat \ DOMAIN meta :
       /\ o.kind = "upsert" /\ S = {n} /\ o.id \notin IdsOf(meta)
       /\ work = [meta |-> Index!With(meta, n, Index!Entry(o)), vecs |-> vecs]
  \/ /\ o.kind # "upsert" /\ S = Picked(meta, o)
     /\ work = [meta |-> meta, vecs |-> Index!Without(vecs, S)]

WrittenTwice(o) ==
  /\ Agree(work.meta, work.vecs)
  /\ AsMap(work.meta, work.vecs) = AfterOf(AsMap(meta, vecs), o)

ClientOK(c) ==
  /\ clientPc[c] # "idle" => op[c] \in Index!Operations
  /\ writer = c <=> clientPc[c] \in {"second", "commit"}
  /\ clientPc[c] = "first" => rows[c] = Picked(meta, op[c])
  /\ clientPc[c] = "second" => WrittenOnce(op[c], rows[c])
  /\ clientPc[c] = "commit" => WrittenTwice(op[c])

IndexIInv ==
  /\ clientPc \in [Clients -> {"idle", "select", "first", "second", "commit", "done"}]
  /\ DOMAIN op = Clients /\ DOMAIN rows = Clients
  /\ writer \in Clients \cup {None}
  /\ Agree(meta, vecs)
  /\ \A c \in Clients : ClientOK(c)

StatusOf(place) == IF place = "idle" THEN "idle" ELSE IF place = "done" THEN "over" ELSE "pending"
Statuses == [c \in Clients |-> Index!Status(c)]

LEMMA StatusesAre ==
  /\ Statuses = [c \in Clients |-> StatusOf(clientPc[c])]
  /\ Statuses' = [c \in Clients |-> StatusOf(clientPc'[c])]
<1>1. \A c : Index!Status(c) = StatusOf(clientPc[c])
  BY Zenon DEF Index!Status, StatusOf
<1>2. \A c : Index!Status(c)' = StatusOf(clientPc'[c])
  BY Zenon DEF Index!Status, StatusOf
<1> QED
  BY <1>1, <1>2 DEF Statuses

LEMMA StoredIsMapNext == (Index!Stored)' = AsMap(meta', vecs')
BY DEF Index!Stored, Index!RowOf, AsMap, IdsOf

LEMMA Goes ==
  ASSUME NEW c \in Clients, NEW place, Index!Goto(c, place),
         clientPc \in [Clients -> {"idle", "select", "first", "second", "commit", "done"}]
  PROVE  /\ clientPc'[c] = place
         /\ Statuses' = [Statuses EXCEPT ![c] = StatusOf(place)]
         /\ Statuses[c] = StatusOf(clientPc[c])
BY StatusesAre DEF Index!Goto

LEMMA IndexInitOK == Index!Init => IndexIInv /\ Index!Map!Init
<1> SUFFICES ASSUME Index!Init PROVE IndexIInv /\ Index!Map!Init
  OBVIOUS
<1> USE DEF Index!Init, Index!Empty
<1>1. DOMAIN meta = {} /\ DOMAIN vecs = {}
  OBVIOUS
<1>2. Agree(meta, vecs)
  BY <1>1, 0 \in Nat DEF Agree
<1>3. IndexIInv
  BY <1>2, StoresAssumption DEF IndexIInv, ClientOK, Index!ConstantsOK
<1>4. Index!Stored = << >>
  BY <1>1 DEF Index!Stored
<1>5. Statuses = [c \in Clients |-> "idle"]
  BY StatusesAre DEF StatusOf
<1> QED
  BY <1>3, <1>4, <1>5 DEF Index!Map!Init, Statuses

(* What a step is to the map. *)
MapStep(c) ==
  \/ UNCHANGED <<Index!Stored, op, Statuses>>
  \/ \E o \in Index!Operations : Index!Map!Call(c, o)
  \/ Index!Map!End(c)
  \/ Index!Map!Return(c)

LEMMA IndexCall ==
  ASSUME \A c, d \in Clients : c = d, IndexIInv, NEW c \in Clients,
         NEW o \in Index!Operations, Index!Call(c, o)
  PROVE  IndexIInv' /\ MapStep(c)
<1> USE DEF Index!Call, Index!tables
<1>1. clientPc'[c] = "select" /\ Statuses' = [Statuses EXCEPT ![c] = "pending"] /\ Statuses[c] = "idle"
  BY Goes DEF IndexIInv, StatusOf
<1>2. clientPc' \in [Clients -> {"idle", "select", "first", "second", "commit", "done"}]
  BY DEF IndexIInv, Index!Goto
<1>3. op'[c] = o /\ ClientOK(c)
  BY DEF IndexIInv
<1>4. ClientOK(c)'
  BY <1>1, <1>3 DEF ClientOK
<1>5. (Index!Stored)' = Index!Stored
  BY StoredIsMap, StoredIsMapNext
<1>6. Index!Map!Call(c, o)
  BY <1>1, <1>5 DEF Index!Map!Call, Statuses
<1> QED
  BY <1>2, <1>4, <1>6 DEF IndexIInv, MapStep

LEMMA IndexSelect ==
  ASSUME \A c, d \in Clients : c = d, IndexIInv, NEW c \in Clients, Index!Select(c)
  PROVE  IndexIInv' /\ MapStep(c)
<1> USE DEF Index!Select, Index!tables
<1>0. PICK place \in {"done", "first"} : Index!Goto(c, place)
  OBVIOUS
<1>1. clientPc'[c] = place /\ Statuses' = [Statuses EXCEPT ![c] = StatusOf(place)]
      /\ Statuses[c] = "pending" /\ Statuses = [d \in Clients |-> StatusOf(clientPc[d])]
  BY <1>0, Goes, StatusesAre DEF IndexIInv, StatusOf
<1>2. clientPc' \in [Clients -> {"idle", "select", "first", "second", "commit", "done"}]
  BY <1>0 DEF IndexIInv, Index!Goto
<1>3. ClientOK(c) /\ rows'[c] = Picked(meta, op[c])
  BY DEF IndexIInv, Picked, Index!Selected
<1>4. ClientOK(c)'
  BY <1>1, <1>3 DEF ClientOK
<1>5. (Index!Stored)' = Index!Stored
  BY StoredIsMap, StoredIsMapNext
<1>6. MapStep(c)
  <2>1. CASE place = "first"
    <3>1. Statuses' = Statuses
      BY <1>1, <2>1 DEF StatusOf
    <3> QED
      BY <1>5, <3>1 DEF MapStep
  <2>2. CASE place = "done"
    BY <1>1, <1>5, <2>2 DEF MapStep, Index!Map!End, Statuses, StatusOf
  <2> QED
    BY <2>1, <2>2
<1> QED
  BY <1>2, <1>4, <1>6 DEF IndexIInv

LEMMA IndexFirst ==
  ASSUME \A c, d \in Clients : c = d, IndexIInv, NEW c \in Clients, Index!FirstWrite(c)
  PROVE  IndexIInv' /\ MapStep(c)
<1> USE DEF Index!FirstWrite, Index!tables
<1>1. clientPc[c] = "first" /\ clientPc'[c] = "second" /\ Statuses' = Statuses
  BY Goes, StatusesAre DEF IndexIInv, StatusOf
<1>2. clientPc' \in [Clients -> {"idle", "select", "first", "second", "commit", "done"}]
  BY DEF IndexIInv, Index!Goto
<1>3. ClientOK(c) /\ rows[c] = Picked(meta, op[c]) /\ op[c] \in Index!Operations
  BY <1>1 DEF IndexIInv, ClientOK
<1>4. WrittenOnce(op[c], rows[c])'
  <2>1. CASE op[c].kind = "upsert" /\ rows[c] # {}
    <3>1. PICK r \in DOMAIN meta : rows[c] = {r} /\ meta[r].id = op[c].id
      BY <1>3, <2>1 DEF Picked, IndexIInv, Agree
    <3>2. (CHOOSE s \in rows[c] : TRUE) = r /\ r \in DOMAIN vecs
      BY <3>1 DEF IndexIInv, Agree
    <3>3. work' = [meta |-> meta, vecs |-> Index!With(vecs, r, Index!Vector(op[c]))] /\ rows' = rows
      BY <2>1, <3>2
    <3> QED
      BY <2>1, <3>1, <3>3 DEF WrittenOnce
  <2>2. CASE op[c].kind = "upsert" /\ rows[c] = {}
    <3>1. Index!NewRow(meta) \in Nat \ DOMAIN meta
      BY MaxIsNat DEF IndexIInv, Agree
    <3>2. /\ op[c].id \notin IdsOf(meta) /\ rows'[c] = {Index!NewRow(meta)}
          /\ work' = [meta |-> Index!With(meta, Index!NewRow(meta), Index!Entry(op[c])), vecs |-> vecs]
      BY <2>2 DEF IdsOf, IndexIInv
    <3>3. PICK n \in Nat \ DOMAIN meta : n = Index!NewRow(meta)
      BY <3>1
    <3> QED
      BY <2>2, <3>2, <3>3 DEF WrittenOnce
  <2>3. CASE op[c].kind # "upsert"
    BY <1>3, <2>3 DEF WrittenOnce
  <2> QED
    BY <2>1, <2>2, <2>3
<1>5. DOMAIN rows' = Clients
  <2>1. rows' = rows \/ \E S : rows' = [rows EXCEPT ![c] = S]
    OBVIOUS
  <2> QED
    BY <2>1 DEF IndexIInv
<1>6. ClientOK(c)'
  BY <1>1, <1>3, <1>4 DEF ClientOK
<1>7. (Index!Stored)' = Index!Stored
  BY StoredIsMap, StoredIsMapNext
<1> QED
  BY <1>1, <1>2, <1>5, <1>6, <1>7 DEF IndexIInv, MapStep

LEMMA IndexSecond ==
  ASSUME \A c, d \in Clients : c = d, IndexIInv, NEW c \in Clients, Index!SecondWrite(c)
  PROVE  IndexIInv' /\ MapStep(c)
<1> USE DEF Index!SecondWrite, Index!tables
<1>1. clientPc[c] = "second" /\ clientPc'[c] = "commit" /\ Statuses' = Statuses
  BY Goes, StatusesAre DEF IndexIInv, StatusOf
<1>2. clientPc' \in [Clients -> {"idle", "select", "first", "second", "commit", "done"}]
  BY DEF IndexIInv, Index!Goto
<1>3. ClientOK(c) /\ WrittenOnce(op[c], rows[c]) /\ op[c] \in Index!Operations
  BY <1>1 DEF IndexIInv, ClientOK
<1>4. Agree(meta, vecs)
  BY DEF IndexIInv
<1>5. WrittenTwice(op[c])'
  <2>1. ASSUME NEW r \in DOMAIN meta, op[c].kind = "upsert", rows[c] = {r}, meta[r].id = op[c].id,
               work = [meta |-> meta, vecs |-> Index!With(vecs, r, Index!Vector(op[c]))]
        PROVE  WrittenTwice(op[c])'
    <3>1. (CHOOSE s \in rows[c] : TRUE) = r /\ r \in DOMAIN vecs
      BY <1>4, <2>1 DEF Agree
    <3>2. work' = [meta |-> [meta EXCEPT ![r].tag = op[c].tag],
                   vecs |-> Index!With(vecs, r, Index!Vector(op[c]))]
      BY <2>1, <3>1
    <3>3. work'.meta[r] = [id |-> op[c].id, tag |-> op[c].tag]
      BY <1>4, <2>1, <3>2 DEF Agree
    <3>4. /\ DOMAIN work'.meta = DOMAIN meta /\ DOMAIN work'.vecs = DOMAIN vecs
          /\ work'.vecs[r].vector = op[c].vector
          /\ \A s \in DOMAIN meta \ {r} : work'.meta[s] = meta[s] /\ work'.vecs[s] = vecs[s]
      BY <1>4, <3>1, <3>2 DEF Agree, Index!With, Index!Vector
    <3>5. Agree(work'.meta, work'.vecs) /\ AsMap(work'.meta, work'.vecs) = AfterOf(AsMap(meta, vecs), op[c])
      BY <1>3, <1>4, <2>1, <3>3, <3>4, Replaces
    <3> QED
      BY <3>5 DEF WrittenTwice
  <2>2. ASSUME NEW n \in Nat \ DOMAIN meta, op[c].kind = "upsert", rows[c] = {n},
               op[c].id \notin IdsOf(meta),
               work = [meta |-> Index!With(meta, n, Index!Entry(op[c])), vecs |-> vecs]
        PROVE  WrittenTwice(op[c])'
    <3>1. (CHOOSE s \in rows[c] : TRUE) = n /\ n \notin DOMAIN vecs /\ n \in DOMAIN work.meta
      BY <1>4, <2>2 DEF Agree, Index!With
    <3>2. work' = [meta |-> Index!With(meta, n, Index!Entry(op[c])),
                   vecs |-> Index!With(vecs, n, Index!Vector(op[c]))]
      BY <2>2, <3>1
    <3>3. /\ DOMAIN work'.meta = DOMAIN meta \cup {n} /\ DOMAIN work'.vecs = DOMAIN meta \cup {n}
          /\ work'.meta[n] = [id |-> op[c].id, tag |-> op[c].tag]
          /\ work'.vecs[n].vector = op[c].vector
          /\ \A s \in DOMAIN meta : work'.meta[s] = meta[s] /\ work'.vecs[s] = vecs[s]
      BY <1>4, <3>2 DEF Agree, Index!With, Index!Vector, Index!Entry
    <3>4. Agree(work'.meta, work'.vecs) /\ AsMap(work'.meta, work'.vecs) = AfterOf(AsMap(meta, vecs), op[c])
      <4>1. PICK m2, v2 : m2 = work'.meta /\ v2 = work'.vecs
        OBVIOUS
      <4>2. Agree(m2, v2) /\ AsMap(m2, v2) = AfterOf(AsMap(meta, vecs), op[c])
        <5>1. /\ n \in Nat /\ n \notin DOMAIN meta
              /\ DOMAIN m2 = DOMAIN meta \cup {n} /\ DOMAIN v2 = DOMAIN meta \cup {n}
              /\ m2[n] = [id |-> op[c].id, tag |-> op[c].tag] /\ v2[n].vector = op[c].vector
              /\ \A s \in DOMAIN meta : m2[s] = meta[s] /\ v2[s] = vecs[s]
          BY <3>3, <4>1
        <5>2. op[c] \in Index!Operations /\ op[c].kind = "upsert" /\ op[c].id \notin IdsOf(meta)
          BY <1>3, <2>2
        <5> QED
          BY <1>4, <5>1, <5>2, Inserts, SMTT(20)
      <4> QED
        BY <4>1, <4>2
    <3> QED
      BY <3>4 DEF WrittenTwice
  <2>3. ASSUME op[c].kind # "upsert", rows[c] = Picked(meta, op[c]),
               work = [meta |-> meta, vecs |-> Index!Without(vecs, rows[c])]
        PROVE  WrittenTwice(op[c])'
    <3>1. work' = [meta |-> Index!Without(meta, rows[c]), vecs |-> Index!Without(vecs, rows[c])]
      BY <2>3
    <3>2. /\ DOMAIN work'.meta = DOMAIN meta \ Picked(meta, op[c]) /\ DOMAIN work'.vecs = DOMAIN work'.meta
          /\ \A s \in DOMAIN work'.meta : work'.meta[s] = meta[s] /\ work'.vecs[s] = vecs[s]
      BY <1>4, <2>3, <3>1 DEF Agree, Index!Without
    <3>3. Agree(work'.meta, work'.vecs) /\ AsMap(work'.meta, work'.vecs) = AfterOf(AsMap(meta, vecs), op[c])
      <4>1. PICK m2, v2 : m2 = work'.meta /\ v2 = work'.vecs
        OBVIOUS
      <4>2. Agree(m2, v2) /\ AsMap(m2, v2) = AfterOf(AsMap(meta, vecs), op[c])
        BY <1>3, <1>4, <2>3, <3>2, <4>1, Removes
      <4> QED
        BY <4>1, <4>2
    <3> QED
      BY <3>3 DEF WrittenTwice
  <2> QED
    BY <1>3, <2>1, <2>2, <2>3 DEF WrittenOnce
<1>6. ClientOK(c)'
  BY <1>1, <1>3, <1>5 DEF ClientOK
<1>7. (Index!Stored)' = Index!Stored
  BY StoredIsMap, StoredIsMapNext
<1> QED
  BY <1>1, <1>2, <1>6, <1>7 DEF IndexIInv, MapStep

LEMMA IndexCommit ==
  ASSUME \A c, d \in Clients : c = d, IndexIInv, NEW c \in Clients, Index!Commit(c)
  PROVE  IndexIInv' /\ MapStep(c)
<1> USE DEF Index!Commit
<1>1. /\ clientPc[c] = "commit" /\ clientPc'[c] = "done" /\ Statuses[c] = "pending"
      /\ Statuses' = [Statuses EXCEPT ![c] = "over"]
  BY Goes DEF IndexIInv, StatusOf
<1>2. clientPc' \in [Clients -> {"idle", "select", "first", "second", "commit", "done"}]
  BY DEF IndexIInv, Index!Goto
<1>3. ClientOK(c) /\ WrittenTwice(op[c]) /\ op[c] \in Index!Operations
  BY <1>1 DEF IndexIInv, ClientOK
<1>4. writer' = None /\ None \notin Clients
  BY StoresAssumption DEF Index!ConstantsOK
<1>5. ClientOK(c)' /\ Agree(meta', vecs')
  BY <1>1, <1>3, <1>4 DEF ClientOK, WrittenTwice
<1>6. (Index!Stored)' = Index!Map!After(op[c])
  BY <1>3, AfterIs, StoredIsMap, StoredIsMapNext DEF WrittenTwice
<1>7. Index!Map!End(c)
  BY <1>1, <1>6 DEF Index!Map!End, Statuses
<1>8. Agree(meta, vecs)'
  BY <1>5
<1> QED
  BY <1>2, <1>4, <1>5, <1>7, <1>8 DEF IndexIInv, MapStep

LEMMA IndexFail ==
  ASSUME \A c, d \in Clients : c = d, IndexIInv, NEW c \in Clients, Index!Fail(c)
  PROVE  IndexIInv' /\ MapStep(c)
<1> USE DEF Index!Fail, Index!tables
<1>1. /\ clientPc[c] \in {"first", "second", "commit"} /\ clientPc'[c] = "done"
      /\ Statuses[c] = "pending" /\ Statuses' = [Statuses EXCEPT ![c] = "over"]
  BY Goes DEF IndexIInv, StatusOf
<1>2. clientPc' \in [Clients -> {"idle", "select", "first", "second", "commit", "done"}]
  BY DEF IndexIInv, Index!Goto
<1>3. ClientOK(c) /\ op[c] \in Index!Operations
  BY <1>1 DEF IndexIInv, ClientOK
<1>4. writer' # c /\ writer' \in Clients \cup {None}
  BY StoresAssumption DEF Index!ConstantsOK, IndexIInv
<1>5. ClientOK(c)'
  BY <1>1, <1>3, <1>4 DEF ClientOK
<1>6. (Index!Stored)' = Index!Stored
  BY StoredIsMap, StoredIsMapNext
<1>7. Index!Map!End(c)
  BY <1>1, <1>6 DEF Index!Map!End, Statuses
<1> QED
  BY <1>2, <1>4, <1>5, <1>7 DEF IndexIInv, MapStep

LEMMA IndexReturn ==
  ASSUME \A c, d \in Clients : c = d, IndexIInv, NEW c \in Clients, Index!Return(c)
  PROVE  IndexIInv' /\ MapStep(c)
<1> USE DEF Index!Return, Index!tables
<1>1. /\ clientPc[c] = "done" /\ clientPc'[c] = "idle" /\ Statuses[c] = "over"
      /\ Statuses' = [Statuses EXCEPT ![c] = "idle"]
  BY Goes DEF IndexIInv, StatusOf
<1>2. clientPc' \in [Clients -> {"idle", "select", "first", "second", "commit", "done"}]
  BY DEF IndexIInv, Index!Goto
<1>3. ClientOK(c)
  BY DEF IndexIInv
<1>4. ClientOK(c)'
  BY <1>1, <1>3 DEF ClientOK
<1>5. (Index!Stored)' = Index!Stored
  BY StoredIsMap, StoredIsMapNext
<1>6. Index!Map!Return(c)
  BY <1>1, <1>5 DEF Index!Map!Return, Statuses
<1> QED
  BY <1>2, <1>4, <1>6 DEF IndexIInv, MapStep

LEMMA IndexStep ==
  ASSUME \A c, d \in Clients : c = d
  PROVE  IndexIInv /\ [Index!Next]_(Index!vars)
           => IndexIInv' /\ [Index!Map!Next]_(Index!Map!vars)
<1> SUFFICES ASSUME IndexIInv, [Index!Next]_(Index!vars)
             PROVE  IndexIInv' /\ [Index!Map!Next]_(Index!Map!vars)
  OBVIOUS
<1>1. CASE UNCHANGED Index!vars
  <2> USE <1>1 DEF Index!vars
  <2>1. IndexIInv'
    <3>1. \A o, S : WrittenOnce(o, S)' <=> WrittenOnce(o, S)
      BY DEF WrittenOnce
    <3>2. \A o : WrittenTwice(o)' <=> WrittenTwice(o)
      BY DEF WrittenTwice
    <3>3. \A c \in Clients : ClientOK(c)' <=> ClientOK(c)
      BY <3>1, <3>2 DEF ClientOK
    <3> QED
      BY <3>3 DEF IndexIInv
  <2>2. (Index!Stored)' = Index!Stored /\ Statuses' = Statuses /\ op' = op
    BY StoredIsMap, StoredIsMapNext, StatusesAre
  <2> QED
    BY <2>1, <2>2 DEF Index!Map!vars, Statuses
<1>2. CASE Index!Next
  <2>1. PICK c \in Clients : \/ \E o \in Index!Operations : Index!Call(c, o)
                             \/ Index!Select(c) \/ Index!FirstWrite(c) \/ Index!SecondWrite(c)
                             \/ Index!Commit(c) \/ Index!Fail(c) \/ Index!Return(c)
    BY <1>2 DEF Index!Next
  <2>2. IndexIInv' /\ MapStep(c)
    BY <2>1, IndexCall, IndexSelect, IndexFirst, IndexSecond, IndexCommit, IndexFail, IndexReturn
  <2> QED
    BY <2>2 DEF MapStep, Statuses, Index!Map!Next, Index!Map!vars
<1> QED
  BY <1>1, <1>2

(* vector/sqlite_vec.py keeps an entry in two tables and writes them one     *)
(* after the other: to one client every operation takes effect at once, or,  *)
(* when it raises, not at all, as VectorMap says.                            *)
THEOREM OneClientSeesAMap ==
  ASSUME \A c, d \in Clients : c = d
  PROVE  Index!Spec => ImplementsMap
<1>1. IndexIInv /\ [Index!Next]_(Index!vars) => IndexIInv' /\ [Index!Map!Next]_(Index!Map!vars)
  BY IndexStep
<1> QED
  BY <1>1, IndexInitOK, PTL DEF Index!Spec, ImplementsMap, Index!ImplementsMap, Index!Map!Spec

-----------------------------------------------------------------------------
(* The posts, page by page: a post that was there when the reader began, and *)
(* that has not been given yet, has as many newer ones as have been skipped. *)
(* Insertions only add to those.                                             *)
NewerIn(S, p) == {q \in S : q.at > p.at}
TiedIn(S, p) == {q \in S : q.at = p.at}
Overdue(S, r, p) ==
  p.slug \in r.due /\ Cardinality(TiedIn(S, p)) = 1

ReaderOK(S, r) ==
  /\ r.offset > 0 => r.due \subseteq Posts!SlugsOf(S)
  /\ \A p \in S : Overdue(S, r, p) => ~r.over /\ Cardinality(NewerIn(S, p)) >= r.offset

WroteSlug(t) ==
  communityPc[t] = "commit" /\ request[t].op = "insert" => request[t].slug \in wrote[t]

PageIInv ==
  /\ posts \subseteq [slug : Slugs, by : Authors, at : Times] /\ IsFiniteSet(posts)
  /\ DOMAIN request = Threads
  /\ \A t \in Threads : request[t] \in Posts!Calls \cup {Posts!NoCall}
  /\ reader \in [offset : Nat, due : SUBSET Slugs, deleted : BOOLEAN, over : BOOLEAN]
  /\ DOMAIN communityPc = Threads /\ DOMAIN wrote = Threads
  /\ \A t \in Threads : WroteSlug(t)
  /\ reader.over => reader.offset > 0
  /\ ~reader.deleted => ReaderOK(posts, reader)

LEMMA PostCardinality == \A S : Posts!Cardinality(S) = Cardinality(S)
BY DEF Posts!Cardinality, Cardinality

LEMMA CountsOfPosts ==
  ASSUME NEW S, IsFiniteSet(S), NEW p
  PROVE  /\ IsFiniteSet(NewerIn(S, p)) /\ Cardinality(NewerIn(S, p)) \in Nat
         /\ IsFiniteSet(TiedIn(S, p)) /\ Cardinality(TiedIn(S, p)) \in Nat
<1>1. NewerIn(S, p) \subseteq S /\ TiedIn(S, p) \subseteq S
  BY DEF NewerIn, TiedIn
<1> QED
  BY <1>1, FS_Subset, FS_CardinalityType

(* A post has fewer newer ones than there are posts. *)
LEMMA FewerAreNewer ==
  ASSUME NEW S, IsFiniteSet(S), NEW p \in S, p.at \in Nat
  PROVE  Cardinality(NewerIn(S, p)) < Cardinality(S)
<1>1. NewerIn(S, p) \subseteq S /\ p \notin NewerIn(S, p)
  BY DEF NewerIn
<1>2. NewerIn(S, p) # S
  BY <1>1
<1>3. /\ Cardinality(NewerIn(S, p)) <= Cardinality(S)
      /\ Cardinality(NewerIn(S, p)) = Cardinality(S) => NewerIn(S, p) = S
  BY <1>1, FS_Subset
<1> QED
  BY <1>2, <1>3, CountsOfPosts, FS_CardinalityType

(* A short page is the last one. *)
LEMMA ShortPages ==
  ASSUME NEW n \in Nat, NEW o \in Nat, NEW k \in Nat,
         Cardinality({i \in 1 .. n : i > o /\ i <= o + k}) < k
  PROVE  n < o + k
<1> SUFFICES ASSUME n >= o + k PROVE FALSE
  OBVIOUS
<1>1. {i \in 1 .. n : i > o /\ i <= o + k} = (o + 1) .. (o + k)
  OBVIOUS
<1>2. Cardinality((o + 1) .. (o + k)) = k
  <2>1. o + 1 \in Int /\ o + k \in Int
    OBVIOUS
  <2>2. Cardinality((o + 1) .. (o + k)) = IF o + 1 > o + k THEN 0 ELSE (o + k) - (o + 1) + 1
    BY <2>1, FS_Interval
  <2> QED
    BY <2>2
<1>3. Cardinality({i \in 1 .. n : i > o /\ i <= o + k}) = k
  BY <1>1, <1>2, Zenon
<1>4. k < k
  BY <1>3, Zenon
<1> QED
  BY <1>4

(* A reader that has no page yet. *)
LEMMA ReadersStart ==
  ASSUME NEW S, IsFiniteSet(S), NEW r, r.offset = 0, ~r.over
  PROVE  ReaderOK(S, r)
<1>1. \A p \in S : Cardinality(NewerIn(S, p)) \in Nat
  BY CountsOfPosts
<1> QED
  BY <1>1 DEF ReaderOK

(* A post more, or the same posts. *)
LEMMA InsertionsKeepPages ==
  ASSUME NEW S, IsFiniteSet(S), NEW T, IsFiniteSet(T), S \subseteq T, NEW r, r.offset \in Nat,
         \A p \in T : p.slug \in Posts!SlugsOf(S) => p \in S,
         r.offset = 0 => ~r.over,
         ReaderOK(S, r)
  PROVE  ReaderOK(T, r)
<1>1. r.offset > 0 => r.due \subseteq Posts!SlugsOf(T)
  BY DEF ReaderOK, Posts!SlugsOf
<1>2. ASSUME NEW p \in T, Overdue(T, r, p)
      PROVE  ~r.over /\ Cardinality(NewerIn(T, p)) >= r.offset
  <2>1. CASE r.offset = 0
    BY <2>1, CountsOfPosts
  <2>2. CASE r.offset > 0
    <3>1. p \in S
      BY <1>2, <2>2 DEF ReaderOK, Overdue
    <3>2. Cardinality(TiedIn(S, p)) = 1
      <4>1. TiedIn(S, p) \subseteq TiedIn(T, p) /\ p \in TiedIn(S, p)
        BY <3>1 DEF TiedIn
      <4>2. Cardinality(TiedIn(S, p)) <= 1
        BY <1>2, <4>1, CountsOfPosts, FS_Subset DEF Overdue
      <4>3. Cardinality(TiedIn(S, p)) # 0
        BY <4>1, CountsOfPosts, FS_EmptySet
      <4> QED
        BY <4>2, <4>3, CountsOfPosts
    <3>3. ~r.over /\ Cardinality(NewerIn(S, p)) >= r.offset
      BY <1>2, <3>1, <3>2 DEF ReaderOK, Overdue
    <3>4. Cardinality(NewerIn(S, p)) <= Cardinality(NewerIn(T, p))
      <4>1. NewerIn(S, p) \subseteq NewerIn(T, p)
        BY DEF NewerIn
      <4> QED
        BY <4>1, CountsOfPosts, FS_Subset
    <3> QED
      BY <3>3, <3>4, CountsOfPosts
  <2> QED
    BY <2>1, <2>2
<1> QED
  BY <1>1, <1>2 DEF ReaderOK

(* The next page. *)
LEMMA PagesKeepPages ==
  ASSUME NEW S, IsFiniteSet(S), S \subseteq [slug : Slugs, by : Authors, at : Times],
         NEW r, r.offset \in Nat, ~r.over, ReaderOK(S, r),
         NEW page, page \subseteq S,
         Cardinality(page) =
           Cardinality({i \in 1 .. Cardinality(S) : i > r.offset /\ i <= r.offset + PageSize}),
         \A p \in S : /\ Cardinality(NewerIn(S, p)) >= r.offset
                      /\ Cardinality(NewerIn(S, p)) + Cardinality(TiedIn(S, p)) <= r.offset + PageSize
                      => p \in page,
         NEW q, q.offset = r.offset + PageSize,
         q.due = (IF r.offset = 0 THEN Posts!SlugsOf(S) ELSE r.due) \ Posts!SlugsOf(page),
         q.over <=> Cardinality(page) < PageSize
  PROVE  ReaderOK(S, q)
<1>0. PageSize \in Nat \ {0} /\ Times \subseteq Nat
  BY StoresAssumption DEF Posts!ConstantsOK
<1>1. q.due \subseteq Posts!SlugsOf(S)
  BY DEF ReaderOK
<1>2. ASSUME NEW p \in S, Overdue(S, q, p)
      PROVE  ~q.over /\ Cardinality(NewerIn(S, p)) >= q.offset
  <2>1. /\ Cardinality(NewerIn(S, p)) \in Nat /\ Cardinality(TiedIn(S, p)) = 1
        /\ r.offset > 0 => p.slug \in r.due
        /\ p \notin page
    BY <1>2, CountsOfPosts DEF Overdue, Posts!SlugsOf
  <2>2. Cardinality(NewerIn(S, p)) >= r.offset
    <3>1. CASE r.offset = 0
      BY <2>1, <3>1
    <3>2. CASE r.offset > 0
      BY <1>2, <2>1, <3>2 DEF ReaderOK, Overdue
    <3> QED
      BY <3>1, <3>2
  <2>3. Cardinality(NewerIn(S, p)) >= r.offset + PageSize
    BY <1>0, <2>1, <2>2
  <2>4. Cardinality(S) \in Nat /\ Cardinality(NewerIn(S, p)) < Cardinality(S)
    <3>1. p.at \in Nat
      BY <1>0
    <3> QED
      BY <3>1, FewerAreNewer, FS_CardinalityType
  <2>5. ~q.over
    <3> SUFFICES ASSUME q.over PROVE FALSE
      OBVIOUS
    <3>1. Cardinality(S) < r.offset + PageSize
      BY <1>0, <2>4, ShortPages
    <3> QED
      BY <1>0, <2>3, <2>4, <3>1, <2>1
  <2> QED
    BY <2>3, <2>5
<1> QED
  BY <1>1, <1>2 DEF ReaderOK

LEMMA PageInitOK == Posts!Init => PageIInv
<1> SUFFICES ASSUME Posts!Init PROVE PageIInv
  OBVIOUS
<1> QED
  BY FS_EmptySet DEF Posts!Init, PageIInv, Posts!NotReading, ReaderOK, WroteSlug, Posts!NoCall

LEMMA PageStep == PageIInv /\ [Posts!Next]_(Posts!vars) => PageIInv'
<1> SUFFICES ASSUME PageIInv, [Posts!Next]_(Posts!vars) PROVE PageIInv'
  OBVIOUS
<1> USE DEF PageIInv
<1>0. PageSize \in Nat \ {0} /\ Times \subseteq Nat
  BY StoresAssumption DEF Posts!ConstantsOK
<1> DEFINE CallsOK(c) == DOMAIN c = Threads /\ \A t \in Threads : c[t] \in Posts!Calls \cup {Posts!NoCall}
           ThreadsOK == /\ DOMAIN communityPc = Threads /\ DOMAIN wrote = Threads
                        /\ \A t \in Threads : WroteSlug(t)
<1>1. ASSUME UNCHANGED <<posts, reader>>, CallsOK(request'), ThreadsOK' PROVE PageIInv'
  BY <1>1
<1>2. ASSUME NEW t \in Threads, NEW place, Posts!Leave(t, place), NEW S,
             wrote' = wrote \/ wrote' = [wrote EXCEPT ![t] = S]
      PROVE  CallsOK(request') /\ ThreadsOK'
  <2>1. request'[t].op = "none" /\ CallsOK(request')
    BY <1>2 DEF Posts!Leave, Posts!NoCall
  <2>2. /\ \A u \in Threads \ {t} : request'[u] = request[u] /\ communityPc'[u] = communityPc[u]
        /\ DOMAIN communityPc' = Threads
    BY <1>2 DEF Posts!Leave
  <2>3. DOMAIN wrote' = Threads /\ \A u \in Threads \ {t} : wrote'[u] = wrote[u]
    BY <1>2
  <2> QED
    BY <2>1, <2>2, <2>3 DEF WroteSlug
<1>3. ASSUME NEW t \in Threads, Posts!GetConn(t) PROVE PageIInv'
  <2>1. PICK c \in Posts!Calls : request' = [request EXCEPT ![t] = c]
    BY <1>3 DEF Posts!GetConn
  <2>2. CallsOK(request') /\ ThreadsOK'
    BY <1>3, <2>1 DEF Posts!GetConn, WroteSlug
  <2> QED
    BY <1>1, <1>3, <2>2 DEF Posts!GetConn
<1>4. ASSUME NEW t \in Threads,
             \/ Posts!InsertPost(t) \/ Posts!DeletePost(t) \/ Posts!Upsert(t) \/ Posts!PublishSignal(t)
      PROVE  PageIInv'
  <2>1. PICK place : \/ Posts!Go(t, place)
                     \/ Posts!Leave(t, place) /\ UNCHANGED wrote
    BY <1>4, Zenon DEF Posts!InsertPost, Posts!DeletePost, Posts!Upsert, Posts!PublishSignal
  <2>2. UNCHANGED <<posts, reader>>
    BY <1>4 DEF Posts!InsertPost, Posts!DeletePost, Posts!Upsert, Posts!PublishSignal
  <2>3. CASE Posts!Leave(t, place) /\ UNCHANGED wrote
    BY <1>1, <1>2, <2>2, <2>3
  <2>4. CASE Posts!Go(t, place)
    <3>1. request' = request /\ DOMAIN communityPc' = Threads
          /\ \A u \in Threads \ {t} : communityPc'[u] = communityPc[u]
      BY <2>4 DEF Posts!Go
    <3>2. wrote' = wrote \/ \E S : wrote' = [wrote EXCEPT ![t] = S]
      BY <1>4 DEF Posts!InsertPost, Posts!DeletePost, Posts!Upsert, Posts!PublishSignal, Posts!Leave, Posts!Go
    <3>3. request[t].op = "insert" => request[t].slug \in wrote'[t] \/ communityPc'[t] = "rollback"
      BY <1>4 DEF Posts!InsertPost, Posts!DeletePost, Posts!Upsert, Posts!PublishSignal,
         Posts!Executes, Posts!Leave, Posts!Go
    <3>4. ThreadsOK'
      BY <3>1, <3>2, <3>3 DEF WroteSlug
    <3> QED
      BY <1>1, <2>2, <3>1, <3>4
  <2> QED
    BY <2>1, <2>3, <2>4
<1>5. ASSUME NEW t \in Threads,
             \/ Posts!SelectPosts(t) \/ Posts!SelectSignals(t) \/ Posts!SelectCategories(t)
             \/ Posts!DeadlockDetected(t) \/ Posts!Fail(t) \/ Posts!Rollback(t) \/ Posts!PutConn(t)
      PROVE  PageIInv'
  <2>1. /\ UNCHANGED <<posts, reader>> /\ \E place : Posts!Leave(t, place)
        /\ wrote' = wrote \/ wrote' = [wrote EXCEPT ![t] = {}]
    BY <1>5, Zenon DEF Posts!SelectPosts, Posts!SelectSignals, Posts!SelectCategories, Posts!Select,
       Posts!DeadlockDetected, Posts!Fail, Posts!Rollback, Posts!PutConn
  <2> QED
    BY <1>1, <1>2, <2>1
<1>6. ASSUME NEW t \in Threads, Posts!ListPosts(t) PROVE PageIInv'
  <2> DEFINE r == IF reader.over THEN Posts!NotReading ELSE reader
  <2>0. posts' = posts
    BY <1>6 DEF Posts!ListPosts
  <2>1. CallsOK(request') /\ ThreadsOK'
    BY <1>2, <1>6 DEF Posts!ListPosts
  <2>2. CASE reader' = reader
    BY <1>1, <2>0, <2>1, <2>2
  <2>3. ASSUME NEW page \in Posts!PagesOf(r.offset),
               reader' = [r EXCEPT !.offset = @ + PageSize,
                                   !.due = (IF r.offset = 0 THEN Posts!SlugsOf(posts) ELSE @) \ Posts!SlugsOf(page),
                                   !.over = Posts!Cardinality(page) < PageSize]
        PROVE  PageIInv'
    <3>1. /\ r \in [offset : Nat, due : SUBSET Slugs, deleted : BOOLEAN, over : BOOLEAN]
          /\ ~r.over /\ (~r.deleted => ReaderOK(posts, r))
      <4>1. CASE reader.over
        BY <4>1, ReadersStart DEF Posts!NotReading
      <4>2. CASE ~reader.over
        BY <4>2
      <4> QED
        BY <4>1, <4>2
    <3> HIDE DEF r
    <3>2. /\ page \subseteq posts
          /\ Cardinality(page) =
               Cardinality({i \in 1 .. Cardinality(posts) : i > r.offset /\ i <= r.offset + PageSize})
          /\ \A p \in posts : /\ Cardinality(NewerIn(posts, p)) >= r.offset
                              /\ Cardinality(NewerIn(posts, p)) + Cardinality(TiedIn(posts, p))
                                   <= r.offset + PageSize
                              => p \in page
      BY <2>3, PostCardinality DEF Posts!PagesOf, Posts!Windows, Posts!Newer, Posts!Tied, NewerIn, TiedIn
    <3>3. PICK q : q = reader'
      OBVIOUS
    <3>4. /\ q.offset = r.offset + PageSize
          /\ q.due = (IF r.offset = 0 THEN Posts!SlugsOf(posts) ELSE r.due) \ Posts!SlugsOf(page)
          /\ q.over <=> Cardinality(page) < PageSize
          /\ q.deleted <=> r.deleted
      BY <2>3, <3>1, <3>3, PostCardinality
    <3>5. q \in [offset : Nat, due : SUBSET Slugs, deleted : BOOLEAN, over : BOOLEAN]
      <4>1. Posts!SlugsOf(posts) \subseteq Slugs
        BY <3>2 DEF Posts!SlugsOf
      <4>2. /\ r.offset + PageSize \in Nat
            /\ (IF r.offset = 0 THEN Posts!SlugsOf(posts) ELSE r.due) \ Posts!SlugsOf(page) \subseteq Slugs
        BY <1>0, <3>1, <4>1
      <4>3. (Posts!Cardinality(page) < PageSize) \in BOOLEAN
        OBVIOUS
      <4> QED
        BY <2>3, <3>1, <3>3, <4>2, <4>3
    <3>6. ~q.deleted => ReaderOK(posts, q)
      BY <2>0, <3>1, <3>2, <3>4, PagesKeepPages
    <3> QED
      BY <1>0, <2>0, <2>1, <3>1, <3>3, <3>4, <3>5, <3>6
  <2> QED
    BY <1>6, <2>2, <2>3 DEF Posts!ListPosts
<1>7. ASSUME NEW t \in Threads, Posts!Commit(t) PROVE PageIInv'
  <2> DEFINE mine == {p \in posts : p.slug \in wrote[t]}
             new == [slug |-> request[t].slug, by |-> request[t].by, at |-> request[t].at]
  <2>1. CallsOK(request') /\ ThreadsOK'
    BY <1>2, <1>7 DEF Posts!Commit
  <2>2. /\ posts' = IF request[t].op = "insert" THEN posts \cup {new} ELSE posts \ mine
        /\ reader' = [reader EXCEPT !.deleted = @ \/ (mine # {} /\ reader.offset > 0)]
        /\ request[t].op = "insert" => request[t].slug \in wrote[t]
    BY <1>7 DEF Posts!Commit, WroteSlug
  <2>3. request[t].op = "insert" => new \in [slug : Slugs, by : Authors, at : Times]
    BY DEF Posts!Calls, Posts!NoCall
  <2>4. posts' \subseteq [slug : Slugs, by : Authors, at : Times] /\ IsFiniteSet(posts')
    BY <2>2, <2>3, FS_AddElement, FS_Subset
  <2>5. /\ reader' \in [offset : Nat, due : SUBSET Slugs, deleted : BOOLEAN, over : BOOLEAN]
        /\ reader'.offset = reader.offset /\ reader'.due = reader.due
        /\ (reader'.over <=> reader.over)
        /\ reader'.deleted <=> reader.deleted \/ (mine # {} /\ reader.offset > 0)
    BY <2>2
  <2>6. ASSUME ~reader'.deleted PROVE ReaderOK(posts', reader)
    <3>1. CASE reader.offset = 0
      BY <2>4, <3>1, ReadersStart
    <3>2. CASE reader.offset > 0
      <4>1. mine = {} /\ ReaderOK(posts, reader)
        BY <2>5, <2>6, <3>2
      <4>2. posts \subseteq posts' /\ \A p \in posts' : p.slug \in Posts!SlugsOf(posts) => p \in posts
        BY <2>2, <4>1 DEF Posts!SlugsOf
      <4> QED
        BY <2>4, <3>2, <4>1, <4>2, InsertionsKeepPages
    <3> QED
      BY <3>1, <3>2
  <2>7. ~reader'.deleted => ReaderOK(posts', reader')
    BY <2>5, <2>6 DEF ReaderOK, Overdue
  <2> QED
    BY <2>1, <2>4, <2>5, <2>7
<1>8. CASE UNCHANGED Posts!vars
  BY <1>1, <1>8 DEF Posts!vars, WroteSlug
<1> QED
  BY <1>3, <1>4, <1>5, <1>6, <1>7, <1>8 DEF Posts!Next

(* community/store.py, list_posts(): who pages by limit and offset to the    *)
(* end gets every post that was there at the first page, however many are    *)
(* published meanwhile, if none is deleted meanwhile; of posts published at  *)
(* the very same time, which the ORDER BY leaves unordered, it says nothing. *)
THEOREM NoPostIsSkipped == Posts!Spec => []PagesMissNothing
<1>1. PageIInv => PagesMissNothing
  BY PostCardinality DEF PageIInv, ReaderOK, Overdue, TiedIn, PagesMissNothing, Posts!PagesMissNothing,
     Posts!Tied
<1> QED
  BY <1>1, PageInitOK, PageStep, PTL DEF Posts!Spec

-----------------------------------------------------------------------------
(* The parts together: a behaviour of MCStores is one of each part. The      *)
(* posts and what Snipe shares are two uses of the same tables, and a        *)
(* behaviour is of the one that it runs.                                     *)
LEMMA StoresAreTheirParts ==
  Spec => Schema!Spec /\ Shared!Spec /\ Prefs!Spec /\ Index!Spec /\ Recipes!Spec
<1>1. Init => Schema!Init /\ Shared!Init /\ Prefs!Init /\ Index!Init /\ Recipes!Init
  BY DEF Init
<1>2. [Next]_vars => /\ [Schema!Next]_(Schema!vars) /\ [Shared!Next]_(Shared!vars)
                     /\ [Prefs!Next]_(Prefs!vars) /\ [Index!Next]_(Index!vars)
                     /\ [Recipes!Next]_(Recipes!vars)
  BY DEF Next, SchemaSteps, PrefsSteps, IndexSteps, RecipeSteps, PostSteps, SnipeSteps, SharedSteps,
     vars, schemaVars, prefsVars, indexVars, recipeVars, communityVars, sharedVars,
     Schema!vars, Shared!vars, Prefs!vars, Index!vars, Recipes!vars
<1> QED
  BY <1>1, <1>2, PTL DEF Spec, Schema!Spec, Shared!Spec, Prefs!Spec, Index!Spec, Recipes!Spec

LEMMA PostsByThemselves == Spec => (part = "posts" => Posts!Spec)
<1>1. Init => Posts!Init
  BY DEF Init
<1>2. part = "posts" /\ [Next]_vars => (part = "posts")' /\ [Posts!Next]_(Posts!vars)
  BY DEF Next, SchemaSteps, PrefsSteps, IndexSteps, RecipeSteps, PostSteps, SnipeSteps, SharedSteps,
     vars, communityVars, Posts!vars
<1> QED
  BY <1>1, <1>2, PTL DEF Spec, Posts!Spec

LEMMA SnipeByItself == Spec => (part = "snipe" => Snipe!Spec)
<1>1. Init => Snipe!Init
  BY DEF Init, Posts!Init, Snipe!Init, Posts!NotReading, Snipe!NotReading, Posts!NoCall, Snipe!NoCall
<1>2. part = "snipe" /\ [Next]_vars => (part = "snipe")' /\ [Snipe!Next]_(Snipe!vars)
  BY DEF Next, SchemaSteps, PrefsSteps, IndexSteps, RecipeSteps, PostSteps, SnipeSteps, SharedSteps,
     vars, communityVars, Snipe!vars
<1> QED
  BY <1>1, <1>2, PTL DEF Spec, Snipe!Spec

(* Everything that the run checks of the stores, but for progress: with      *)
(* column names that are not parts of each other, one process that sets      *)
(* preferences, and one that uses the vector file.                           *)
THEOREM StoresAreSafe ==
  ASSUME Schema!NamesApart, \A v, w \in Writers : v = w, \A c, d \in Clients : c = d
  PROVE  Spec => /\ [](AppliedIsComplete /\ SavedIsKept /\ CountIsVotes)
                 /\ ImplementsMap
                 /\ part = "posts" => []PagesMissNothing
                 /\ part = "snipe" => []PublishedTogether
<1>1. Schema!Spec /\ Shared!Spec => []AppliedIsComplete
  BY RecordedMeansApplied
<1>2. (Prefs!Spec => []SavedIsKept) /\ (Index!Spec => ImplementsMap)
  BY OneWriterKeeps, OneClientSeesAMap
<1> QED
  BY <1>1, <1>2, CountsAreVotes, NoPostIsSkipped, BatchesAreAtomic,
     StoresAreTheirParts, PostsByThemselves, SnipeByItself, PTL
=============================================================================
