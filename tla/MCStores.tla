------------------------------ MODULE MCStores -------------------------------
(* What is kept on disk or in a database: the schema migrations of SQLite    *)
(* and of the community's PostgreSQL, the preferences file, the vector       *)
(* tables, and the community's recipe tags, posts and signals. The stores    *)
(* share nothing; a behaviour runs the part that `part` names.               *)
EXTENDS Naturals, Sequences

CONSTANTS Runners, Scripts, MaxAttempts, MaxKills, Kinds, MaxLosses,
          Writers, Paths, MaxSets, MaxCrashes,
          Clients, Ids, Vectors, Tags, MaxOps,
          Threads, Pseudonyms, Places, NoSub, MaxConn, MaxTags,
          Slugs, Authors, Times, PageSize,
          Batches, Categories, MaxSignals,
          None

VARIABLES part,
          columns, seeded, applied, runnerPc, known, current, script, source, attempt, kills,
          file, tmp, content, writerPc, fd, data, path, saved, raised, seen, crashes,
          meta, vecs, work, writer, clientPc, op, rows, ops,
          tags, votes, nextId, pc, call, held, error,
          posts, catalogue, signals, communityPc, request, wrote, reader,
          present, marked, startup, at, open, losses

Add(t, c) == [kind |-> "add", tbl |-> t, col |-> c]
(* Two migrations over two tables; every column name occurs once.           *)
MCScripts == << <<Add("jobs", "score"), Add("users", "tier"), Add("jobs", "notes")>>,
                <<Add("users", "email"), Add("jobs", "city")>> >>
(* The shared PostgreSQL schema: two tables, the stub, and a new column.    *)
MCKinds == <<"create", "none", "create", "alter">>
(* Two Snipe instances that list the same categories in opposite orders.    *)
MCBatches == {<<"shoes", "boots">>, <<"boots", "shoes">>}

Schema == INSTANCE Migrations
  WITH Extends <- {}, MaxCrashes <- MaxKills, pc <- runnerPc, file <- current, crashes <- kills
(* A column whose name continues the name of another: score, score_raw.     *)
PrefixScripts == << <<Add("jobs", "score"), Add("jobs", "score_raw")>>, <<Add("jobs", "city")>> >>
Prefix == INSTANCE Migrations
  WITH Scripts <- PrefixScripts, Extends <- {<<"score", "score_raw">>},
       MaxCrashes <- 1, pc <- runnerPc, file <- current, crashes <- kills
Shared == INSTANCE CommunityMigrations WITH Starts <- Runners
Prefs == INSTANCE Preferences WITH pc <- writerPc
Index == INSTANCE VectorStore WITH pc <- clientPc
Recipes == INSTANCE RecipeTags
(* The posts, and what Snipe shares, by themselves. *)
Posts == INSTANCE CommunityStore
  WITH Pseudonyms <- Authors, Batches <- {}, Tables <- {"posts"}, MaxSignals <- 0,
       pc <- communityPc, call <- request
Snipe == INSTANCE CommunityStore
  WITH Slugs <- {}, Pseudonyms <- {}, Times <- {}, Tables <- {"signals", "categories"},
       pc <- communityPc, call <- request

ASSUME StoresAssumption ==
  /\ Schema!ConstantsOK /\ Shared!ConstantsOK /\ Prefs!ConstantsOK /\ Index!ConstantsOK
  /\ Recipes!ConstantsOK /\ Posts!ConstantsOK /\ Snipe!ConstantsOK

schemaVars ==
  <<columns, seeded, applied, runnerPc, known, current, script, source, attempt, kills>>
prefsVars == <<file, tmp, content, writerPc, fd, data, path, saved, raised, seen, crashes>>
indexVars == <<meta, vecs, work, writer, clientPc, op, rows, ops>>
recipeVars == <<tags, votes, nextId, pc, call, held, error>>
communityVars == <<posts, catalogue, signals, communityPc, request, wrote, reader>>
sharedVars == <<present, marked, startup, at, open, losses>>
vars == <<part, schemaVars, prefsVars, indexVars, recipeVars, communityVars, sharedVars>>

SchemaSteps ==
  /\ part = "schema" /\ Schema!Next
  /\ UNCHANGED <<part, prefsVars, indexVars, recipeVars, communityVars, sharedVars>>
PrefsSteps ==
  /\ part = "preferences" /\ Prefs!Next
  /\ UNCHANGED <<part, schemaVars, indexVars, recipeVars, communityVars, sharedVars>>
IndexSteps ==
  /\ part = "vectors" /\ Index!Next
  /\ UNCHANGED <<part, schemaVars, prefsVars, recipeVars, communityVars, sharedVars>>
RecipeSteps ==
  /\ part = "recipes" /\ Recipes!Next
  /\ UNCHANGED <<part, schemaVars, prefsVars, indexVars, communityVars, sharedVars>>
PostSteps ==
  /\ part = "posts" /\ Posts!Next
  /\ UNCHANGED <<part, schemaVars, prefsVars, indexVars, recipeVars, sharedVars>>
SnipeSteps ==
  /\ part = "snipe" /\ Snipe!Next
  /\ UNCHANGED <<part, schemaVars, prefsVars, indexVars, recipeVars, sharedVars>>

SharedSteps ==
  /\ part = "shared" /\ Shared!Next
  /\ UNCHANGED <<part, schemaVars, prefsVars, indexVars, recipeVars, communityVars>>

Init == /\ part \in {"schema", "preferences", "vectors", "recipes", "posts", "snipe", "shared"}
        /\ Schema!Init /\ Prefs!Init /\ Index!Init /\ Recipes!Init /\ Posts!Init /\ Shared!Init
        /\ part # "preferences" => path = [w \in Writers |-> CHOOSE p \in Paths : TRUE]
Next == \/ SchemaSteps \/ PrefsSteps \/ IndexSteps \/ RecipeSteps \/ PostSteps \/ SnipeSteps
        \/ SharedSteps
(* Schema!Fairness and Shared!Fairness, each where its part runs. *)
Fairness ==
  \A r \in Runners :
    /\ WF_vars(part = "schema" /\ Schema!Runner(r)
                /\ UNCHANGED <<part, prefsVars, indexVars, recipeVars, communityVars, sharedVars>>)
    /\ WF_vars(part = "shared" /\ Shared!Startup(r)
                /\ UNCHANGED <<part, schemaVars, prefsVars, indexVars, recipeVars, communityVars>>)
Spec == Init /\ [][Next]_vars /\ Fairness

(* The migrations with the prefix, by themselves. *)
PrefixInit ==
  /\ part = "prefix"
  /\ Prefix!Init /\ Prefs!Init /\ Index!Init /\ Recipes!Init /\ Posts!Init /\ Shared!Init
PrefixSteps ==
  Prefix!Next /\ UNCHANGED <<part, prefsVars, indexVars, recipeVars, communityVars, sharedVars>>
PrefixSpec == PrefixInit /\ [][PrefixSteps]_vars

(* The properties of the parts. *)
PrefixIsComplete == Prefix!AppliedIsComplete
(* A migration that is recorded is in the database, SQLite's and PostgreSQL's, *)
(* and so are all before it.                                                   *)
AppliedIsComplete ==
  Schema!AppliedIsComplete /\ Schema!AppliedInOrder /\ Shared!RecordedIsApplied
(* Every startup gets through, whoever else starts and whatever is killed. *)
EveryStartupCompletes ==
  \A r \in Runners : <>(/\ part = "schema" => Schema!Completed(r)
                        /\ part = "shared" => Shared!Completed(r))
SavedIsKept == Prefs!SavedIsKept
ImplementsMap == Index!ImplementsMap
CountIsVotes == Recipes!CountIsVotes
PublishedTogether == Snipe!PublishedTogether
PagesMissNothing == Posts!PagesMissNothing
=============================================================================
