---------------------------- MODULE Preferences -----------------------------
(***************************************************************************)
(* circuitforge_core/preferences/store.py: LocalFileStore keeps all        *)
(* preferences in one YAML file. set() loads the whole file, writes a      *)
(* temporary file whose name all writers share, and renames it. A path's   *)
(* values are numbers that grow with every set(); an empty or unreadable   *)
(* file reads as {}. A file name leads to an inode and an open file stays  *)
(* on its inode, so a late write reaches whatever name that has by then.   *)
(***************************************************************************)
EXTENDS Naturals, FiniteSets

CONSTANTS
  Writers,    \* the threads that call set()
  Paths,      \* the preferences
  MaxSets,    \* bound on the sets of one path
  MaxCrashes  \* bound on the crashes of the process

ConstantsOK == MaxSets \in Nat /\ MaxCrashes \in Nat /\ IsFiniteSet(Writers)

Unset == [p \in Paths |-> 0]             \* {}, and what a truncated file reads as
Inodes == 1..(Cardinality(Writers) + 2)  \* enough for the open files and both names
NoFile == 0

VARIABLES
  file,     \* inode of the preferences file
  tmp,      \* inode of the temporary file, or NoFile
  content,  \* what each inode holds
  pc,       \* per writer: "idle", "save", "write", "rename"
  fd,       \* per writer the inode it has open
  data,     \* per writer the dict its set() is going to save
  path,     \* per writer the path it sets
  saved,    \* per path, the last value whose set() returned
  raised,   \* the writers whose set() raised
  seen,     \* per path, the highest value some get() returned
  crashes

vars == <<file, tmp, content, pc, fd, data, path, saved, raised, seen, crashes>>

Init ==
  /\ file = 1
  /\ tmp = NoFile
  /\ content = [i \in Inodes |-> Unset]
  /\ pc = [w \in Writers |-> "idle"]
  /\ fd = [w \in Writers |-> NoFile]
  /\ data = [w \in Writers |-> Unset]
  /\ path \in [Writers -> Paths]
  /\ saved = Unset
  /\ raised = {}
  /\ seen = Unset
  /\ crashes = 0

(* What the next set() of p stores: a value no get() has returned yet. *)
Fresh(p) == 1 + saved[p]

\* Mutant: a dict with nothing but the path is saved.
LoadNothing(w) ==
  /\ pc[w] = "idle"
  /\ \E p \in Paths :
       /\ saved[p] < MaxSets
       /\ data' = [data EXCEPT ![w] = [Unset EXCEPT ![p] = Fresh(p)]]
       /\ path' = [path EXCEPT ![w] = p]
  /\ pc' = [pc EXCEPT ![w] = "save"]
  /\ UNCHANGED <<file, tmp, content, fd, saved, raised, seen, crashes>>

(* set(): _load() and set_path() on its result. *)
Load(w) ==
  /\ pc[w] = "idle"
  /\ \E p \in Paths :
       /\ saved[p] < MaxSets
       /\ data' = [data EXCEPT ![w] = [content[file] EXCEPT ![p] = Fresh(p)]]
       /\ path' = [path EXCEPT ![w] = p]
  /\ pc' = [pc EXCEPT ![w] = "save"]
  /\ UNCHANGED <<file, tmp, content, fd, saved, raised, seen, crashes>>

(* _save(): write_text() creates or truncates the temporary file ...       *)
Truncate(w) ==
  /\ pc[w] = "save"
  /\ tmp' = IF tmp # NoFile THEN tmp
            ELSE CHOOSE i \in Inodes : i # file /\ \A v \in Writers : fd[v] # i
  /\ content' = [content EXCEPT ![tmp'] = Unset]
  /\ fd' = [fd EXCEPT ![w] = tmp']
  /\ pc' = [pc EXCEPT ![w] = "write"]
  /\ UNCHANGED <<file, data, path, saved, raised, seen, crashes>>

(* ... and then writes and closes it.                                      *)
Write(w) ==
  /\ pc[w] = "write"
  /\ content' = [content EXCEPT ![fd[w]] = data[w]]
  /\ fd' = [fd EXCEPT ![w] = NoFile]
  /\ pc' = [pc EXCEPT ![w] = "rename"]
  /\ UNCHANGED <<file, tmp, data, path, saved, raised, seen, crashes>>

(* tmp.replace(): raises when another writer renamed the file first.       *)
Rename(w) ==
  /\ pc[w] = "rename"
  /\ pc' = [pc EXCEPT ![w] = "idle"]
  /\ \/ /\ tmp = NoFile
        /\ raised' = raised \cup {w}
        /\ UNCHANGED <<file, tmp, saved>>
     \/ /\ tmp # NoFile
        /\ file' = tmp
        /\ tmp' = NoFile
        /\ saved' = [saved EXCEPT ![path[w]] = data[w][path[w]]]
        /\ UNCHANGED raised
  /\ UNCHANGED <<content, fd, data, path, seen, crashes>>

(* get() of any thread: _load() and get_path(). *)
Get(p) ==
  LET value == content[file][p] IN
  /\ value > seen[p]
  /\ seen' = [seen EXCEPT ![p] = value]
  /\ UNCHANGED <<file, tmp, content, pc, fd, data, path, saved, raised, crashes>>

(* The process dies in a set(); what it left in the directory stays. *)
Crash ==
  /\ crashes < MaxCrashes
  /\ \E w \in Writers : pc[w] # "idle"
  /\ crashes' = crashes + 1
  /\ pc' = [w \in Writers |-> "idle"]
  /\ fd' = [w \in Writers |-> NoFile]
  /\ UNCHANGED <<file, tmp, content, data, path, saved, raised, seen>>

Next ==
  \/ \E w \in Writers : Load(w) \/ Truncate(w) \/ Write(w) \/ Rename(w)
  \/ \E p \in Paths : Get(p)
  \/ Crash

Spec == Init /\ [][Next]_vars

-----------------------------------------------------------------------------
(* store.py:44-45, set() writes atomically: what a set() that returned has *)
(* written is in the file, whatever other paths are set and wherever the   *)
(* process dies, until a newer set() of its path.                          *)
SavedIsKept == \A p \in Paths : content[file][p] >= saved[p]

(* No get() sees a preference go back to what it was before. *)
NeverGoesBack == \A p \in Paths : content[file][p] >= seen[p]

(* store.py:44-45, concurrent set() calls in one process are safe: none of *)
(* them fails because of another.                                          *)
NoSetRaises == raised = {}
=============================================================================
