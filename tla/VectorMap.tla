----------------------------- MODULE VectorMap -----------------------------
(* What a vector store promises (vector/base.py): a map from entry id to a  *)
(* vector and its metadata, whose operations take effect at once, or, when  *)
(* they raise, not at all.                                                  *)
CONSTANTS Clients, Operations, None

VARIABLES store,  \* id -> vector and metadata
          call,   \* client -> the operation it called, or None
          status  \* client -> "idle", "pending" or "over"

vars == <<store, call, status>>

Init == /\ store = << >>
        /\ call = [c \in Clients |-> None]
        /\ status = [c \in Clients |-> "idle"]

Keep(kept) == [j \in kept |-> store[j]]

\* "Insert or replace a vector and its metadata", "Remove a single vector by
\* string ID. No-op if not found" and "Remove all vectors whose metadata matches
\* all key-value pairs".
After(o) ==
  CASE o.kind = "upsert" ->
         [j \in DOMAIN store \cup {o.id} |->
            IF j = o.id THEN [vector |-> o.vector, tag |-> o.tag] ELSE store[j]]
    [] o.kind = "delete" -> Keep(DOMAIN store \ {o.id})
    [] o.kind = "deleteWhere" -> Keep({j \in DOMAIN store : store[j].tag # o.tag})

Call(c, o) == /\ status[c] = "idle"
              /\ call' = [call EXCEPT ![c] = o]
              /\ status' = [status EXCEPT ![c] = "pending"]
              /\ UNCHANGED store

\* The operation takes effect, or it raises and changes nothing.
End(c) == /\ status[c] = "pending"
          /\ status' = [status EXCEPT ![c] = "over"]
          /\ store' = After(call[c]) \/ UNCHANGED store
          /\ UNCHANGED call

Return(c) == /\ status[c] = "over"
             /\ status' = [status EXCEPT ![c] = "idle"]
             /\ call' = [call EXCEPT ![c] = None]
             /\ UNCHANGED store

Next == \E c \in Clients :
           (\E o \in Operations : Call(c, o)) \/ End(c) \/ Return(c)

Spec == Init /\ [][Next]_vars
=============================================================================
