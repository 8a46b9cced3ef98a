------------------------------ MODULE License -------------------------------
(***************************************************************************)
(* circuitforge_core/config/license.py: validate_license() asks Heimdall   *)
(* about the key of the environment and caches the answer per key and      *)
(* product. The key was issued for one product; it can be revoked. Threads *)
(* call it concurrently, a call's request takes time and may fail.         *)
(***************************************************************************)
EXTENDS Integers

CONSTANTS
  Calls,      \* threads that call validate_license()
  Products,
  IssuedFor,  \* the product CF_LICENSE_KEY was issued for
  TTL,        \* _CACHE_TTL_SECONDS in ticks
  MaxTime     \* bound on the clock

ConstantsOK == TTL \in Nat \ {0} /\ MaxTime \in Nat /\ IssuedFor \in Products

Tiers == {"free", "paid"}
Reaches(tier, min) == min = "free" \/ tier = "paid"
Invalid == [valid |-> FALSE, tier |-> "free"]
Never == -1

VARIABLES
  keySet,    \* whether CF_LICENSE_KEY is set
  clock,
  licence,   \* what Heimdall has for the key: its tier, or "revoked"
  revokedAt, \* when it was revoked, or Never
  cache,     \* _cache of the key: per product [result, expires]
  pc,        \* per call: "idle", "ask", "store", "returned"
  args,      \* per call [product, min]
  now,       \* per call the clock it took
  result     \* per call

vars == <<keySet, clock, licence, revokedAt, cache, pc, args, now, result>>

NoArgs == [product |-> IssuedFor, min |-> "free"]

Init ==
  /\ keySet \in BOOLEAN
  /\ clock = 0
  /\ licence \in Tiers
  /\ revokedAt = Never
  /\ cache = [p \in Products |-> [result |-> Invalid, expires |-> Never]]
  /\ pc = [c \in Calls |-> "idle"]
  /\ args = [c \in Calls |-> NoArgs]
  /\ now = [c \in Calls |-> 0]
  /\ result = [c \in Calls |-> Invalid]

(* validate_license() up to the request. *)
ValidateLicense(c) ==
  /\ pc[c] = "idle"
  /\ \E p \in Products, min \in Tiers :
       /\ args' = [args EXCEPT ![c] = [product |-> p, min |-> min]]
       /\ \/ /\ keySet => clock < cache[p].expires
             /\ pc' = [pc EXCEPT ![c] = "returned"]
             /\ result' = [result EXCEPT ![c] = IF keySet THEN cache[p].result ELSE Invalid]
          \/ /\ keySet /\ clock >= cache[p].expires
             /\ pc' = [pc EXCEPT ![c] = "ask"]
             /\ UNCHANGED result
  /\ now' = [now EXCEPT ![c] = clock]
  /\ UNCHANGED <<keySet, clock, licence, revokedAt, cache>>

(* /licenses/verify gets the key and min_tier; any failure is Invalid.     *)
Verify(c) ==
  /\ pc[c] = "ask"
  /\ \E r \in {Invalid,
               [valid |-> licence # "revoked" /\ Reaches(licence, args[c].min),
                tier  |-> IF licence = "revoked" THEN "free" ELSE licence]} :
       result' = [result EXCEPT ![c] = r]
  /\ pc' = [pc EXCEPT ![c] = "store"]
  /\ UNCHANGED <<keySet, clock, licence, revokedAt, cache, args, now>>

\* Mutant: an entry lives from the moment the answer came.
StoreFromAnswer(c) ==
  /\ pc[c] = "store"
  /\ cache' = [cache EXCEPT ![args[c].product] = [result |-> result[c], expires |-> clock + TTL]]
  /\ pc' = [pc EXCEPT ![c] = "returned"]
  /\ UNCHANGED <<keySet, clock, licence, revokedAt, args, now, result>>

Store(c) ==
  /\ pc[c] = "store"
  /\ cache' = [cache EXCEPT ![args[c].product] = [result |-> result[c], expires |-> now[c] + TTL]]
  /\ pc' = [pc EXCEPT ![c] = "returned"]
  /\ UNCHANGED <<keySet, clock, licence, revokedAt, args, now, result>>

(* The product uses the result and may call again. *)
Use(c) ==
  /\ pc[c] = "returned"
  /\ pc' = [pc EXCEPT ![c] = "idle"]
  /\ args' = [args EXCEPT ![c] = NoArgs]
  /\ now' = [now EXCEPT ![c] = 0]
  /\ result' = [result EXCEPT ![c] = Invalid]
  /\ UNCHANGED <<keySet, clock, licence, revokedAt, cache>>

Revoke ==
  /\ licence # "revoked"
  /\ licence' = "revoked"
  /\ revokedAt' = clock
  /\ UNCHANGED <<keySet, clock, cache, pc, args, now, result>>

Tick ==
  /\ clock < MaxTime
  /\ clock' = clock + 1
  /\ UNCHANGED <<keySet, licence, revokedAt, cache, pc, args, now, result>>

Next ==
  \/ \E c \in Calls : ValidateLicense(c) \/ Verify(c) \/ Store(c) \/ Use(c)
  \/ Revoke
  \/ Tick

Spec == Init /\ [][Next]_vars

-----------------------------------------------------------------------------
(* license.py:53, "Results are cached for 30 minutes": a call made that    *)
(* long after the key was revoked does not get the old result, however     *)
(* long the requests of other calls took.                                  *)
RevocationIsSeen ==
  \A c \in Calls :
    pc[c] = "returned" /\ result[c].valid => revokedAt = Never \/ now[c] < revokedAt + TTL

(* license.py:45, the key is validated "for the given product".            *)
ValidForProduct ==
  \A c \in Calls : pc[c] = "returned" /\ result[c].valid => args[c].product = IssuedFor
=============================================================================
