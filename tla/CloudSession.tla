---------------------------- MODULE CloudSession ----------------------------
(***************************************************************************)
(* circuitforge_core/cloud_session: every HTTP request resolves its        *)
(* session in a thread of its own. The user's tier comes from Heimdall and *)
(* is cached; a failed request counts as "free". One tick of the clock is  *)
(* a fraction of the cache's time to live.                                 *)
(***************************************************************************)
EXTENDS Integers, Sequences

CONSTANTS
  Requests,  \* request threads
  Users,     \* the users of the valid tokens
  TTL,       \* _tier_cache_ttl
  MaxTime    \* bound on the clock

ConstantsOK == TTL \in Nat \ {0} /\ MaxTime \in Nat

TIERS == <<"free", "paid">>  \* premium and ultra are more of the same
HeimdallTiers == {"free", "paid", "unlisted"}
Never == -1

Rank(tier) == CHOOSE i \in 1..Len(TIERS) : TIERS[i] = tier
Listed(tier) == \E i \in 1..Len(TIERS) : TIERS[i] = tier

VARIABLES
  cloudMode,  \* CLOUD_MODE
  clock,
  tierOf,     \* per user the tier Heimdall would answer
  told,       \* per user and tier, when Heimdall last had it (a failure is "free")
  cache,      \* _tier_cache: [tier, at]
  pc,         \* per request
  in,         \* per request: the user, the token and whether its IP is bypassed
  now,        \* per request the clock when it looked into the cache
  tier        \* per request what it got: an answer, then its session's tier

vars == <<cloudMode, clock, tierOf, told, cache, pc, in, now, tier>>

Inputs == [user : Users, token : {"none", "valid", "expired"}, bypass : BOOLEAN]

NoInput == [user |-> CHOOSE u \in Users : TRUE, token |-> "none", bypass |-> FALSE]

Init ==
  /\ cloudMode \in BOOLEAN
  /\ clock = 0
  /\ tierOf \in [Users -> HeimdallTiers]
  /\ told = [u \in Users |-> [t \in HeimdallTiers |-> IF t = tierOf[u] THEN 0 ELSE Never]]
  /\ cache = [u \in Users |-> [tier |-> "free", at |-> Never]]
  /\ pc = [r \in Requests |-> "idle"]
  /\ in = [r \in Requests |-> NoInput]
  /\ now = [r \in Requests |-> 0]
  /\ tier = [r \in Requests |-> "free"]

Session(r, t) == tier' = [tier EXCEPT ![r] = t] /\ pc' = [pc EXCEPT ![r] = "resolved"]

(* resolve() up to the first call of Heimdall. A guest's tier is "free".   *)
Resolve(r) ==
  /\ pc[r] = "idle"
  /\ \E i \in Inputs :
       /\ in' = [in EXCEPT ![r] = i]
       /\ \/ ~cloudMode /\ Session(r, "local")
          \/ cloudMode /\ i.token = "none" /\ Session(r, IF i.bypass THEN "local" ELSE "free")
          \/ cloudMode /\ i.token = "expired" /\ Session(r, "free")
          \/ /\ cloudMode /\ i.token = "valid"
             /\ pc' = [pc EXCEPT ![r] = "provision"]
             /\ UNCHANGED tier
  /\ UNCHANGED <<cloudMode, clock, tierOf, told, cache, now>>

(* _ensure_provisioned(): its outcome is ignored, it only takes time.      *)
Provision(r) ==
  /\ pc[r] = "provision"
  /\ pc' = [pc EXCEPT ![r] = "lookup"]
  /\ UNCHANGED <<cloudMode, clock, tierOf, told, cache, in, now, tier>>

Hit(u) == cache[u].at # Never /\ clock - cache[u].at < TTL

(* _resolve_tier() takes the time and looks into the cache ... *)
ResolveTier(r) ==
  LET user == in[r].user IN
  /\ pc[r] = "lookup"
  /\ now' = [now EXCEPT ![r] = clock]
  /\ \/ Hit(user) /\ Session(r, cache[user].tier)
     \/ ~Hit(user) /\ pc' = [pc EXCEPT ![r] = "ask"] /\ UNCHANGED tier
  /\ UNCHANGED <<cloudMode, clock, tierOf, told, cache, in>>

(* ... Heimdall answers, or the request fails or times out ... *)
Answer(r) ==
  LET user == in[r].user IN
  /\ pc[r] = "ask"
  /\ \E t \in {tierOf[user], "free"} :
       /\ tier' = [tier EXCEPT ![r] = t]
       /\ told' = [told EXCEPT ![user][t] = clock]
  /\ pc' = [pc EXCEPT ![r] = "store"]
  /\ UNCHANGED <<cloudMode, clock, tierOf, cache, in, now>>

\* Mutant: the entry is stamped when it is stored.
StoreStampedLate(r) ==
  /\ pc[r] = "store"
  /\ cache' = [cache EXCEPT ![in[r].user] = [tier |-> tier[r], at |-> clock]]
  /\ pc' = [pc EXCEPT ![r] = "resolved"]
  /\ UNCHANGED <<cloudMode, clock, tierOf, told, in, now, tier>>

(* ... and the answer is cached under the time taken before asking.        *)
Store(r) ==
  /\ pc[r] = "store"
  /\ cache' = [cache EXCEPT ![in[r].user] = [tier |-> tier[r], at |-> now[r]]]
  /\ pc' = [pc EXCEPT ![r] = "resolved"]
  /\ UNCHANGED <<cloudMode, clock, tierOf, told, in, now, tier>>

(* require_tier("paid"): 403 below it and for a tier TIERS does not have.  *)
RequirePaid(r) ==
  LET pass == tier[r] = "local" \/ (Listed(tier[r]) /\ Rank(tier[r]) >= Rank("paid")) IN
  /\ pc[r] = "resolved"
  /\ pc' = [pc EXCEPT ![r] = IF pass THEN "passed" ELSE "refused"]
  /\ UNCHANGED <<cloudMode, clock, tierOf, told, cache, in, now, tier>>

(* The response is sent; the thread is free for another request. *)
Respond(r) ==
  /\ pc[r] \in {"passed", "refused"}
  /\ pc' = [pc EXCEPT ![r] = "idle"]
  /\ in' = [in EXCEPT ![r] = NoInput]
  /\ now' = [now EXCEPT ![r] = 0]
  /\ tier' = [tier EXCEPT ![r] = "free"]
  /\ UNCHANGED <<cloudMode, clock, tierOf, told, cache>>

(* A licence is bought, revoked or changed in Heimdall. *)
Relicense(u) ==
  /\ \E t \in HeimdallTiers \ {tierOf[u]} :
       /\ tierOf' = [tierOf EXCEPT ![u] = t]
       /\ told' = [told EXCEPT ![u][t] = clock]
  /\ UNCHANGED <<cloudMode, clock, cache, pc, in, now, tier>>

Tick ==
  /\ clock < MaxTime
  /\ clock' = clock + 1
  /\ told' = [u \in Users |-> [told[u] EXCEPT ![tierOf[u]] = clock']]
  /\ UNCHANGED <<cloudMode, tierOf, cache, pc, in, now, tier>>

Next ==
  \/ \E r \in Requests : \/ Resolve(r) \/ Provision(r) \/ ResolveTier(r) \/ Answer(r)
                         \/ Store(r) \/ RequirePaid(r) \/ Respond(r)
  \/ \E u \in Users : Relicense(u)
  \/ Tick

Spec == Init /\ [][Next]_vars

-----------------------------------------------------------------------------
(* What Heimdall had to say of request r's user within the last TTL before *)
(* r looked into the cache, or since.                                      *)
RecentTiers(r) ==
  {t \in HeimdallTiers : told[in[r].user][t] # Never /\ told[in[r].user][t] > now[r] - TTL}

(* _resolve_tier(), lines 189-218: however the requests of a user overlap  *)
(* and however long Heimdall takes, a session's tier is one Heimdall gave  *)
(* (or a failure to give one) no longer ago than the cache may keep it.    *)
TierIsRecent ==
  \A r \in Requests :
    cloudMode /\ in[r].token = "valid" /\ pc[r] \in {"resolved", "passed", "refused"}
      => tier[r] \in RecentTiers(r)

(* Lines 265-282 and 320-337: who passes require_tier("paid") runs         *)
(* locally, comes from a bypass address without a token, or is a user to   *)
(* whom Heimdall recently gave that tier.                                  *)
OnlyPaidPass ==
  \A r \in Requests :
    pc[r] = "passed" => \/ ~cloudMode
                        \/ in[r].token = "none" /\ in[r].bypass
                        \/ in[r].token = "valid" /\ "paid" \in RecentTiers(r)
=============================================================================
