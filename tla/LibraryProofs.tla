--------------------------- MODULE LibraryProofs ---------------------------
(***************************************************************************)
(* Theorems about the parts of MCLibrary, each about the part's own        *)
(* specification and, at the end, about the bench: for every value of its  *)
(* constants that LibraryAssumption and SyncAssumption admit.              *)
(***************************************************************************)
EXTENDS MCLibrary, Integers, FiniteSetTheorems, SequenceTheorems, WellFoundedInduction, TLAPS

-----------------------------------------------------------------------------
(* The sync store: consent, and the newest blob stays.                     *)
SyncRequests ==
  {Idle} \cup [op : {"push"}, class : Classes, ts : Stamps]
         \cup [op : {"pull"}, enabled : SUBSET Classes]

SyncTypeOK ==
  /\ prefs \in [Keys -> {"on", "off", None}]
  /\ blobs \in [Keys -> Stamps \cup {None}]
  /\ req \in [Devices -> SyncRequests]
  /\ DOMAIN reply = Devices
  /\ optedIn \subseteq Keys

SyncIInv == SyncTypeOK /\ NothingWithoutOptIn

LEMMA SyncInit == Init => SyncIInv
BY SyncAssumption DEF Init, SyncIInv, SyncTypeOK, NothingWithoutOptIn, SyncRequests, Idle

LEMMA SyncPrefs ==
  ASSUME NEW user \in Users, NEW c \in Classes, NEW enabled \in {"on", "off"},
         SyncIInv, SetSyncPref(user, c, enabled)
  PROVE  SyncIInv'
<1>1. <<user, c>> \in Keys
  BY DEF Keys
<1>2. SyncTypeOK'
  BY <1>1 DEF SyncIInv, SyncTypeOK, SetSyncPref
<1>3. NothingWithoutOptIn'
  BY <1>1 DEF SyncIInv, SyncTypeOK, NothingWithoutOptIn, SetSyncPref
<1> QED
  BY <1>2, <1>3 DEF SyncIInv

LEMMA SyncDeletion ==
  ASSUME NEW user \in Users, NEW cs \in SUBSET Classes,
         SyncIInv, DeleteBlobs(user, cs) \/ WipeSyncData(user, cs)
  PROVE  SyncIInv'
<1>1. SyncTypeOK'
  BY DEF SyncIInv, SyncTypeOK, DeleteBlobs, WipeSyncData
<1>2. /\ \A k \in Keys : blobs'[k] # None => blobs[k] # None
      /\ \A k \in Keys : prefs'[k] = "on" => prefs[k] = "on"
      /\ req' = req /\ optedIn' = optedIn
  BY SyncAssumption DEF SyncIInv, SyncTypeOK, DeleteBlobs, WipeSyncData
<1> QED
  BY <1>1, <1>2 DEF SyncIInv, NothingWithoutOptIn

LEMMA SyncPushCheck ==
  ASSUME NEW d \in Devices, NEW c \in Classes, NEW ts \in Stamps,
         SyncIInv, PushCheck(d, c, ts)
  PROVE  SyncIInv'
<1> USE DEF SyncIInv, SyncTypeOK
<1>1. CASE IsEnabled(Owner[d], c)
  <2>1. <<Owner[d], c>> \in Keys /\ prefs[<<Owner[d], c>>] = "on"
    BY <1>1, SyncAssumption DEF IsEnabled, Keys
  <2>2. req' = [req EXCEPT ![d] = [op |-> "push", class |-> c, ts |-> ts]]
        /\ UNCHANGED <<reply, prefs, blobs, optedIn>>
    BY <1>1 DEF PushCheck
  <2>3. SyncTypeOK'
    BY <2>2 DEF SyncRequests
  <2>4. NothingWithoutOptIn'
    BY <2>1, <2>2 DEF NothingWithoutOptIn
  <2> QED
    BY <2>3, <2>4
<1>2. CASE ~IsEnabled(Owner[d], c)
  BY <1>2 DEF PushCheck, NothingWithoutOptIn
<1> QED
  BY <1>1, <1>2

LEMMA SyncPushWrite == ASSUME NEW d \in Devices, SyncIInv, PushWrite(d) PROVE SyncIInv'
<1> USE DEF SyncIInv, SyncTypeOK
<1> DEFINE k == <<Owner[d], req[d].class>>
<1>1. req[d] \in [op : {"push"}, class : Classes, ts : Stamps]
  BY DEF PushWrite, SyncRequests, Idle
<1>2. k \in Keys /\ k \in optedIn
  BY <1>1, SyncAssumption DEF Keys, NothingWithoutOptIn
<1>3. \A x \in Keys : blobs'[x] = blobs[x] \/ x = k
  BY <1>2 DEF PushWrite
<1>4. SyncTypeOK'
  BY <1>1, <1>2 DEF PushWrite, SyncRequests
<1>5. prefs' = prefs /\ optedIn' = optedIn /\ \A e \in Devices : req'[e] = req[e] \/ req'[e] = Idle
  BY DEF PushWrite
<1>6. NothingWithoutOptIn'
  BY <1>2, <1>3, <1>5 DEF NothingWithoutOptIn, Idle
<1> QED
  BY <1>4, <1>6

LEMMA SyncPull ==
  ASSUME NEW d \in Devices, SyncIInv, PullPrefs(d) \/ PullRead(d)
  PROVE  SyncIInv'
<1> USE DEF SyncIInv, SyncTypeOK
<1>1. UNCHANGED <<prefs, blobs, optedIn>>
  BY DEF PullPrefs, PullRead
<1>2. req' \in [Devices -> SyncRequests] /\ DOMAIN reply' = Devices
  BY DEF PullPrefs, PullRead, SyncRequests
<1>3. \A e \in Devices : req'[e].op = "push" => req'[e] = req[e]
  BY DEF PullPrefs, PullRead, Idle
<1> QED
  BY <1>1, <1>2, <1>3 DEF NothingWithoutOptIn

LEMMA SyncStep == SyncIInv /\ [Next]_vars => SyncIInv'
<1> SUFFICES ASSUME SyncIInv, [Next]_vars PROVE SyncIInv'
  OBVIOUS
<1>1. CASE UNCHANGED vars
  BY <1>1 DEF vars, SyncIInv, SyncTypeOK, NothingWithoutOptIn
<1>2. CASE \E user \in Users, c \in Classes, enabled \in {"on", "off"} : SetSyncPref(user, c, enabled)
  BY <1>2, SyncPrefs
<1>3. CASE \E user \in Users, cs \in Scopes : DeleteBlobs(user, cs) \/ WipeSyncData(user, cs)
  BY <1>3, SyncDeletion DEF Scopes
<1>4. CASE \E d \in Devices, c \in Classes, ts \in Stamps : PushCheck(d, c, ts)
  BY <1>4, SyncPushCheck
<1>5. CASE \E d \in Devices : PushWrite(d) \/ PullPrefs(d) \/ PullRead(d)
  BY <1>5, SyncPushWrite, SyncPull
<1> QED
  BY <1>1, <1>2, <1>3, <1>4, <1>5 DEF Next

LEMMA SyncInvariance == Spec => []SyncIInv
BY SyncInit, SyncStep, PTL DEF Spec

(* Nothing is stored, or on its way into the store, for a class whose user *)
(* never opted in (is_enabled: no row is no consent).                      *)
THEOREM ConsentFirst == Spec => []NothingWithoutOptIn
BY SyncInvariance, PTL DEF SyncIInv

(* A stored blob is only replaced by a newer one (push, its WHERE clause). *)
THEOREM NewestBlobStays == Spec => LastWriteWins
<1> DEFINE Grows == \A k \in Keys : blobs[k] # None /\ blobs'[k] # None => blobs'[k] >= blobs[k]
<1>1. SyncIInv /\ [Next]_vars => [Grows]_vars
  <2> SUFFICES ASSUME SyncIInv, Next, NEW k \in Keys, blobs[k] # None, blobs'[k] # None
               PROVE  blobs'[k] >= blobs[k]
    OBVIOUS
  <2>1. blobs[k] \in Nat
    BY SyncAssumption DEF SyncIInv, SyncTypeOK
  <2>2. CASE \E d \in Devices : PushWrite(d)
    <3>1. PICK d \in Devices : PushWrite(d)
      BY <2>2
    <3>2. req[d] \in [op : {"push"}, class : Classes, ts : Stamps]
      BY <3>1 DEF PushWrite, SyncRequests, Idle, SyncIInv, SyncTypeOK
    <3>3. <<Owner[d], req[d].class>> \in Keys
      BY <3>2, SyncAssumption DEF Keys
    <3>4. blobs'[k] = blobs[k] \/ (Newer(k, req[d].ts) /\ blobs'[k] = req[d].ts)
      BY <3>1, <3>3 DEF PushWrite, SyncIInv, SyncTypeOK
    <3>5. req[d].ts \in Nat
      BY <3>2, SyncAssumption
    <3> QED
      BY <2>1, <3>4, <3>5 DEF Newer
  <2>3. CASE \E user \in Users, cs \in Scopes : DeleteBlobs(user, cs) \/ WipeSyncData(user, cs)
    <3>1. blobs'[k] = blobs[k] \/ blobs'[k] = None
      BY <2>3 DEF DeleteBlobs, WipeSyncData
    <3> QED
      BY <2>1, <3>1
  <2>4. CASE blobs' = blobs
    BY <2>1, <2>4
  <2> QED
    BY <2>2, <2>3, <2>4 DEF Next, SetSyncPref, PushCheck, PullPrefs, PullRead
<1>2. SyncIInv /\ [Next]_vars => [\A k \in Keys : blobs[k] # None /\ blobs'[k] # None
                                => blobs'[k] >= blobs[k]]_vars
  BY <1>1
<1> QED
  BY <1>2, SyncInvariance, PTL DEF Spec, LastWriteWins

-----------------------------------------------------------------------------
(* License: once the revocation was seen the cache cannot hide it for long. *)
LicenceTypeOK ==
  /\ clock \in Nat
  /\ licence \in {"free", "paid", "revoked"}
  /\ revokedAt \in Nat \cup {Licence!Never}
  /\ cache \in [Products -> [result : [valid : BOOLEAN, tier : {"free", "paid"}], expires : Int]]
  /\ pc \in [Calls -> {"idle", "ask", "store", "returned"}]
  /\ args \in [Calls -> [product : Products, min : {"free", "paid"}]]
  /\ now \in [Calls -> Nat]
  /\ result \in [Calls -> [valid : BOOLEAN, tier : {"free", "paid"}]]

Revoked == revokedAt # Licence!Never
(* A valid answer, under way or cached, was asked for before the revocation. *)
LicenceIInv ==
  /\ LicenceTypeOK
  /\ Revoked => licence = "revoked" /\ revokedAt <= clock
  /\ \A k \in Calls : now[k] <= clock
  /\ \A k \in Calls : pc[k] = "store" /\ result[k].valid /\ Revoked => now[k] <= revokedAt
  /\ \A p \in Products : cache[p].expires <= clock + LicenseTTL
  /\ \A p \in Products : cache[p].result.valid /\ Revoked => cache[p].expires <= revokedAt + LicenseTTL
  /\ RevocationIsSeen

LEMMA LicenceInit == Licence!Init => LicenceIInv
BY LibraryAssumption DEF Licence!ConstantsOK, Licence!Init, LicenceIInv, LicenceTypeOK, Revoked, Licence!Tiers,
   Licence!Invalid, Licence!Never, Licence!NoArgs, RevocationIsSeen, Licence!RevocationIsSeen

LEMMA LicenceCallStep ==
  ASSUME LicenceIInv, NEW k \in Calls,
         Licence!ValidateLicense(k) \/ Licence!Verify(k) \/ Licence!Store(k) \/ Licence!Use(k)
  PROVE  LicenceIInv'
<1> USE LibraryAssumption DEF Licence!ConstantsOK, LicenceIInv, LicenceTypeOK, Revoked, Licence!Never,
        Licence!Invalid, Licence!Tiers, RevocationIsSeen, Licence!RevocationIsSeen
<1>1. CASE Licence!ValidateLicense(k)
  <2>1. PICK p \in Products, min \in {"free", "paid"} :
          /\ args' = [args EXCEPT ![k] = [product |-> p, min |-> min]]
          /\ \/ /\ keySet => clock < cache[p].expires
                /\ pc' = [pc EXCEPT ![k] = "returned"]
                /\ result' = [result EXCEPT ![k] = IF keySet THEN cache[p].result ELSE Licence!Invalid]
             \/ pc' = [pc EXCEPT ![k] = "ask"] /\ UNCHANGED result
    BY <1>1 DEF Licence!ValidateLicense
  <2>2. UNCHANGED <<clock, licence, revokedAt, cache>> /\ now' = [now EXCEPT ![k] = clock]
    BY <1>1 DEF Licence!ValidateLicense
  <2>3. LicenceTypeOK'
    <3>1. result' \in [Calls -> [valid : BOOLEAN, tier : {"free", "paid"}]]
      <4>1. cache[p].result \in [valid : BOOLEAN, tier : {"free", "paid"}]
        OBVIOUS
      <4>2. Licence!Invalid \in [valid : BOOLEAN, tier : {"free", "paid"}]
        OBVIOUS
      <4> QED
        BY <2>1, <4>1, <4>2
    <3>2. pc' \in [Calls -> {"idle", "ask", "store", "returned"}]
      BY <2>1
    <3>3. args' \in [Calls -> [product : Products, min : {"free", "paid"}]]
      BY <2>1
    <3> QED
      BY <2>2, <3>1, <3>2, <3>3
  <2>4. RevocationIsSeen'
    BY <2>1, <2>2
  <2> QED
    BY <2>1, <2>2, <2>3, <2>4
<1>2. CASE Licence!Verify(k)
  <2>1. PICK r \in {Licence!Invalid,
                  [valid |-> licence # "revoked" /\ Licence!Reaches(licence, args[k].min),
                   tier  |-> IF licence = "revoked" THEN "free" ELSE licence]} :
          result' = [result EXCEPT ![k] = r]
    BY <1>2 DEF Licence!Verify
  <2>3. r \in [valid : BOOLEAN, tier : {"free", "paid"}] /\ (r.valid => licence # "revoked")
    <3>1. CASE r = Licence!Invalid
      BY <3>1
    <3>2. CASE r = [valid |-> licence # "revoked" /\ Licence!Reaches(licence, args[k].min),
                    tier  |-> IF licence = "revoked" THEN "free" ELSE licence]
      BY <3>2, Zenon DEF Licence!Reaches
    <3> QED
      BY <2>1, <3>1, <3>2
  <2>2. UNCHANGED <<clock, licence, revokedAt, cache, now, args>> /\ pc' = [pc EXCEPT ![k] = "store"]
    BY <1>2 DEF Licence!Verify
  <2> HIDE DEF Licence!Invalid
  <2> QED
    BY <2>1, <2>2, <2>3
<1>3. CASE Licence!Store(k)
  BY <1>3 DEF Licence!Store
<1>4. CASE Licence!Use(k)
  BY <1>4 DEF Licence!Use, Licence!NoArgs
<1> QED
  BY <1>1, <1>2, <1>3, <1>4

LEMMA LicenceStep == LicenceIInv /\ [Licence!Next]_(Licence!vars) => LicenceIInv'
<1> SUFFICES ASSUME LicenceIInv, [Licence!Next]_(Licence!vars) PROVE LicenceIInv'
  OBVIOUS
<1> USE LibraryAssumption DEF Licence!ConstantsOK, LicenceIInv, LicenceTypeOK, Revoked, Licence!Never,
        RevocationIsSeen, Licence!RevocationIsSeen
<1>1. CASE Licence!Revoke
  BY <1>1 DEF Licence!Revoke
<1>2. CASE Licence!Tick
  BY <1>2 DEF Licence!Tick
<1>3. CASE UNCHANGED Licence!vars
  BY <1>3 DEF Licence!vars
<1> QED
  BY <1>1, <1>2, <1>3, LicenceCallStep DEF Licence!Next

(* verify_key() reads its cache before it asks Heimdall: a tier it still     *)
(* reports is that of a key that was valid no more than a TTL before.       *)
THEOREM RevocationTakesEffect == Licence!Spec => []RevocationIsSeen
<1>1. LicenceIInv => RevocationIsSeen
  BY DEF LicenceIInv
<1> QED
  BY <1>1, LicenceInit, LicenceStep, PTL DEF Licence!Spec

-----------------------------------------------------------------------------
(* CloudSession: a session has a tier that Heimdall gave within the TTL.   *)
Answers == {"free", "paid", "unlisted"}
Asking == {"provision", "lookup", "ask", "store"}
Ended == {"resolved", "passed", "refused"}

SessionTypeOK ==
  /\ sessionClock \in Nat
  /\ tierOf \in [Accounts -> Answers]
  /\ told \in [Accounts -> [Answers -> Nat \cup {Session!Never}]]
  /\ sessionCache \in [Accounts -> [tier : Answers, at : Nat \cup {Session!Never}]]
  /\ sessionPc \in [Requests -> {"idle"} \cup Asking \cup Ended]
  /\ DOMAIN in = Requests
  /\ \A r \in Requests : in[r].token = "valid" => in[r].user \in Accounts
  /\ asked \in [Requests -> Nat]
  /\ tier \in [Requests -> Answers \cup {"local"}]

(* told has what Heimdall would answer now, and is at least as late as the *)
(* stamp of the answer in the cache.                                       *)
AccountOK(a) ==
  /\ told[a][tierOf[a]] = sessionClock
  /\ \A t \in Answers : told[a][t] <= sessionClock
  /\ sessionCache[a].at <= told[a][sessionCache[a].tier]

(* So is it of an answer on its way into the cache. *)
RequestOK(r) ==
  /\ asked[r] <= sessionClock
  /\ sessionPc[r] \in Asking => cloudMode /\ in[r].token = "valid"
  /\ sessionPc[r] = "store" => tier[r] \in Answers /\ asked[r] <= told[in[r].user][tier[r]]
  /\ cloudMode /\ in[r].token = "valid" /\ sessionPc[r] \in Ended => tier[r] \in Session!RecentTiers(r)

SessionIInv ==
  /\ SessionTypeOK
  /\ \A a \in Accounts : AccountOK(a)
  /\ \A r \in Requests : RequestOK(r)

LEMMA SessionInit == Session!Init => SessionIInv
BY LibraryAssumption DEF Session!ConstantsOK, Session!Init, SessionIInv, SessionTypeOK,
   AccountOK, RequestOK, Session!Never, Session!HeimdallTiers, Session!NoInput, Answers, Asking, Ended

(* What Heimdall said is never forgotten: told and the clock only grow. *)
Grows == /\ \A a \in Accounts, t \in Answers : told[a][t] <= told'[a][t]
         /\ sessionClock <= sessionClock'

\* Requests that do not move keep what is known of them.
LEMMA RequestStays ==
  ASSUME SessionIInv, SessionTypeOK', Grows, NEW r \in Requests, cloudMode' = cloudMode,
         in'[r] = in[r], asked'[r] = asked[r], tier'[r] = tier[r], sessionPc'[r] = sessionPc[r]
  PROVE  RequestOK(r)'
<1> DEFINE a == in[r].user
           t == tier[r]
<1>1. RequestOK(r) /\ asked[r] \in Nat /\ sessionClock \in Nat /\ sessionClock' \in Nat
      /\ SessionTTL \in Nat
  BY LibraryAssumption DEF SessionIInv, SessionTypeOK, Session!ConstantsOK
<1>2. ASSUME in[r].token = "valid", t \in Answers
      PROVE  told[a][t] \in Nat \cup {-1} /\ told'[a][t] \in Nat \cup {-1} /\ told[a][t] <= told'[a][t]
  BY <1>2 DEF SessionIInv, SessionTypeOK, Grows, Session!Never
<1>3. sessionPc[r] = "store" => t \in Answers /\ asked[r] <= told'[a][t]
  BY <1>1, <1>2 DEF RequestOK, Asking
<1>4. ASSUME cloudMode, in[r].token = "valid", sessionPc[r] \in Ended
      PROVE  t \in Answers /\ told'[a][t] # -1 /\ told'[a][t] > asked[r] - SessionTTL
  <2>1. t \in Answers /\ told[a][t] # -1 /\ told[a][t] > asked[r] - SessionTTL
    BY <1>1, <1>4 DEF RequestOK, Session!RecentTiers, Session!HeimdallTiers, Answers, Session!Never
  <2> QED
    BY <1>1, <1>2, <1>4, <2>1
<1> QED
  BY <1>1, <1>3, <1>4 DEF RequestOK, Grows, Session!RecentTiers, Session!HeimdallTiers, Answers, Session!Never

\* Accounts keep their order of times when only Heimdall's side moves.
LEMMA WorldStep ==
  ASSUME SessionIInv, SessionTypeOK', Grows,
         \A a \in Accounts : told'[a][tierOf'[a]] = sessionClock',
         \A a \in Accounts, t \in Answers : told'[a][t] <= sessionClock',
         UNCHANGED <<cloudMode, sessionCache, sessionPc, in, asked, tier>>
  PROVE  SessionIInv'
<1>1. ASSUME NEW a \in Accounts PROVE AccountOK(a)'
  <2> DEFINE c == sessionCache[a]
  <2>1. c.tier \in Answers /\ c.at \in Int
        /\ told[a][c.tier] \in Int /\ told'[a][c.tier] \in Int
    BY DEF SessionIInv, SessionTypeOK, Session!Never
  <2>2. c.at <= told[a][c.tier] /\ told[a][c.tier] <= told'[a][c.tier]
    BY <2>1 DEF SessionIInv, AccountOK, Grows
  <2>3. c.at <= told'[a][c.tier]
    BY <2>1, <2>2
  <2> QED
    BY <2>3 DEF AccountOK
<1> QED
  BY <1>1, RequestStays DEF SessionIInv

LEMMA SessionTick == SessionIInv /\ Session!Tick => SessionIInv'
<1> SUFFICES ASSUME SessionIInv, Session!Tick PROVE SessionIInv'
  OBVIOUS
<1>1. /\ told' = [a \in Accounts |-> [told[a] EXCEPT ![tierOf[a]] = sessionClock']]
      /\ sessionClock' = sessionClock + 1
      /\ UNCHANGED <<cloudMode, tierOf, sessionCache, sessionPc, in, asked, tier>>
  BY DEF Session!Tick
<1>2. SessionTypeOK'
  BY <1>1 DEF SessionIInv, SessionTypeOK
<1>3. ASSUME NEW a \in Accounts, NEW t \in Answers
      PROVE  told[a][t] <= told'[a][t] /\ told'[a][t] <= sessionClock' /\ told'[a][tierOf[a]] = sessionClock'
  <2>1. told[a] \in [Answers -> Nat \cup {-1}] /\ sessionClock \in Nat /\ tierOf[a] \in Answers
    BY DEF SessionIInv, SessionTypeOK, Session!Never
  <2>2. told'[a] = [told[a] EXCEPT ![tierOf[a]] = sessionClock + 1]
    BY <1>1
  <2>3. told[a][t] <= sessionClock /\ told[a][tierOf[a]] = sessionClock
    BY DEF SessionIInv, AccountOK
  <2> QED
    BY <1>1, <2>1, <2>2, <2>3
<1>4. Grows
  BY <1>1, <1>3 DEF Grows, SessionIInv, SessionTypeOK
<1>5. \A a \in Accounts : told'[a][tierOf'[a]] = sessionClock'
  BY <1>1, <1>3 DEF Answers
<1> QED
  BY <1>1, <1>2, <1>3, <1>4, <1>5, WorldStep

LEMMA SessionRelicense == ASSUME NEW user \in Accounts, SessionIInv, Session!Relicense(user) PROVE SessionIInv'
<1>1. PICK new \in Answers : /\ tierOf' = [tierOf EXCEPT ![user] = new]
                             /\ told' = [told EXCEPT ![user][new] = sessionClock]
  BY DEF Session!Relicense, Session!HeimdallTiers, Answers
<1>2. UNCHANGED <<cloudMode, sessionClock, sessionCache, sessionPc, in, asked, tier>>
  BY DEF Session!Relicense
<1>3. SessionTypeOK'
  BY <1>1, <1>2 DEF SessionIInv, SessionTypeOK
<1>4. ASSUME NEW a \in Accounts, NEW t \in Answers
      PROVE  told[a][t] <= told'[a][t] /\ told'[a][t] <= sessionClock'
             /\ told'[a][tierOf'[a]] = sessionClock'
  <2>1. told[a] \in [Answers -> Nat \cup {-1}] /\ sessionClock \in Nat /\ tierOf[a] \in Answers
        /\ told \in [Accounts -> [Answers -> Nat \cup {-1}]] /\ tierOf \in [Accounts -> Answers]
    BY DEF SessionIInv, SessionTypeOK, Session!Never
  <2>2. told'[a] = IF a = user THEN [told[a] EXCEPT ![new] = sessionClock] ELSE told[a]
    BY <1>1, <2>1
  <2>3. tierOf'[a] = IF a = user THEN new ELSE tierOf[a]
    BY <1>1, <2>1
  <2>4. told[a][t] <= sessionClock /\ told[a][tierOf[a]] = sessionClock
    BY DEF SessionIInv, AccountOK
  <2> QED
    BY <1>2, <2>1, <2>2, <2>3, <2>4
<1>5. Grows
  BY <1>2, <1>4 DEF Grows, SessionIInv, SessionTypeOK
<1>6. \A a \in Accounts : told'[a][tierOf'[a]] = sessionClock'
  BY <1>4 DEF Answers
<1> QED
  BY <1>2, <1>3, <1>4, <1>5, <1>6, WorldStep

(* Where no answer is given, told and the clock stand still. *)
LEMMA RequestStep ==
  ASSUME SessionIInv, SessionTypeOK', NEW r \in Requests, RequestOK(r)',
         UNCHANGED <<cloudMode, sessionClock, tierOf, told, sessionCache>>,
         \A s \in Requests \ {r} :
           in'[s] = in[s] /\ asked'[s] = asked[s] /\ tier'[s] = tier[s] /\ sessionPc'[s] = sessionPc[s]
  PROVE  SessionIInv'
<1>1. Grows
  BY DEF Grows, SessionIInv, SessionTypeOK, Session!Never
<1>2. \A s \in Requests : RequestOK(s)'
  BY <1>1, RequestStays
<1>3. \A a \in Accounts : AccountOK(a)'
  BY DEF SessionIInv, AccountOK
<1> QED
  BY <1>2, <1>3 DEF SessionIInv

LEMMA SessionLookup ==
  ASSUME SessionIInv, NEW r \in Requests,
         Session!Resolve(r) \/ Session!Provision(r) \/ Session!ResolveTier(r)
  PROVE  SessionIInv'
<1>1. CASE Session!Resolve(r)
  <2>1. PICK i \in Session!Inputs :
          /\ in' = [in EXCEPT ![r] = i]
          /\ \/ \E t \in {"local", "free"} :
                  /\ tier' = [tier EXCEPT ![r] = t]
                  /\ sessionPc' = [sessionPc EXCEPT ![r] = "resolved"]
                  /\ ~cloudMode \/ i.token # "valid"
             \/ /\ cloudMode /\ i.token = "valid" /\ tier' = tier
                /\ sessionPc' = [sessionPc EXCEPT ![r] = "provision"]
    BY <1>1 DEF Session!Resolve, Session!Session
  <2>2. UNCHANGED <<cloudMode, sessionClock, tierOf, told, sessionCache, asked>>
    BY <1>1 DEF Session!Resolve
  <2>3. i.token = "valid" => i.user \in Accounts
    BY DEF Session!Inputs
  <2>4. SessionTypeOK'
    BY <2>1, <2>2, <2>3 DEF SessionIInv, SessionTypeOK, Answers, Asking, Ended
  <2>5. RequestOK(r)'
    BY <2>1, <2>2 DEF SessionIInv, SessionTypeOK, RequestOK, Asking, Ended
  <2> QED
    BY <2>1, <2>2, <2>4, <2>5, RequestStep DEF SessionIInv, SessionTypeOK
<1>2. CASE Session!Provision(r)
  <2>1. SessionTypeOK' /\ RequestOK(r)'
    BY <1>2 DEF Session!Provision, SessionIInv, SessionTypeOK, RequestOK, Asking, Ended
  <2> QED
    BY <1>2, <2>1, RequestStep DEF Session!Provision, SessionIInv, SessionTypeOK
<1>3. CASE Session!ResolveTier(r)
  <2> DEFINE a == in[r].user
             c == sessionCache[a]
  <2>1. cloudMode /\ in[r].token = "valid" /\ a \in Accounts
    BY <1>3 DEF Session!ResolveTier, SessionIInv, SessionTypeOK, RequestOK, Asking
  <2>2. /\ asked' = [asked EXCEPT ![r] = sessionClock]
        /\ UNCHANGED <<cloudMode, sessionClock, tierOf, told, sessionCache, in>>
        /\ \/ /\ Session!Hit(a) /\ tier' = [tier EXCEPT ![r] = c.tier]
              /\ sessionPc' = [sessionPc EXCEPT ![r] = "resolved"]
           \/ sessionPc' = [sessionPc EXCEPT ![r] = "ask"] /\ tier' = tier
    BY <1>3 DEF Session!ResolveTier, Session!Session
  <2>3. c.tier \in Answers /\ c.at \in Nat \cup {-1} /\ told[a][c.tier] \in Int
        /\ sessionClock \in Nat /\ SessionTTL \in Nat
    BY <2>1, LibraryAssumption DEF SessionIInv, SessionTypeOK, Session!Never, Session!ConstantsOK
  <2>4. SessionTypeOK'
    BY <2>2, <2>3 DEF SessionIInv, SessionTypeOK, Asking, Ended
  <2>5. ASSUME Session!Hit(a) PROVE told[a][c.tier] # -1 /\ told[a][c.tier] > sessionClock - SessionTTL
    <3>1. c.at <= told[a][c.tier]
      BY <2>1 DEF SessionIInv, AccountOK
    <3> QED
      BY <2>3, <2>5, <3>1 DEF Session!Hit, Session!Never
  <2>6. RequestOK(r)'
    BY <2>1, <2>2, <2>3, <2>5 DEF SessionIInv, SessionTypeOK, RequestOK, Asking, Ended,
       Session!RecentTiers, Session!HeimdallTiers, Answers, Session!Never
  <2> QED
    BY <2>2, <2>4, <2>6, RequestStep DEF SessionIInv, SessionTypeOK
<1> QED
  BY <1>1, <1>2, <1>3

LEMMA SessionAnswer == ASSUME SessionIInv, NEW r \in Requests, Session!Answer(r) PROVE SessionIInv'
<1> DEFINE user == in[r].user
<1>1. cloudMode /\ in[r].token = "valid" /\ user \in Accounts
  BY DEF Session!Answer, SessionIInv, SessionTypeOK, RequestOK, Asking
<1>2. PICK new \in {tierOf[user], "free"} :
        /\ tier' = [tier EXCEPT ![r] = new]
        /\ told' = [told EXCEPT ![user][new] = sessionClock]
  BY DEF Session!Answer
<1>3. /\ sessionPc' = [sessionPc EXCEPT ![r] = "store"]
      /\ UNCHANGED <<cloudMode, sessionClock, tierOf, sessionCache, in, asked>>
  BY DEF Session!Answer
<1>4. new \in Answers
  BY <1>1 DEF SessionIInv, SessionTypeOK, Answers
<1>5. SessionTypeOK'
  BY <1>2, <1>3, <1>4 DEF SessionIInv, SessionTypeOK, Asking
<1>6. ASSUME NEW a \in Accounts, NEW t \in Answers
      PROVE  /\ told[a][t] <= told'[a][t] /\ told'[a][t] <= sessionClock
             /\ told'[a][tierOf[a]] = sessionClock /\ told'[user][new] = sessionClock
  <2>1. told[a] \in [Answers -> Nat \cup {-1}] /\ sessionClock \in Nat /\ tierOf[a] \in Answers
        /\ told \in [Accounts -> [Answers -> Nat \cup {-1}]] /\ tierOf \in [Accounts -> Answers]
    BY DEF SessionIInv, SessionTypeOK, Session!Never
  <2>2. told'[a] = IF a = user THEN [told[a] EXCEPT ![new] = sessionClock] ELSE told[a]
    BY <1>2, <2>1
  <2>3. told'[user] = [told[user] EXCEPT ![new] = sessionClock] /\ told[user] \in [Answers -> Nat \cup {-1}]
    BY <1>1, <1>2, <2>1
  <2>4. told[a][t] <= sessionClock /\ told[a][tierOf[a]] = sessionClock
    BY DEF SessionIInv, AccountOK
  <2> QED
    BY <1>4, <2>1, <2>2, <2>3, <2>4
<1>7. Grows
  BY <1>3, <1>6 DEF Grows, SessionIInv, SessionTypeOK
<1>8. RequestOK(r)'
  <2>1. told'[user][new] = sessionClock
    BY <1>1, <1>4, <1>6
  <2> QED
    BY <1>1, <1>2, <1>3, <1>4, <2>1 DEF SessionIInv, SessionTypeOK, RequestOK, Ended
<1>9. ASSUME NEW s \in Requests \ {r} PROVE RequestOK(s)'
  BY <1>2, <1>3, <1>5, <1>7, RequestStays DEF SessionIInv, SessionTypeOK
<1>10. ASSUME NEW a \in Accounts PROVE AccountOK(a)'
  <2> DEFINE c == sessionCache[a]
  <2>1. c.tier \in Answers /\ c.at \in Int /\ told[a][c.tier] \in Int /\ told'[a][c.tier] \in Int
    BY <1>5 DEF SessionIInv, SessionTypeOK, Session!Never
  <2>2. c.at <= told[a][c.tier] /\ told[a][c.tier] <= told'[a][c.tier]
    BY <1>6, <2>1 DEF SessionIInv, AccountOK
  <2>3. c.at <= told'[a][c.tier]
    BY <2>1, <2>2
  <2> QED
    BY <1>3, <1>6, <2>3 DEF AccountOK, Answers
<1> QED
  BY <1>5, <1>8, <1>9, <1>10 DEF SessionIInv

LEMMA SessionStore == ASSUME SessionIInv, NEW r \in Requests, Session!Store(r) PROVE SessionIInv'
<1> DEFINE user == in[r].user
           new == [tier |-> tier[r], at |-> asked[r]]
<1>1. /\ cloudMode /\ in[r].token = "valid" /\ user \in Accounts
      /\ tier[r] \in Answers /\ asked[r] <= told[user][tier[r]]
  BY DEF Session!Store, SessionIInv, SessionTypeOK, RequestOK, Asking
<1>2. /\ sessionCache' = [sessionCache EXCEPT ![user] = new]
      /\ sessionPc' = [sessionPc EXCEPT ![r] = "resolved"]
      /\ UNCHANGED <<cloudMode, sessionClock, tierOf, told, in, asked, tier>>
  BY DEF Session!Store
<1>3. asked[r] \in Nat /\ told[user][tier[r]] \in Int /\ SessionTTL \in Nat \ {0}
  BY <1>1, LibraryAssumption DEF SessionIInv, SessionTypeOK, Session!Never, Session!ConstantsOK
<1>4. SessionTypeOK'
  BY <1>1, <1>2, <1>3 DEF SessionIInv, SessionTypeOK, Ended
<1>5. RequestOK(r)'
  BY <1>1, <1>2, <1>3 DEF SessionIInv, SessionTypeOK, RequestOK, Ended, Asking,
     Session!RecentTiers, Session!HeimdallTiers, Answers, Session!Never
<1>6. Grows
  BY <1>2 DEF Grows, SessionIInv, SessionTypeOK, Session!Never
<1>7. ASSUME NEW s \in Requests \ {r} PROVE RequestOK(s)'
  BY <1>2, <1>4, <1>6, RequestStays DEF SessionIInv, SessionTypeOK
<1>8. ASSUME NEW a \in Accounts PROVE AccountOK(a)'
  <2>1. sessionCache'[a] = IF a = user THEN new ELSE sessionCache[a]
    BY <1>2 DEF SessionIInv, SessionTypeOK
  <2> QED
    BY <1>1, <1>2, <2>1 DEF SessionIInv, AccountOK
<1> QED
  BY <1>4, <1>5, <1>7, <1>8 DEF SessionIInv

LEMMA SessionResponse ==
  ASSUME SessionIInv, NEW r \in Requests, Session!RequirePaid(r) \/ Session!Respond(r)
  PROVE  SessionIInv'
<1>1. CASE Session!RequirePaid(r)
  <2>1. PICK e \in {"passed", "refused"} : sessionPc' = [sessionPc EXCEPT ![r] = e]
    BY <1>1 DEF Session!RequirePaid
  <2>2. sessionPc[r] \in Ended /\ UNCHANGED <<cloudMode, sessionClock, tierOf, told, sessionCache, in, asked, tier>>
    BY <1>1 DEF Session!RequirePaid, Ended
  <2>3. SessionTypeOK'
    BY <2>1, <2>2 DEF SessionIInv, SessionTypeOK, Ended
  <2>4. RequestOK(r)'
    BY <2>1, <2>2 DEF SessionIInv, SessionTypeOK, RequestOK, Ended, Asking, Session!RecentTiers
  <2> QED
    BY <2>1, <2>2, <2>3, <2>4, RequestStep DEF SessionIInv, SessionTypeOK
<1>2. CASE Session!Respond(r)
  <2>1. SessionTypeOK' /\ RequestOK(r)'
    BY <1>2 DEF Session!Respond, Session!NoInput, SessionIInv, SessionTypeOK, RequestOK, Asking, Ended, Answers
  <2> QED
    BY <1>2, <2>1, RequestStep DEF Session!Respond, SessionIInv, SessionTypeOK
<1> QED
  BY <1>1, <1>2

LEMMA SessionStep == SessionIInv /\ [Session!Next]_(Session!vars) => SessionIInv'
<1> SUFFICES ASSUME SessionIInv, [Session!Next]_(Session!vars) PROVE SessionIInv'
  OBVIOUS
<1>1. CASE UNCHANGED Session!vars
  BY <1>1 DEF Session!vars, SessionIInv, SessionTypeOK, AccountOK, RequestOK, Session!RecentTiers
<1> QED
  BY <1>1, SessionTick, SessionRelicense, SessionLookup, SessionAnswer, SessionStore, SessionResponse
     DEF Session!Next

(* resolve() answers from a cache with a TTL that two requests fill at       *)
(* once: whatever it gives, Heimdall's answer was that within the TTL.      *)
THEOREM SessionsAreRecent == Session!Spec => []TierIsRecent
<1>1. SessionIInv => TierIsRecent
  BY DEF SessionIInv, RequestOK, TierIsRecent, Session!TierIsRecent, Ended
<1> QED
  BY <1>1, SessionInit, SessionStep, PTL DEF Session!Spec

-----------------------------------------------------------------------------
(* Hardware: the estimate is right about bytes.                              *)
(* The sizes are natural numbers, and the verdict is that of the comparison. *)
VramIInv ==
  /\ request \in Hardware!Questions
  /\ weights \in Nat /\ kv \in Nat
  /\ vramPc = "done" /\ request.available # None =>
       (fits <=> Hardware!Fits(weights, kv, request.available))
  /\ vramPc = "done" /\ request.available = None => fits = None
  /\ fits # None => vramPc = "done"

LEMMA KvCacheIsNat ==
  ASSUME NEW r \in Hardware!Questions, request = r, NEW c \in Hardware!Configs
  PROVE  Hardware!KvCache(c) \in Nat
<1>1. r.ctx \in Nat /\ c.layers \in Nat /\ c.kvHeads \in Nat
  <2>1. r.ctx \in Contexts /\ c.layers \in Layers /\ c.kvHeads \in {0, 8}
    BY DEF Hardware!Questions, Hardware!Configs
  <2>2. Contexts \subseteq Nat /\ Layers \subseteq Nat
    BY LibraryAssumption DEF Hardware!ConstantsOK
  <2>3. r.ctx \in Nat
    BY <2>1, <2>2
  <2>4. c.layers \in Nat
    BY <2>1, <2>2
  <2>5. c.kvHeads \in Nat
    BY <2>1
  <2> QED
    BY <2>3, <2>4, <2>5
<1>2. \A a \in Nat : a \div 1000000 \in Nat
  OBVIOUS
<1>3. \A a, b \in Nat : a * b \in Nat
  OBVIOUS
<1> DEFINE heads == IF c.kvHeads = 0 THEN Hardware!Heads ELSE c.kvHeads
<1>4. 2 * c.layers * heads * Hardware!HeadDim * r.ctx * 2 \in Nat
  <2>1. heads \in Nat /\ Hardware!HeadDim \in Nat
    BY <1>1 DEF Hardware!Heads, Hardware!HeadDim
  <2>2. 2 * c.layers \in Nat
    BY <1>1
  <2>3. 2 * c.layers * heads \in Nat
    BY <2>1, <2>2, <1>3
  <2>4. 2 * c.layers * heads * Hardware!HeadDim \in Nat
    BY <2>1, <2>3, <1>3
  <2>5. 2 * c.layers * heads * Hardware!HeadDim * r.ctx \in Nat
    BY <1>1, <2>4, <1>3
  <2> QED
    BY <2>5
<1>5. (2 * c.layers * heads * Hardware!HeadDim * r.ctx * 2) \div 1000000 \in Nat
  BY <1>2, <1>4
<1> QED
  BY <1>5 DEF Hardware!KvCache

LEMMA EstimateInit == Hardware!EstimateInit => VramIInv
BY DEF Hardware!EstimateInit, VramIInv

LEMMA VramStep == VramIInv /\ [Hardware!EstimateNext]_(Hardware!estimateVars) => VramIInv'
<1> SUFFICES ASSUME VramIInv, [Hardware!EstimateNext]_(Hardware!estimateVars) PROVE VramIInv'
  OBVIOUS
<1> USE DEF VramIInv
<1>1. CASE Hardware!QuantBits
  BY <1>1 DEF Hardware!QuantBits
<1>2. CASE Hardware!FetchParamCount
  <2>1. request.model \in Nat /\ request.quant \in Nat
    BY LibraryAssumption DEF Hardware!ConstantsOK, Hardware!Questions
  <2>2. (request.model * request.quant) \div 8 \in Nat
    <3>1. \A a, b \in Nat : a * b \in Nat
      OBVIOUS
    <3>2. \A a \in Nat : a \div 8 \in Nat
      OBVIOUS
    <3> QED
      BY <2>1, <3>1, <3>2
  <2>3. weights' \in Nat /\ vramPc' # "done" /\ vramPc # "done"
    BY <1>2, <2>2 DEF Hardware!FetchParamCount
  <2>4. UNCHANGED <<request, kv, fits>>
    BY <1>2 DEF Hardware!FetchParamCount
  <2> QED
    BY <2>3, <2>4
<1>3. CASE Hardware!Estimate
  <2>1. UNCHANGED <<request, weights>> /\ vramPc = "config"
    BY <1>3 DEF Hardware!Estimate
  <2>2. PICK c \in Hardware!Configs :
          \/ vramPc' \in {"JSONDecodeError", "TypeError"} /\ UNCHANGED <<kv, fits>>
          \/ /\ kv' = Hardware!KvCache(c)
             /\ fits' = IF request.available = None THEN None
                        ELSE Hardware!Fits(weights, kv', request.available)
             /\ vramPc' = "done"
    BY <1>3 DEF Hardware!Estimate
  <2>3. CASE vramPc' \in {"JSONDecodeError", "TypeError"} /\ UNCHANGED <<kv, fits>>
    BY <2>1, <2>3
  <2>4. CASE /\ kv' = Hardware!KvCache(c)
             /\ fits' = IF request.available = None THEN None
                        ELSE Hardware!Fits(weights, kv', request.available)
             /\ vramPc' = "done"
    <3>1. kv' \in Nat
      BY <2>4, KvCacheIsNat
    <3>2. vramPc' = "done" /\ request.available # None =>
            (fits' <=> Hardware!Fits(weights, kv', request.available))
      BY <2>4
    <3> QED
      BY <2>1, <2>4, <3>1, <3>2 DEF Hardware!Fits
  <2> QED
    BY <2>2, <2>3, <2>4
<1>4. CASE UNCHANGED Hardware!estimateVars
  BY <1>4 DEF Hardware!estimateVars, Hardware!Fits
<1> QED
  BY <1>1, <1>2, <1>3, <1>4 DEF Hardware!EstimateNext

LEMMA FitsInBytes ==
  ASSUME NEW total \in Nat, NEW mib \in Nat
  PROVE  /\ total * 1024 <= mib * 1000 => total * 15625 <= mib * 16384
         /\ ~(total * 1024 <= mib * 1000) => total * 15625 > ((mib * 16384) \div 100) * 93
<1>1. 100 * ((mib * 16384) \div 100) <= mib * 16384
  OBVIOUS
<1> QED
  BY <1>1

(* model_vram_estimate() compares MB of 10^6 bytes with MiB: for every model *)
(* and context its verdict is the comparison of the bytes.                  *)
THEOREM EstimatesAreRight == Hardware!EstimateSpec => []FitsMeansItFits
<1>1. VramIInv => FitsMeansItFits
  <2> SUFFICES ASSUME VramIInv, vramPc = "done", fits # None
               PROVE  LET total == weights + kv + Hardware!Overhead IN
                      /\ fits => total * 15625 <= request.available * 16384
                      /\ ~fits => total * 15625 > ((request.available * 16384) \div 100) * 93
    BY DEF FitsMeansItFits, Hardware!FitsMeansItFits
  <2>1. request.available \in Nat /\ (fits <=> Hardware!Fits(weights, kv, request.available))
    BY LibraryAssumption DEF VramIInv, Hardware!ConstantsOK, Hardware!Questions
  <2>2. weights + kv + Hardware!Overhead \in Nat
    BY DEF VramIInv, Hardware!Overhead
  <2> QED
    <3> DEFINE total == weights + kv + Hardware!Overhead
    <3>1. fits <=> total * 1024 <= request.available * 1000
      BY <2>1 DEF Hardware!Fits
    <3> HIDE DEF total
    <3>2. /\ total * 1024 <= request.available * 1000 => total * 15625 <= request.available * 16384
          /\ ~(total * 1024 <= request.available * 1000) =>
               total * 15625 > ((request.available * 16384) \div 100) * 93
      BY <2>1, <2>2, FitsInBytes DEF total
    <3> QED
      BY <3>1, <3>2 DEF total
<1> QED
  BY <1>1, EstimateInit, VramStep, PTL DEF Hardware!EstimateSpec

-----------------------------------------------------------------------------
(* Hardware: every name in a profile's order is a backend.                  *)
(* The least and the greatest of some numbers, which the CHOOSE of Min and Max find. *)
LEMMA LeastExists ==
  ASSUME NEW S \in SUBSET Nat, S # {}
  PROVE  \E x \in S : \A y \in S : x <= y
<1> DEFINE Less == {p \in Nat \X Nat : p[1] < p[2]}
<1>1. IsWellFoundedOn(Less, Nat)
  BY NatLessThanWellFounded, Zenon DEF OpToRel
<1>2. PICK x \in S : \A y \in S : <<y, x>> \notin Less
  <2> HIDE DEF Less
  <2> QED
    BY <1>1, WFMin
<1>3. \A y \in S : ~ (y < x)
  BY <1>2
<1> QED
  BY <1>3

LEMMA GreatestExists ==
  ASSUME NEW n \in Nat, NEW S \in SUBSET (0 .. n), S # {}
  PROVE  \E x \in S : \A y \in S : x >= y
<1> DEFINE T == {n - x : x \in S}
<1>1. T \in SUBSET Nat /\ T # {}
  <2>1. \A x \in S : x \in 0 .. n
    OBVIOUS
  <2>2. \A x \in S : n - x \in Nat
    BY <2>1
  <2> QED
    BY <2>2
<1>2. PICK t \in T : \A y \in T : t <= y
  <2> HIDE DEF T
  <2> QED
    BY <1>1, LeastExists
<1>3. PICK x \in S : t = n - x
  BY <1>2
<1>4. \A y \in S : n - x <= n - y
  BY <1>2, <1>3
<1> QED
  BY <1>4

LEMMA TierIsComplete ==
  ASSUME NEW vram
  PROVE  /\ Hardware!SelectTier(vram).services \in SUBSET ({"vllm"} \cup Hardware!Seeing)
         /\ "vllm" \in Hardware!SelectTier(vram).services => Hardware!SelectTier(vram).candidates
<1> DEFINE fitting == {k \in 1 .. 7 : Hardware!VramTiers[k].min <= vram /\ vram < Hardware!VramTiers[k].max}
           k == IF fitting = {} THEN 7 ELSE Hardware!Min(fitting)
<1>1. DOMAIN Hardware!VramTiers = 1 .. 7 /\ Len(Hardware!VramTiers) = 7
  BY DEF Hardware!VramTiers
<1>2. k \in 1 .. 7
  <2>1. CASE fitting = {}
    BY <2>1
  <2>2. CASE fitting # {}
    <3>1. fitting \in SUBSET Nat
      OBVIOUS
    <3> HIDE DEF fitting
    <3>2. \E x \in fitting : \A y \in fitting : x <= y
      BY <2>2, <3>1, LeastExists
    <3>3. Hardware!Min(fitting) \in fitting
      BY <3>2 DEF Hardware!Min
    <3> QED
      BY <2>2, <3>3 DEF fitting
  <2> QED
    BY <2>1, <2>2
<1>3. Hardware!SelectTier(vram) = Hardware!VramTiers[k]
  BY <1>1 DEF Hardware!SelectTier
<1>4. \A j \in 1 .. 7 :
        /\ Hardware!VramTiers[j].services \in SUBSET ({"vllm"} \cup Hardware!Seeing)
        /\ "vllm" \in Hardware!VramTiers[j].services => Hardware!VramTiers[j].candidates
  BY DEF Hardware!VramTiers, Hardware!Tier, Hardware!Seeing, Hardware!ServicesOf4gb
<1> QED
  BY <1>2, <1>3, <1>4

(* An order is ollama alone, or one service before it. *)
LEMMA OneBefore ==
  ASSUME NEW a, NEW b
  PROVE  Hardware!Last(<<a>> \o <<b>>) = b /\ Hardware!Range(<<a>> \o <<b>>) \subseteq {a, b}
<1> DEFINE s == <<a>>
           t == <<b>>
           order == s \o t
<1>1. s \in Seq({a, b}) /\ t \in Seq({a, b})
  OBVIOUS
<1>2. Len(s) = 1 /\ Len(t) = 1 /\ s[1] = a /\ t[1] = b
  OBVIOUS
<1> HIDE DEF s, t
<1>3. order \in Seq({a, b}) /\ Len(order) = 2 /\ order[2] = b
  BY <1>1, <1>2, ConcatProperties, SMTT(30)
<1> HIDE DEF order
<1>4. Hardware!Last(order) = b
  BY <1>3 DEF Hardware!Last
<1>5. Hardware!Range(order) \subseteq {a, b}
  BY <1>3 DEF Hardware!Range
<1> QED
  BY <1>4, <1>5 DEF order, s, t

LEMMA NoneBefore ==
  ASSUME NEW b
  PROVE  Hardware!Last(<<>> \o <<b>>) = b /\ Hardware!Range(<<>> \o <<b>>) \subseteq {b}
<1> DEFINE t == <<b>>
<1>1. t \in Seq({b}) /\ Len(t) = 1 /\ t[1] = b
  OBVIOUS
<1>2. Hardware!Last(t) = b /\ Hardware!Range(t) \subseteq {b}
  BY <1>1 DEF Hardware!Last, Hardware!Range
<1> HIDE DEF t
<1>3. <<>> \o t = t
  BY <1>1, ConcatEmptySeq
<1> QED
  BY <1>2, <1>3 DEF t

(* generate_profile(): every service that an order of the configuration      *)
(* names has a backend in it, and ollama is the last resort.                *)
THEOREM OrdersName == Hardware!ProfileSpec => []FallbacksExist
<1> USE DEF FallbacksExist, Hardware!FallbacksExist
<1>1. Hardware!ProfileInit => FallbacksExist
  BY DEF Hardware!ProfileInit
<1>2. FallbacksExist /\ [Hardware!ProfileNext]_(Hardware!profileVars) => FallbacksExist'
  <2> SUFFICES ASSUME FallbacksExist, [Hardware!ProfileNext]_(Hardware!profileVars), config' # None
               PROVE  FallbacksExist'
    OBVIOUS
  <2>1. CASE Hardware!TryDetector \/ Hardware!FallBackToCpu \/ UNCHANGED Hardware!profileVars
    BY <2>1 DEF Hardware!TryDetector, Hardware!FallBackToCpu, Hardware!profileVars
  <2>2. CASE Hardware!GenerateProfile
    <3> DEFINE t == Hardware!SelectTier(spec.vram)
    <3> HIDE DEF t
    <3>1. /\ config'.backends = Hardware!Backends(t)
          /\ config'.fallback = (IF "vllm" \in t.services THEN <<"vllm">> ELSE <<>>) \o <<"ollama">>
          /\ config'.vision = (IF "cf-vision" \in t.services THEN <<"vision_service">> ELSE <<>>) \o <<"ollama">>
      BY <2>2 DEF Hardware!GenerateProfile, t
    <3>2. /\ Hardware!Last(config'.fallback) = "ollama"
          /\ Hardware!Range(config'.fallback) \subseteq {"ollama"} \cup (IF "vllm" \in t.services THEN {"vllm"} ELSE {})
      <4>1. CASE "vllm" \in t.services
        <5>1. config'.fallback = <<"vllm">> \o <<"ollama">>
          BY <3>1, <4>1
        <5>2. /\ Hardware!Last(config'.fallback) = "ollama"
              /\ Hardware!Range(config'.fallback) \subseteq {"vllm", "ollama"}
          BY <5>1, OneBefore DEF Hardware!Last, Hardware!Range
        <5> QED
          BY <4>1, <5>2
      <4>2. CASE "vllm" \notin t.services
        <5>1. config'.fallback = <<>> \o <<"ollama">>
          BY <3>1, <4>2
        <5> QED
          BY <4>2, <5>1, NoneBefore
      <4> QED
        BY <4>1, <4>2
    <3>3. /\ Hardware!Last(config'.vision) = "ollama"
          /\ Hardware!Range(config'.vision) \subseteq {"ollama"} \cup (IF "cf-vision" \in t.services THEN {"vision_service"} ELSE {})
      <4>1. CASE "cf-vision" \in t.services
        <5>1. config'.vision = <<"vision_service">> \o <<"ollama">>
          BY <3>1, <4>1
        <5>2. /\ Hardware!Last(config'.vision) = "ollama"
              /\ Hardware!Range(config'.vision) \subseteq {"vision_service", "ollama"}
          BY <5>1, OneBefore DEF Hardware!Last, Hardware!Range
        <5> QED
          BY <4>1, <5>2
      <4>2. CASE "cf-vision" \notin t.services
        <5>1. config'.vision = <<>> \o <<"ollama">>
          BY <3>1, <4>2
        <5> QED
          BY <4>2, <5>1, NoneBefore
      <4> QED
        BY <4>1, <4>2
    <3>4. "vllm" \in t.services => t.candidates
      BY TierIsComplete DEF t
    <3>5. {"ollama"} \cup (IF "vllm" \in t.services THEN {"vllm"} ELSE {}) \cup (IF "cf-vision" \in t.services THEN {"vision_service"} ELSE {})
            \subseteq config'.backends
      BY <3>1, <3>4 DEF Hardware!Backends
    <3> QED
      BY <3>2, <3>3, <3>5, SMTT(20)
  <2> QED
    BY <2>1, <2>2 DEF Hardware!ProfileNext
<1> QED
  BY <1>1, <1>2, PTL DEF Hardware!ProfileSpec

-----------------------------------------------------------------------------
(* Pipeline under most_recent: the workflows are of approved runs.         *)
Workflows ==
  [runs : SUBSET Recent!Runs, steps : {<<>>} \cup {RunData[r].steps : r \in Recent!Runs}, active : BOOLEAN]

\* The steps of the approved runs on disk, which are those of a workflow.
ApprovedSteps == {RunData[r].steps : r \in {q \in recorded : RunData[q].approved}}

WorkflowTypeOK ==
  /\ workflowPc \in [Recent!Runs -> {"new", "load", "register", "store", "done"}]
  /\ draft \in [Recent!Runs -> Workflows]
  /\ recorded \subseteq Recent!Runs
  /\ files \in [Hashes -> Workflows]
  /\ size \in [Hashes -> Nat]
  /\ deact \in [hash : Hashes \cup {"idle"}, data : Workflows, open : BOOLEAN]
  /\ deact.open => deact.hash # "idle"
  /\ exec \in [at : {"idle", "fuzzy", "step", "fallback", "returned"}, hash : Hashes \cup {"none"},
               wf : Workflows, done : Nat]
  /\ workflowResult \in [success : BOOLEAN, deterministic : BOOLEAN, steps : Nat, raised : BOOLEAN]

(* A run is on disk from its write on, and only approved ones go further. *)
RunOK(r) ==
  /\ r \in recorded <=> workflowPc[r] # "new"
  /\ workflowPc[r] \in {"load", "register", "store"} => RunData[r].approved
  /\ workflowPc[r] \in {"register", "store"} => draft[r].steps \in ApprovedSteps

(* Once all the approved runs of an input are on disk, the one of them that *)
(* is evaluated last sees them all.                                         *)
InputOK(h) ==
  /\ files[h] # Recent!NoWorkflow => files[h].steps \in ApprovedSteps
  /\ Recent!Cardinality(Recent!Approved(h)) >= Threshold =>
       \/ files[h] # Recent!NoWorkflow
       \/ \E r \in Recent!Approved(h) : workflowPc[r] # "done"

(* Unless its file was opened while it was open: a file has one writer at    *)
(* most, which finds it empty, and a file without one holds its workflow.    *)
FileOK(h) ==
  h \notin overlapped =>
    /\ \A q, r \in Recent!Writers(h) : q = r
    /\ deact.open /\ deact.hash = h => Recent!Writers(h) = {}
    /\ Recent!IsOpen(h) => size[h] = 0
    /\ ~Recent!IsOpen(h) /\ files[h] # Recent!NoWorkflow => size[h] = Recent!Text(files[h])

ExecOK ==
  /\ exec.at = "step" => exec.wf.steps \in ApprovedSteps
  /\ exec.at = "returned" /\ workflowResult.success /\ workflowResult.deterministic =>
       exec.wf.steps \in ApprovedSteps /\ workflowResult.steps = Len(exec.wf.steps)

WorkflowIInv ==
  /\ WorkflowTypeOK
  /\ \A r \in Recent!Runs : RunOK(r)
  /\ \A h \in Hashes : InputOK(h) /\ FileOK(h)
  /\ deact.hash # "idle" => deact.data.steps \in ApprovedSteps
  /\ ExecOK

(* The instance's Cardinality is that of the theorems about finite sets. *)
LEMMA SameCardinality == \A S : Recent!Cardinality(S) = Cardinality(S)
BY DEF Recent!Cardinality, Cardinality

LEMMA RunDataOK ==
  /\ \E n \in Nat : Recent!Runs = 1 .. n
  /\ \A r \in Recent!Runs : RunData[r].hash \in Hashes /\ RunData[r].approved \in BOOLEAN /\ RunData[r].steps # <<>>
  /\ \A r \in Recent!Runs : Len(RunData[r].steps) \in Nat
  /\ Threshold \in Nat \ {0} /\ "idle" \notin Hashes
<1>1. RunData \in Seq(Recent!Range(RunData))
  BY LibraryAssumption DEF Recent!ConstantsOK
<1>2. DOMAIN RunData = 1 .. Len(RunData) /\ Len(RunData) \in Nat
  BY <1>1
<1>3. ASSUME NEW r \in Recent!Runs PROVE Len(RunData[r].steps) \in Nat
  <2>1. RunData[r].steps \in Seq(Recent!Range(RunData[r].steps))
    BY LibraryAssumption DEF Recent!ConstantsOK
  <2> QED
    BY <2>1
<1> QED
  BY <1>2, <1>3, LibraryAssumption DEF Recent!ConstantsOK, Recent!Runs

\* The length of a text is a number, and the text fills an empty file.
LEMMA TextFills ==
  ASSUME NEW w \in Workflows
  PROVE  Recent!Text(w) \in Nat /\ Recent!Max({0, Recent!Text(w)}) = Recent!Text(w)
<1>1. Recent!Cardinality(w.runs) \in Nat
  <2>1. IsFiniteSet(Recent!Runs)
    BY RunDataOK, FS_Interval
  <2>2. w.runs \subseteq Recent!Runs
    BY DEF Workflows
  <2> QED
    BY <2>1, <2>2, FS_Subset, FS_CardinalityType, SameCardinality
<1>2. Len(w.steps) \in Nat
  BY RunDataOK DEF Workflows
<1> DEFINE t == Recent!Text(w)
<1>3. t \in Nat
  BY <1>1, <1>2 DEF Recent!Text
<1> HIDE DEF t
<1>4. \A x \in {0, t} : (\A y \in {0, t} : x >= y) => x = t
  BY <1>3
<1>5. t \in {0, t} /\ \A y \in {0, t} : t >= y
  BY <1>3
<1>6. Recent!Max({0, t}) = t
  BY <1>4, <1>5 DEF Recent!Max
<1> QED
  BY <1>3, <1>6 DEF t

LEMMA WorkflowInitOK == Recent!Init => WorkflowIInv
<1> SUFFICES ASSUME Recent!Init PROVE WorkflowIInv
  OBVIOUS
<1>1. Recent!NoWorkflow \in Workflows
  BY DEF Recent!NoWorkflow, Workflows
<1>2. WorkflowTypeOK
  BY <1>1 DEF Recent!Init, WorkflowTypeOK, Recent!NotRunning, Recent!NoResult, Recent!NoDeactivation
<1>3. \A r \in Recent!Runs : RunOK(r)
  BY DEF Recent!Init, RunOK
<1>4. \A h \in Hashes : InputOK(h)
  <2> SUFFICES ASSUME NEW h \in Hashes, Recent!Cardinality(Recent!Approved(h)) >= Threshold
               PROVE  \E r \in Recent!Approved(h) : workflowPc[r] # "done"
    BY DEF Recent!Init, InputOK
  <2>1. Recent!Approved(h) # {}
    <3>1. Recent!Cardinality({}) = 0
      BY FS_EmptySet, SameCardinality
    <3>2. ~(0 >= Threshold)
      BY RunDataOK
    <3> QED
      BY <3>1, <3>2
  <2> QED
    BY <2>1 DEF Recent!Init, Recent!Approved
<1>5. \A h \in Hashes : FileOK(h)
  BY DEF Recent!Init, FileOK, Recent!Writers, Recent!IsOpen, Recent!NoDeactivation
<1> QED
  BY <1>2, <1>3, <1>4, <1>5 DEF WorkflowIInv, Recent!Init, ExecOK, Recent!NotRunning, Recent!NoDeactivation

(* A file that no step opens, writes or closes stays as it is. *)
LEMMA FileKept ==
  ASSUME NEW h, FileOK(h), Recent!Writers(h)' = Recent!Writers(h),
         files'[h] = files[h], size'[h] = size[h], h \in overlapped' <=> h \in overlapped,
         deact'.open /\ deact'.hash = h <=> deact.open /\ deact.hash = h
  PROVE  FileOK(h)'
<1>1. Recent!IsOpen(h)' <=> Recent!IsOpen(h)
  BY DEF Recent!IsOpen
<1>2. Recent!Text(files[h])' = Recent!Text(files[h])
  BY DEF Recent!Text
<1> QED
  BY <1>1, <1>2 DEF FileOK

LEMMA FilesKept ==
  ASSUME UNCHANGED <<files, size, deact, overlapped>>, WorkflowTypeOK,
         \A r \in Recent!Runs : workflowPc'[r] = "store" <=> workflowPc[r] = "store",
         NEW h \in Hashes, FileOK(h)
  PROVE  FileOK(h)'
<1>1. Recent!Writers(h)' = Recent!Writers(h)
  BY DEF Recent!Writers
<1> QED
  BY <1>1, FileKept

(* The writer that opens a file is alone or makes it an overlapped one; the  *)
(* one that was alone leaves it with its workflow.                           *)
OneWriter(h) ==
  /\ \A q, r \in Recent!Writers(h) : q = r
  /\ deact.open /\ deact.hash = h => Recent!Writers(h) = {}

LEMMA OpenedFile ==
  ASSUME WorkflowTypeOK, NEW h \in Hashes, FileOK(h), Recent!Open(h), Recent!IsOpen(h)',
         ~Recent!IsOpen(h) => OneWriter(h)'
  PROVE  FileOK(h)'
<1>1. CASE Recent!IsOpen(h)
  <2>1. h \in overlapped'
    BY <1>1 DEF Recent!Open, Recent!NoteOpening
  <2> QED
    BY <2>1 DEF FileOK
<1>2. CASE ~Recent!IsOpen(h)
  <2>1. size'[h] = 0
    BY DEF Recent!Open, WorkflowTypeOK
  <2> QED
    BY <1>2, <2>1 DEF FileOK, OneWriter
<1> QED
  BY <1>1, <1>2

LEMMA WrittenFile ==
  ASSUME WorkflowTypeOK, NEW h \in Hashes, NEW w \in Workflows, FileOK(h), Recent!Write(h, w),
         Recent!IsOpen(h), UNCHANGED overlapped,
         h \notin overlapped => ~Recent!IsOpen(h)' /\ OneWriter(h)'
  PROVE  FileOK(h)'
<1> SUFFICES ASSUME h \notin overlapped PROVE FileOK(h)'
  BY DEF FileOK
<1>1. size[h] = 0
  BY DEF FileOK
<1>2. files'[h] = w /\ size'[h] = Recent!Max({0, Recent!Text(w)})
  BY <1>1 DEF Recent!Write, WorkflowTypeOK
<1>3. size'[h] = Recent!Text(w)
  BY <1>2, TextFills
<1>4. Recent!Text(files[h])' = Recent!Text(w)
  BY <1>2 DEF Recent!Text
<1> QED
  BY <1>3, <1>4 DEF FileOK, OneWriter

LEMMA WriteOK ==
  ASSUME WorkflowTypeOK, NEW h \in Hashes, NEW w \in Workflows, Recent!Write(h, w)
  PROVE  size' \in [Hashes -> Nat] /\ files' \in [Hashes -> Workflows]
<1> DEFINE t == Recent!Text(w)
           n == Recent!Max({size[h], t})
<1>1. size[h] \in Nat /\ t \in Nat
  BY TextFills DEF WorkflowTypeOK
<1> HIDE DEF t
<1>2. \E x \in {size[h], t} : \A y \in {size[h], t} : x >= y
  <2>1. CASE size[h] >= t
    BY <1>1, <2>1
  <2>2. CASE t >= size[h]
    BY <1>1, <2>2
  <2> QED
    BY <1>1, <2>1, <2>2
<1>3. n \in {size[h], t}
  BY <1>2 DEF Recent!Max
<1> HIDE DEF n
<1>4. size' = [size EXCEPT ![h] = n] /\ files' = [files EXCEPT ![h] = w]
  BY DEF Recent!Write, n, t
<1> QED
  BY <1>1, <1>3, <1>4 DEF WorkflowTypeOK

(* A step that neither loses a record nor takes a run back, a stored         *)
(* workflow away or a draft's steps for others keeps what it did not touch.  *)
LEMMA RecordStep ==
  ASSUME WorkflowIInv, NEW r \in Recent!Runs, Recent!Record(r)
  PROVE  WorkflowIInv'
<1> USE DEF WorkflowIInv
<1>1. /\ recorded' = recorded \cup {r}
      /\ UNCHANGED <<draft, files, size, deact, overlapped, exec, workflowResult>>
  BY DEF Recent!Record, Recent!registryVars
<1>2. ApprovedSteps \subseteq ApprovedSteps'
  BY <1>1 DEF ApprovedSteps
<1>3. PICK p \in {"load", "done"} :
        /\ workflowPc[r] = "new" /\ workflowPc' = [workflowPc EXCEPT ![r] = p]
        /\ p = "load" => RunData[r].approved
        /\ p = "done" => ~RunData[r].approved
  BY DEF Recent!Record
<1>4. WorkflowTypeOK'
  BY <1>1, <1>3 DEF WorkflowTypeOK
<1>5. ASSUME NEW q \in Recent!Runs PROVE RunOK(q)'
  BY <1>1, <1>2, <1>3 DEF RunOK, WorkflowTypeOK
<1>6. ASSUME NEW h \in Hashes PROVE InputOK(h)'
  <2>1. \A q \in Recent!Approved(h) : workflowPc[q] # "done" => workflowPc'[q] # "done"
    BY <1>3 DEF WorkflowTypeOK, Recent!Approved
  <2> QED
    BY <1>1, <1>2, <2>1 DEF InputOK
<1>7. ASSUME NEW h \in Hashes PROVE FileOK(h)'
  <2>1. \A q \in Recent!Runs : workflowPc'[q] = "store" <=> workflowPc[q] = "store"
    BY <1>3 DEF WorkflowTypeOK
  <2> QED
    BY <1>1, <2>1, FilesKept
<1> QED
  BY <1>1, <1>2, <1>4, <1>5, <1>6, <1>7 DEF ExecOK

LEMMA CanonicalStepsApproved ==
  ASSUME WorkflowTypeOK, NEW h \in Hashes, NEW rs, rs = Recent!LoadApproved(h),
         Recent!Cardinality(rs) >= Threshold
  PROVE  Recent!CanonicalSteps(rs) \in ApprovedSteps
<1>1. rs # {}
  <2>1. Recent!Cardinality({}) = 0
    BY FS_EmptySet, SameCardinality
  <2>2. ~(0 >= Threshold)
    BY RunDataOK
  <2> QED
    BY <2>1, <2>2
<1>2. PICK n \in Nat : rs \in SUBSET (0 .. n)
  <2>1. PICK n \in Nat : Recent!Runs = 1 .. n
    BY RunDataOK
  <2>2. rs \subseteq 1 .. n
    BY <2>1 DEF WorkflowTypeOK, Recent!LoadApproved
  <2>3. rs \subseteq 0 .. n
    BY <2>2
  <2> QED
    BY <2>3
<1>3. \E x \in rs : \A y \in rs : x >= y
  BY <1>1, <1>2, GreatestExists
<1>4. Recent!Max(rs) \in rs
  BY <1>3 DEF Recent!Max
<1> QED
  BY <1>4 DEF Recent!CanonicalSteps, Recent!LoadApproved, ApprovedSteps

LEMMA EvaluateStep ==
  ASSUME WorkflowIInv, NEW r \in Recent!Runs, Recent!Evaluate(r)
  PROVE  WorkflowIInv'
<1> USE DEF WorkflowIInv
<1> DEFINE h0 == RunData[r].hash
           rs == Recent!LoadApproved(h0)
           w == [runs |-> rs, steps |-> Recent!CanonicalSteps(rs), active |-> TRUE]
<1>1. workflowPc[r] = "load" /\ UNCHANGED <<recorded, files, size, deact, overlapped, exec, workflowResult>>
  BY DEF Recent!Evaluate, Recent!registryVars
<1>2. ApprovedSteps' = ApprovedSteps /\ h0 \in Hashes
  BY <1>1, RunDataOK DEF ApprovedSteps
<1>5. IF Recent!Cardinality(rs) < Threshold THEN workflowPc' = [workflowPc EXCEPT ![r] = "done"] /\ UNCHANGED draft
      ELSE workflowPc' = [workflowPc EXCEPT ![r] = "register"] /\ draft' = [draft EXCEPT ![r] = w]
  BY DEF Recent!Evaluate
<1>6. ASSUME NEW h \in Hashes PROVE FileOK(h)'
  <2>1. \A q \in Recent!Runs : workflowPc'[q] = "store" <=> workflowPc[q] = "store"
    <3>1. workflowPc' = [workflowPc EXCEPT ![r] = "done"] \/ workflowPc' = [workflowPc EXCEPT ![r] = "register"]
      BY <1>5, Zenon
    <3> QED
      BY <1>1, <3>1 DEF WorkflowTypeOK
  <2> QED
    BY <1>1, <2>1, FilesKept
<1>3. CASE Recent!Cardinality(rs) < Threshold
  <2>1. workflowPc' = [workflowPc EXCEPT ![r] = "done"] /\ UNCHANGED draft
    BY <1>3, <1>5, Zenon
  <2>2. WorkflowTypeOK'
    BY <1>1, <2>1 DEF WorkflowTypeOK
  <2>3. ASSUME NEW q \in Recent!Runs PROVE RunOK(q)'
    BY <1>1, <1>2, <2>1 DEF RunOK, WorkflowTypeOK
  <2>4. ASSUME NEW h \in Hashes PROVE InputOK(h)'
    <3> SUFFICES ASSUME Recent!Cardinality(Recent!Approved(h)) >= Threshold,
                        \A q \in Recent!Approved(h) : workflowPc'[q] = "done"
                 PROVE  files[h] # Recent!NoWorkflow
      BY <1>1, <1>2 DEF InputOK
    <3>1. CASE r \in Recent!Approved(h)
      <4>1. \A q \in Recent!Approved(h) : workflowPc[q] \in {"load", "done"}
        BY <1>1, <2>1 DEF WorkflowTypeOK, Recent!Approved
      <4>2. \A q \in Recent!Approved(h) : q \in recorded
        BY <4>1 DEF RunOK, Recent!Approved
      <4>3. h = h0
        BY <3>1 DEF Recent!Approved
      <4>4. rs = Recent!Approved(h)
        BY <4>2, <4>3 DEF Recent!LoadApproved, Recent!Approved, WorkflowTypeOK
      <4>5. Recent!Cardinality(rs) \in Nat
        <5>1. IsFiniteSet(Recent!Runs)
          BY RunDataOK, FS_Interval
        <5>2. rs \subseteq Recent!Runs
          BY DEF Recent!LoadApproved, WorkflowTypeOK
        <5> QED
          BY <5>1, <5>2, FS_Subset, FS_CardinalityType, SameCardinality
      <4> QED
        BY <1>3, <4>4, <4>5, RunDataOK
    <3>2. CASE r \notin Recent!Approved(h)
      BY <2>1, <3>2, ZenonT(20) DEF InputOK, WorkflowTypeOK, Recent!Approved
    <3> QED
      BY <3>1, <3>2
  <2> QED
    BY <1>1, <1>2, <1>6, <2>2, <2>3, <2>4 DEF ExecOK
<1>4. CASE ~(Recent!Cardinality(rs) < Threshold)
  <2>1. workflowPc' = [workflowPc EXCEPT ![r] = "register"] /\ draft' = [draft EXCEPT ![r] = w]
    BY <1>4, <1>5, Zenon
  <2>2. Recent!CanonicalSteps(rs) \in ApprovedSteps
    <3>1. IsFiniteSet(Recent!Runs)
      BY RunDataOK, FS_Interval
    <3>2. rs \subseteq Recent!Runs
      BY DEF Recent!LoadApproved, WorkflowTypeOK
    <3>3. Recent!Cardinality(rs) \in Nat
      BY <3>1, <3>2, FS_Subset, FS_CardinalityType, SameCardinality
    <3>4. Recent!Cardinality(rs) >= Threshold
      BY <1>4, <3>3, RunDataOK
    <3> HIDE DEF rs
    <3> QED
      BY <1>2, <3>4, CanonicalStepsApproved DEF rs
  <2>3. w \in Workflows
    <3>1. rs \in SUBSET Recent!Runs
      BY DEF WorkflowTypeOK, Recent!LoadApproved
    <3>2. Recent!CanonicalSteps(rs) \in {RunData[q].steps : q \in Recent!Runs}
      BY <2>2 DEF ApprovedSteps, WorkflowTypeOK
    <3> HIDE DEF rs
    <3> QED
      BY <3>1, <3>2 DEF Workflows
  <2> HIDE DEF rs, w
  <2>4. WorkflowTypeOK'
    BY <1>1, <2>1, <2>3 DEF WorkflowTypeOK
  <2>5. ASSUME NEW q \in Recent!Runs PROVE RunOK(q)'
    <3>1. CASE q = r
      <4>1. draft'[r].steps \in ApprovedSteps
        BY <2>1, <2>2 DEF w, WorkflowTypeOK
      <4> QED
        BY <1>1, <1>2, <2>1, <3>1, <4>1 DEF RunOK, WorkflowTypeOK
    <3>2. CASE q # r
      BY <1>1, <1>2, <2>1, <3>2 DEF RunOK, WorkflowTypeOK
    <3> QED
      BY <3>1, <3>2
  <2>6. ASSUME NEW h \in Hashes PROVE InputOK(h)'
    BY <1>1, <1>2, <2>1 DEF InputOK, WorkflowTypeOK, Recent!Approved
  <2> QED
    BY <1>1, <1>2, <1>6, <2>4, <2>5, <2>6 DEF ExecOK
<1> QED
  BY <1>3, <1>4

LEMMA RegisterStep ==
  ASSUME WorkflowIInv, NEW r \in Recent!Runs, Recent!Register(r)
  PROVE  WorkflowIInv'
<1> USE DEF WorkflowIInv
<1> DEFINE h0 == RunData[r].hash
<1>1. /\ UNCHANGED <<draft, recorded, files, deact, exec, workflowResult>>
      /\ workflowPc[r] = "register" /\ workflowPc' = [workflowPc EXCEPT ![r] = "store"]
      /\ Recent!Open(h0)
  BY DEF Recent!Register
<1>2. ApprovedSteps' = ApprovedSteps /\ h0 \in Hashes
  BY <1>1, RunDataOK DEF ApprovedSteps
<1> HIDE DEF h0
<1>3. size' = [size EXCEPT ![h0] = 0]
  BY <1>1 DEF Recent!Open
<1>4. WorkflowTypeOK'
  BY <1>1, <1>2, <1>3 DEF WorkflowTypeOK
<1>5. ASSUME NEW q \in Recent!Runs PROVE RunOK(q)'
  BY <1>1, <1>2 DEF RunOK, WorkflowTypeOK
<1>6. ASSUME NEW h \in Hashes PROVE InputOK(h)'
  BY <1>1, <1>2 DEF InputOK, WorkflowTypeOK, Recent!Approved
<1>7. ASSUME NEW h \in Hashes PROVE FileOK(h)'
  <2>1. CASE h = h0
    <3>1. Recent!Writers(h)' = Recent!Writers(h) \cup {r}
      BY <1>1, <2>1 DEF Recent!Writers, WorkflowTypeOK, h0
    <3>2. Recent!IsOpen(h)'
      BY <3>1 DEF Recent!IsOpen
    <3>3. ASSUME ~Recent!IsOpen(h) PROVE OneWriter(h)'
      BY <1>1, <3>1, <3>3 DEF Recent!IsOpen, OneWriter
    <3> QED
      BY <1>1, <2>1, <3>2, <3>3, OpenedFile
  <2>2. CASE h # h0
    <3>1. Recent!Writers(h)' = Recent!Writers(h)
      BY <1>1, <2>2 DEF Recent!Writers, WorkflowTypeOK, h0
    <3>2. size'[h] = size[h] /\ (h \in overlapped' <=> h \in overlapped)
      BY <1>1, <1>3, <2>2 DEF Recent!Open, Recent!NoteOpening, WorkflowTypeOK
    <3> QED
      BY <1>1, <3>1, <3>2, FileKept
  <2> QED
    BY <2>1, <2>2
<1> QED
  BY <1>1, <1>2, <1>4, <1>5, <1>6, <1>7 DEF ExecOK

LEMMA StoreStep ==
  ASSUME WorkflowIInv, NEW r \in Recent!Runs, Recent!Store(r)
  PROVE  WorkflowIInv'
<1> USE DEF WorkflowIInv
<1> DEFINE h0 == RunData[r].hash
<1>1. /\ UNCHANGED <<draft, recorded, deact, exec, workflowResult, overlapped>>
      /\ workflowPc[r] = "store" /\ workflowPc' = [workflowPc EXCEPT ![r] = "done"]
      /\ Recent!Write(h0, draft[r])
  BY DEF Recent!Store
<1>2. ApprovedSteps' = ApprovedSteps /\ h0 \in Hashes /\ draft[r] \in Workflows
  BY <1>1, RunDataOK DEF ApprovedSteps, WorkflowTypeOK
<1>3. Recent!Writers(h0)' = Recent!Writers(h0) \ {r} /\ r \in Recent!Writers(h0)
  BY <1>1 DEF Recent!Writers, WorkflowTypeOK
<1>4. \A h \in Hashes \ {h0} : Recent!Writers(h)' = Recent!Writers(h)
  BY <1>1 DEF Recent!Writers, WorkflowTypeOK
<1>5. \A h \in Hashes \ {h0} : files'[h] = files[h] /\ size'[h] = size[h]
  BY <1>1 DEF Recent!Write, WorkflowTypeOK
<1>6. files'[h0] = draft[r]
  BY <1>1, <1>2 DEF Recent!Write, WorkflowTypeOK
<1>7. WorkflowTypeOK'
  <2>1. size' \in [Hashes -> Nat] /\ files' \in [Hashes -> Workflows]
    BY <1>1, <1>2, WriteOK
  <2> QED
    BY <1>1, <2>1 DEF WorkflowTypeOK
<1>8. ASSUME NEW q \in Recent!Runs PROVE RunOK(q)'
  BY <1>1, <1>2 DEF RunOK, WorkflowTypeOK
<1>9. draft[r].steps \in ApprovedSteps /\ draft[r] # Recent!NoWorkflow
  <2>1. draft[r].steps \in ApprovedSteps
    BY <1>1 DEF RunOK
  <2> QED
    BY <2>1, RunDataOK DEF ApprovedSteps, Recent!NoWorkflow, WorkflowTypeOK
<1>10. ASSUME NEW h \in Hashes PROVE InputOK(h)'
  <2>1. CASE h = h0
    BY <1>2, <1>6, <1>9, <2>1 DEF InputOK
  <2>2. CASE h # h0
    <3>1. files'[h] = files[h] /\ \A q \in Recent!Approved(h) : workflowPc'[q] = workflowPc[q]
      BY <1>1, <1>5, <2>2 DEF WorkflowTypeOK, Recent!Approved
    <3> QED
      BY <1>2, <3>1 DEF InputOK
  <2> QED
    BY <2>1, <2>2
<1> HIDE DEF h0
<1>11. ASSUME NEW h \in Hashes PROVE FileOK(h)'
  <2>1. CASE h = h0
    <3>1. ASSUME h \notin overlapped PROVE ~Recent!IsOpen(h)' /\ OneWriter(h)'
      <4>1. /\ \A q \in Recent!Writers(h) : q = r
            /\ ~(deact.open /\ deact.hash = h)
        BY <1>3, <2>1, <3>1 DEF FileOK
      <4>2. Recent!Writers(h)' = {}
        BY <1>3, <2>1, <4>1
      <4> QED
        BY <1>1, <4>1, <4>2 DEF Recent!IsOpen, OneWriter
    <3>2. Recent!IsOpen(h)
      BY <1>3, <2>1 DEF Recent!IsOpen
    <3> QED
      BY <1>1, <1>2, <2>1, <3>1, <3>2, WrittenFile
  <2>2. CASE h # h0
    BY <1>1, <1>4, <1>5, <2>2, FileKept
  <2> QED
    BY <2>1, <2>2
<1> QED
  BY <1>1, <1>2, <1>7, <1>8, <1>10, <1>11 DEF ExecOK

(* deactivate() writes back what it read, which once was in the file. *)
LEMMA DeactivateStep ==
  ASSUME WorkflowIInv, Recent!DeactivateOpen \/ \E h \in Hashes : Recent!Deactivate(h)
  PROVE  WorkflowIInv'
<1> USE DEF WorkflowIInv
<1>1. /\ UNCHANGED <<workflowPc, draft, recorded, files, exec, workflowResult>>
      /\ ApprovedSteps' = ApprovedSteps
  BY DEF Recent!DeactivateOpen, Recent!Deactivate, ApprovedSteps
<1>2. /\ \A q \in Recent!Runs : RunOK(q)'
      /\ \A h \in Hashes : InputOK(h)'
      /\ ExecOK'
  BY <1>1 DEF RunOK, InputOK, ExecOK
<1>3. \A h : Recent!Writers(h)' = Recent!Writers(h)
  BY <1>1 DEF Recent!Writers
<1>4. CASE Recent!DeactivateOpen
  <2> DEFINE h0 == deact.hash
  <2>1. /\ h0 \in Hashes /\ ~deact.open /\ deact' = [deact EXCEPT !.open = TRUE]
        /\ Recent!Open(h0)
    BY <1>4 DEF Recent!DeactivateOpen, WorkflowTypeOK
  <2>2. deact'.open /\ deact'.hash = h0 /\ deact'.data = deact.data
    BY <2>1 DEF WorkflowTypeOK
  <2>3. WorkflowTypeOK'
    <3>1. size' = [size EXCEPT ![h0] = 0]
      BY <2>1 DEF Recent!Open
    <3>2. deact' \in [hash : Hashes \cup {"idle"}, data : Workflows, open : BOOLEAN]
      BY <2>1 DEF WorkflowTypeOK
    <3>3. size' \in [Hashes -> Nat]
      BY <3>1 DEF WorkflowTypeOK
    <3>4. deact'.open => deact'.hash # "idle"
      BY <2>1, <2>2, RunDataOK
    <3> HIDE DEF h0
    <3> QED
      BY <1>1, <3>2, <3>3, <3>4 DEF WorkflowTypeOK
  <2> HIDE DEF h0
  <2>4. ASSUME NEW h \in Hashes PROVE FileOK(h)'
    <3>1. CASE h = h0
      <4>1. Recent!IsOpen(h)'
        BY <2>2, <3>1 DEF Recent!IsOpen
      <4>2. ASSUME ~Recent!IsOpen(h) PROVE OneWriter(h)'
        BY <1>3, <4>2 DEF Recent!IsOpen, OneWriter
      <4> QED
        BY <2>1, <3>1, <4>1, <4>2, OpenedFile
    <3>2. CASE h # h0
      <4>1. size'[h] = size[h] /\ (h \in overlapped' <=> h \in overlapped)
        BY <2>1, <3>2 DEF Recent!Open, Recent!NoteOpening, WorkflowTypeOK
      <4> QED
        BY <1>1, <1>3, <2>1, <2>2, <3>2, <4>1, FileKept
    <3> QED
      BY <3>1, <3>2
  <2>5. deact'.data.steps \in ApprovedSteps'
    BY <1>1, <2>1, <2>2, RunDataOK DEF h0
  <2> QED
    BY <1>2, <2>3, <2>4, <2>5
<1>5. CASE \E h \in Hashes : Recent!Deactivate(h)
  <2>1. PICK h \in Hashes : /\ files[h] # Recent!NoWorkflow /\ deact.hash = "idle"
                            /\ deact' = [hash |-> h, data |-> files[h], open |-> FALSE]
    BY <1>5 DEF Recent!Deactivate, Recent!Readable
  <2>2. UNCHANGED <<size, overlapped>>
    BY <1>5 DEF Recent!Deactivate
  <2>3. WorkflowTypeOK'
    BY <1>1, <2>1, <2>2 DEF WorkflowTypeOK
  <2>4. files[h].steps \in ApprovedSteps
    BY <2>1 DEF InputOK
  <2>5. ~deact.open /\ ~deact'.open
    BY <2>1 DEF WorkflowTypeOK
  <2>6. ASSUME NEW g \in Hashes PROVE FileOK(g)'
    BY <1>1, <1>3, <2>2, <2>5, FileKept
  <2> QED
    BY <1>1, <1>2, <2>1, <2>3, <2>4, <2>6
<1> QED
  BY <1>4, <1>5

LEMMA DeactivateWriteStep ==
  ASSUME WorkflowIInv, Recent!DeactivateWrite
  PROVE  WorkflowIInv'
<1> USE DEF WorkflowIInv
<1> DEFINE d == [deact.data EXCEPT !.active = FALSE]
           h0 == deact.hash
<1>1. /\ UNCHANGED <<workflowPc, draft, recorded, exec, workflowResult, overlapped>>
      /\ ApprovedSteps' = ApprovedSteps
      /\ deact.open /\ deact' = Recent!NoDeactivation /\ Recent!Write(h0, d)
  BY DEF Recent!DeactivateWrite, ApprovedSteps
<1>2. h0 \in Hashes /\ h0 # "idle" /\ d \in Workflows /\ d.steps = deact.data.steps
  BY <1>1 DEF WorkflowTypeOK, Workflows
<1>3. \A h : Recent!Writers(h)' = Recent!Writers(h)
  BY <1>1 DEF Recent!Writers
<1>4. d.steps \in ApprovedSteps /\ d # Recent!NoWorkflow
  BY <1>1, <1>2, RunDataOK DEF ApprovedSteps, Recent!NoWorkflow, WorkflowTypeOK
<1> HIDE DEF d
<1>5. /\ files'[h0] = d
      /\ \A h \in Hashes \ {h0} : files'[h] = files[h] /\ size'[h] = size[h]
  BY <1>1, <1>2 DEF Recent!Write, WorkflowTypeOK
<1>6. deact'.hash = "idle" /\ ~deact'.open
  BY <1>1 DEF Recent!NoDeactivation
<1>7. WorkflowTypeOK'
  <2>1. size' \in [Hashes -> Nat] /\ files' \in [Hashes -> Workflows]
    BY <1>1, <1>2, WriteOK
  <2>2. Recent!NoDeactivation \in [hash : Hashes \cup {"idle"}, data : Workflows, open : BOOLEAN]
    BY DEF Recent!NoDeactivation, Recent!NoWorkflow, Workflows
  <2> QED
    BY <1>1, <1>6, <2>1, <2>2 DEF WorkflowTypeOK
<1>8. \A q \in Recent!Runs : RunOK(q)'
  BY <1>1 DEF RunOK
<1>9. ASSUME NEW h \in Hashes PROVE InputOK(h)'
  BY <1>1, <1>4, <1>5 DEF InputOK
<1>10. ASSUME NEW h \in Hashes PROVE FileOK(h)'
  <2>1. CASE h = h0
    <3>1. Recent!IsOpen(h)
      BY <1>1, <2>1 DEF Recent!IsOpen
    <3>2. ASSUME h \notin overlapped PROVE ~Recent!IsOpen(h)' /\ OneWriter(h)'
      <4>1. Recent!Writers(h) = {}
        BY <1>1, <2>1, <3>2 DEF FileOK
      <4> QED
        BY <1>3, <1>6, <4>1 DEF Recent!IsOpen, OneWriter
    <3> QED
      BY <1>1, <1>2, <2>1, <3>1, <3>2, WrittenFile
  <2>2. CASE h # h0
    <3>1. ~(deact.open /\ deact.hash = h) /\ ~(deact'.open /\ deact'.hash = h)
      BY <1>6, <2>2
    <3> QED
      BY <1>1, <1>3, <1>5, <2>2, <3>1, FileKept
  <2> QED
    BY <2>1, <2>2
<1> QED
  BY <1>1, <1>6, <1>7, <1>8, <1>9, <1>10 DEF ExecOK

LEMMA ExecutorStep ==
  ASSUME WorkflowIInv,
         \/ \E h \in Hashes : Recent!Run(h)
         \/ Recent!FuzzyMatch \/ Recent!RunStep \/ Recent!Fallback \/ Recent!Again
  PROVE  WorkflowIInv'
<1> USE DEF WorkflowIInv
<1>1. /\ UNCHANGED <<workflowPc, draft, recorded, files, size, deact, overlapped>>
      /\ ApprovedSteps' = ApprovedSteps
  BY DEF Recent!registryVars, Recent!Run, Recent!FuzzyMatch, Recent!RunStep, Recent!Fallback, Recent!Again, ApprovedSteps
<1>2. /\ \A q \in Recent!Runs : RunOK(q)'
      /\ \A h \in Hashes : InputOK(h)' /\ FileOK(h)'
      /\ deact'.hash # "idle" => deact'.data.steps \in ApprovedSteps'
  BY <1>1, FilesKept DEF RunOK, InputOK
<1> DEFINE Execs == [at : {"idle", "fuzzy", "step", "fallback", "returned"}, hash : Hashes \cup {"none"},
                     wf : Workflows, done : Nat]
           Results == [success : BOOLEAN, deterministic : BOOLEAN, steps : Nat, raised : BOOLEAN]
<1>3. SUFFICES exec' \in Execs /\ workflowResult' \in Results /\ ExecOK'
  BY <1>1, <1>2 DEF WorkflowTypeOK
<1>4. exec \in Execs /\ workflowResult \in Results /\ Recent!NotRunning \in Execs /\ Recent!NoResult \in Results
  BY DEF WorkflowTypeOK, Recent!NotRunning, Recent!NoResult, Recent!NoWorkflow, Workflows
<1>5. ASSUME NEW h \in Hashes, files[h] # Recent!NoWorkflow
      PROVE  files[h] \in Workflows /\ files[h].steps \in ApprovedSteps
  BY <1>5 DEF WorkflowTypeOK, InputOK
<1>6. CASE \E h \in Hashes : Recent!Run(h)
  <2>1. PICK h \in Hashes : Recent!Run(h)
    BY <1>6
  <2>2. CASE Recent!Match(h) # Recent!NoWorkflow
    <3>1. Recent!Match(h) = files[h] /\ files[h] # Recent!NoWorkflow
      BY <2>2 DEF Recent!Match
    <3>2. exec' = [exec EXCEPT !.at = "step", !.wf = files[h]] /\ UNCHANGED workflowResult
      BY <2>1, <2>2, <3>1 DEF Recent!Run
    <3> QED
      BY <1>1, <1>4, <1>5, <3>1, <3>2 DEF ExecOK
  <2>3. CASE Recent!Match(h) = Recent!NoWorkflow
    <3>1. exec' = [exec EXCEPT !.at = "fuzzy", !.hash = h] /\ UNCHANGED workflowResult
      BY <2>1, <2>3 DEF Recent!Run
    <3> QED
      BY <1>1, <1>4, <3>1 DEF ExecOK
  <2> QED
    BY <2>2, <2>3
<1>7. CASE Recent!FuzzyMatch
  <2>1. UNCHANGED workflowResult
    BY <1>7, ZenonT(20) DEF Recent!FuzzyMatch
  <2>2. \/ exec' = [Recent!NotRunning EXCEPT !.at = "fallback"]
        \/ \E g \in Hashes : /\ Recent!Match(g) # Recent!NoWorkflow
                             /\ exec' = [Recent!NotRunning EXCEPT !.at = "step", !.wf = files[g]]
    BY <1>7 DEF Recent!FuzzyMatch
  <2>3. CASE exec' = [Recent!NotRunning EXCEPT !.at = "fallback"]
    BY <1>1, <1>4, <2>1, <2>3 DEF ExecOK
  <2>4. CASE \E g \in Hashes : /\ Recent!Match(g) # Recent!NoWorkflow
                               /\ exec' = [Recent!NotRunning EXCEPT !.at = "step", !.wf = files[g]]
    <3>1. PICK g \in Hashes : /\ Recent!Match(g) # Recent!NoWorkflow
                              /\ exec' = [Recent!NotRunning EXCEPT !.at = "step", !.wf = files[g]]
      BY <2>4
    <3>2. files[g] # Recent!NoWorkflow
      BY <3>1 DEF Recent!Match
    <3> QED
      BY <1>1, <1>4, <1>5, <2>1, <3>1, <3>2 DEF ExecOK
  <2> QED
    BY <2>2, <2>3, <2>4, ZenonT(20)
<1>8. CASE Recent!RunStep
  <2>1. CASE exec.done = Len(exec.wf.steps)
    <3>1. /\ workflowResult' = [success |-> TRUE, deterministic |-> TRUE, steps |-> exec.done, raised |-> FALSE]
          /\ exec' = [exec EXCEPT !.at = "returned"] /\ exec.at = "step"
      BY <1>8, <2>1 DEF Recent!RunStep, Recent!Finish
    <3> QED
      BY <1>1, <1>4, <2>1, <3>1 DEF ExecOK
  <2>2. CASE exec.done # Recent!Len(exec.wf.steps)
    <3>1. /\ exec.at = "step" /\ UNCHANGED workflowResult
          /\ exec' = [exec EXCEPT !.done = @ + 1] \/ exec' = [exec EXCEPT !.at = "fallback"]
      BY <1>8, <2>2 DEF Recent!RunStep
    <3> QED
      BY <1>1, <1>4, <3>1 DEF ExecOK
  <2> QED
    BY <2>1, <2>2
<1>9. CASE Recent!Fallback
  <2>1. PICK ok, det \in BOOLEAN :
          /\ workflowResult' = [success |-> ok, deterministic |-> det, steps |-> exec.done, raised |-> FALSE]
          /\ ~(ok /\ det)
          /\ exec' = [exec EXCEPT !.at = "returned"]
    BY <1>9 DEF Recent!Fallback, Recent!Finish
  <2> QED
    BY <1>1, <1>4, <2>1 DEF ExecOK
<1>10. CASE Recent!Again
  <2>1. exec' = Recent!NotRunning /\ workflowResult' = Recent!NoResult
    BY <1>10 DEF Recent!Again
  <2> QED
    BY <1>4, <2>1 DEF ExecOK, Recent!NotRunning, Recent!NoResult
<1> QED
  BY <1>6, <1>7, <1>8, <1>9, <1>10, SMTT(20)

LEMMA WorkflowStep == WorkflowIInv /\ [Recent!Next]_(Recent!vars) => WorkflowIInv'
<1> SUFFICES ASSUME WorkflowIInv, [Recent!Next]_(Recent!vars) PROVE WorkflowIInv'
  OBVIOUS
<1>1. CASE UNCHANGED Recent!vars
  <2>1. UNCHANGED <<workflowPc, draft, recorded, files, size, deact, exec, workflowResult, overlapped>>
    BY <1>1 DEF Recent!vars
  <2>2. \A h \in Hashes : FileOK(h) => FileOK(h)'
    BY <2>1, FileKept DEF Recent!Writers
  <2> QED
    BY <2>1, <2>2 DEF WorkflowIInv, WorkflowTypeOK, RunOK, InputOK, ExecOK, ApprovedSteps
<1> QED
  BY <1>1, RecordStep, EvaluateStep, RegisterStep, StoreStep, DeactivateStep, DeactivateWriteStep, ExecutorStep
     DEF Recent!Next, Recent!Evaluation

(* A workflow that ran without the LLM ran the steps of a run that a person  *)
(* approved, whichever workers recorded, registered and deactivated at once.*)
THEOREM ApprovedStepsOnly == Recent!Spec => []DeterministicMeansApproved
<1>1. WorkflowIInv => DeterministicMeansApproved
  BY DEF WorkflowIInv, WorkflowTypeOK, ExecOK, ApprovedSteps, DeterministicMeansApproved,
         Recent!DeterministicMeansApproved
<1> QED
  BY <1>1, WorkflowInitOK, WorkflowStep, PTL DEF Recent!Spec

(* record() and evaluate() are two calls: when as many runs of an input are  *)
(* approved as crystallization asks for, the last to be evaluated sees all,  *)
(* and the workflow's file can be read unless it was opened while another    *)
(* writer had it open, whatever the lengths of the texts.                    *)
THEOREM NoApprovalIsLost == Recent!Spec => []EnoughRunsCrystallize
<1>1. ASSUME WorkflowIInv, Recent!Quiet, NEW h \in Hashes, Recent!Cardinality(Recent!Approved(h)) >= Threshold
      PROVE  files[h] # Recent!NoWorkflow /\ (Recent!Readable(h) \/ h \in overlapped)
  <2>1. files[h] # Recent!NoWorkflow
    BY <1>1 DEF WorkflowIInv, InputOK, Recent!Quiet, Recent!Approved
  <2>2. ~Recent!IsOpen(h)
    BY <1>1 DEF Recent!Quiet, Recent!IsOpen, Recent!Writers
  <2> QED
    BY <1>1, <2>1, <2>2 DEF WorkflowIInv, FileOK, Recent!Readable
<1>2. WorkflowIInv => EnoughRunsCrystallize
  BY <1>1 DEF EnoughRunsCrystallize, Recent!EnoughRunsCrystallize
<1> QED
  BY <1>2, WorkflowInitOK, WorkflowStep, PTL DEF Recent!Spec

-----------------------------------------------------------------------------
(* The redaction filter: nothing of a span is left.                         *)

(* The characters a+1 .. e of a text replaced by m characters of a label.   *)
Splice(r, a, e, m) == SubSeq(r, 1, a) \o [i \in 1..m |-> 0] \o SubSeq(r, e + 1, Len(r))

\* What is where in the new text, n longer than the old one.
Spliced(out, r, a, e, m, n) ==
  /\ out \in Seq(Nat) /\ Len(out) = Len(r) + n /\ DOMAIN out = 1 .. Len(r) + n
  /\ \A i \in 1 .. a : out[i] = r[i]
  /\ \A i \in (a + 1) .. (a + m) : out[i] = 0
  /\ \A i \in (a + m + 1) .. (Len(r) + n) : out[i] = r[i - n]
  /\ \A i \in (e + 1) .. Len(r) : out[i + n] = r[i]

LEMMA SplicedAt ==
  ASSUME NEW r \in Seq(Nat), NEW a \in Nat, NEW e \in Nat, NEW m \in Nat, a < e, e <= Len(r)
  PROVE  Spliced(Splice(r, a, e, m), r, a, e, m, m + a - e)
<1> DEFINE p == SubSeq(r, 1, a)
           k == [i \in 1..m |-> 0]
           q == SubSeq(r, e + 1, Len(r))
           n == m + a - e
<1>1. p \in Seq(Nat) /\ Len(p) = a /\ \A i \in 1 .. a : p[i] = r[i]
  <2>1. \A i \in 1 .. a : r[i] \in Nat
    OBVIOUS
  <2>2. /\ p \in Seq(Nat) /\ Len(p) = IF 1 <= a THEN a - 1 + 1 ELSE 0
        /\ \A i \in 1 .. a - 1 + 1 : p[i] = r[1 + i - 1]
    BY <2>1, SubSeqProperties
  <2>3. a - 1 + 1 = a /\ \A i \in 1 .. a : 1 + i - 1 = i
    OBVIOUS
  <2>4. Len(p) = a
    BY <2>2
  <2> QED
    BY <2>2, <2>3, <2>4
<1>2. k \in Seq(Nat) /\ Len(k) = m /\ \A i \in 1 .. m : k[i] = 0
  <2>1. k \in [1 .. m -> Nat]
    OBVIOUS
  <2> QED
    BY <2>1
<1>3. q \in Seq(Nat) /\ Len(q) = Len(r) - e /\ \A i \in 1 .. Len(r) - e : q[i] = r[e + i]
  <2>1. \A i \in e + 1 .. Len(r) : r[i] \in Nat
    OBVIOUS
  <2>2. /\ q \in Seq(Nat) /\ Len(q) = IF e + 1 <= Len(r) THEN Len(r) - (e + 1) + 1 ELSE 0
        /\ \A i \in 1 .. Len(r) - (e + 1) + 1 : q[i] = r[e + 1 + i - 1]
    BY <2>1, SubSeqProperties
  <2>3. Len(r) - (e + 1) + 1 = Len(r) - e /\ \A i \in 1 .. Len(r) - e : e + 1 + i - 1 = e + i
    OBVIOUS
  <2>4. Len(q) = Len(r) - e
    BY <2>2
  <2>5. \A i \in 1 .. Len(r) - e : q[i] = r[e + i]
    BY <2>2, <2>3
  <2> QED
    BY <2>2, <2>4, <2>5
<1> HIDE DEF p, k, q
<1>4. /\ p \o k \in Seq(Nat) /\ Len(p \o k) = a + m
      /\ \A i \in 1 .. a + m : (p \o k)[i] = IF i <= a THEN p[i] ELSE k[i - a]
  <2>1. p \in Seq(Nat) /\ k \in Seq(Nat)
    BY <1>1, <1>2
  <2>2. /\ p \o k \in Seq(Nat)
        /\ Len(p \o k) = Len(p) + Len(k)
        /\ \A i \in 1 .. Len(p) + Len(k) : (p \o k)[i] = IF i <= Len(p) THEN p[i] ELSE k[i - Len(p)]
    BY ONLY <2>1, ConcatProperties
  <2> QED
    BY <1>1, <1>2, <2>2
<1> DEFINE h == p \o k
           out == h \o q
<1>5. out = Splice(r, a, e, m)
  BY DEF Splice, p, k, q
<1> HIDE DEF h
<1>6. /\ out \in Seq(Nat) /\ Len(out) = a + m + (Len(r) - e)
      /\ \A i \in 1 .. a + m + (Len(r) - e) : out[i] = IF i <= a + m THEN h[i] ELSE q[i - (a + m)]
  <2>1. h \in Seq(Nat) /\ Len(h) = a + m
    BY <1>4 DEF h
  <2>2. /\ h \o q \in Seq(Nat)
        /\ Len(h \o q) = Len(h) + Len(q)
        /\ \A i \in 1 .. Len(h) + Len(q) : (h \o q)[i] = IF i <= Len(h) THEN h[i] ELSE q[i - Len(h)]
    BY ONLY <1>3, <2>1, ConcatProperties
  <2> QED
    BY <1>3, <2>1, <2>2
<1> HIDE DEF out
<1>7. /\ \A i \in 1 .. a : out[i] = r[i]
      /\ \A i \in (a + 1) .. (a + m) : out[i] = 0
  <2>1. \A i \in 1 .. a : i \in 1 .. a + m + (Len(r) - e) /\ i <= a + m
    OBVIOUS
  <2>2. \A i \in (a + 1) .. (a + m) :
          i \in 1 .. a + m + (Len(r) - e) /\ i <= a + m /\ ~(i <= a) /\ i - a \in 1 .. m
    OBVIOUS
  <2>3. \A i \in 1 .. a : h[i] = p[i]
    BY <1>4 DEF h
  <2>4. ASSUME NEW i \in (a + 1) .. (a + m) PROVE h[i] = k[i - a]
    <3>1. i \in 1 .. a + m /\ ~(i <= a)
      OBVIOUS
    <3> QED
      BY <1>4, <3>1 DEF h
  <2>5. ASSUME NEW i \in 1 .. a PROVE out[i] = r[i]
    <3>1. out[i] = h[i]
      BY <1>6, <2>1
    <3> QED
      BY <1>1, <2>3, <3>1
  <2>6. ASSUME NEW i \in (a + 1) .. (a + m) PROVE out[i] = 0
    <3>1. out[i] = h[i]
      BY <1>6, <2>2
    <3>2. k[i - a] = 0
      BY <1>2, <2>2
    <3> QED
      BY <2>4, <3>1, <3>2
  <2> QED
    BY <2>5, <2>6
<1>8. ASSUME NEW i \in (a + m + 1) .. (Len(r) + n) PROVE out[i] = r[i - n]
  <2>1. /\ i \in 1 .. a + m + (Len(r) - e) /\ ~(i <= a + m) /\ i - (a + m) \in 1 .. Len(r) - e
        /\ e + (i - (a + m)) = i - n
    OBVIOUS
  <2>2. out[i] = q[i - (a + m)]
    BY <1>6, <2>1
  <2>3. q[i - (a + m)] = r[e + (i - (a + m))]
    BY <1>3, <2>1
  <2> QED
    BY <2>1, <2>2, <2>3
<1>9. ASSUME NEW i \in (e + 1) .. Len(r) PROVE out[i + n] = r[i]
  <2>1. i + n \in (a + m + 1) .. (Len(r) + n) /\ (i + n) - n = i
    OBVIOUS
  <2> HIDE DEF n
  <2> QED
    BY <1>8, <2>1
<1>10. Len(out) = Len(r) + n /\ DOMAIN out = 1 .. Len(r) + n
  BY <1>6
<1> QED
  BY <1>5, <1>6, <1>7, <1>8, <1>9, <1>10 DEF Spliced

\* A sequence without its k-th member.
LEMMA RemovedAt ==
  ASSUME NEW S, NEW s \in Seq(S), NEW k \in 1 .. Len(s)
  PROVE  /\ Filter!RemoveAt(s, k) \in Seq(S) /\ Len(Filter!RemoveAt(s, k)) = Len(s) - 1
         /\ \A i \in 1 .. Len(s) - 1 : Filter!RemoveAt(s, k)[i] = s[IF i < k THEN i ELSE i + 1]
<1> DEFINE p == SubSeq(s, 1, k - 1)
           q == SubSeq(s, k + 1, Len(s))
<1>1. p \in Seq(S) /\ Len(p) = k - 1 /\ \A i \in 1 .. k - 1 : p[i] = s[i]
  <2>1. \A i \in 1 .. k - 1 : s[i] \in S
    OBVIOUS
  <2>2. /\ p \in Seq(S) /\ Len(p) = IF 1 <= k - 1 THEN k - 1 - 1 + 1 ELSE 0
        /\ \A i \in 1 .. k - 1 - 1 + 1 : p[i] = s[1 + i - 1]
    BY <2>1, SubSeqProperties
  <2>3. k - 1 - 1 + 1 = k - 1 /\ \A i \in 1 .. k - 1 : 1 + i - 1 = i
    OBVIOUS
  <2>4. Len(p) = k - 1
    BY <2>2
  <2> QED
    BY <2>2, <2>3, <2>4
<1>2. q \in Seq(S) /\ Len(q) = Len(s) - k /\ \A i \in 1 .. Len(s) - k : q[i] = s[k + i]
  <2>1. \A i \in k + 1 .. Len(s) : s[i] \in S
    OBVIOUS
  <2>2. /\ q \in Seq(S) /\ Len(q) = IF k + 1 <= Len(s) THEN Len(s) - (k + 1) + 1 ELSE 0
        /\ \A i \in 1 .. Len(s) - (k + 1) + 1 : q[i] = s[k + 1 + i - 1]
    BY <2>1, SubSeqProperties
  <2>3. Len(s) - (k + 1) + 1 = Len(s) - k /\ \A i \in 1 .. Len(s) - k : k + 1 + i - 1 = k + i
    OBVIOUS
  <2>4. Len(q) = Len(s) - k
    BY <2>2
  <2>5. \A i \in 1 .. Len(s) - k : q[i] = s[k + i]
    BY <2>2, <2>3
  <2> QED
    BY <2>2, <2>4, <2>5
<1> HIDE DEF p, q
<1>3. /\ p \o q \in Seq(S) /\ Len(p \o q) = Len(p) + Len(q)
      /\ \A i \in 1 .. Len(p) + Len(q) : (p \o q)[i] = IF i <= Len(p) THEN p[i] ELSE q[i - Len(p)]
  BY ONLY <1>1, <1>2, ConcatProperties
<1>4. ASSUME NEW i \in 1 .. Len(s) - 1 PROVE (p \o q)[i] = s[IF i < k THEN i ELSE i + 1]
  <2>1. CASE i < k
    BY <1>1, <1>2, <1>3, <2>1
  <2>2. CASE ~(i < k)
    <3>1. (p \o q)[i] = q[i - (k - 1)] /\ i - (k - 1) \in 1 .. Len(s) - k /\ k + (i - (k - 1)) = i + 1
      BY <1>1, <1>2, <1>3, <2>2
    <3> QED
      BY <1>2, <2>2, <3>1
  <2> QED
    BY <2>1, <2>2
<1>5. Len(p \o q) = Len(s) - 1
  BY <1>1, <1>2, <1>3
<1> QED
  BY <1>3, <1>4, <1>5 DEF Filter!RemoveAt, p, q

-----------------------------------------------------------------------------
SpansApart(s) == \A i, j \in DOMAIN s : i # j => Filter!Apart(s[i], s[j])
SpansDone == Filter!Range(spans) \ Filter!Range(todo)
Zeros(r) == {i \in DOMAIN r : r[i] = 0}

\* The characters that are in none of the spans of S.
Outside(S) == {c \in 1 .. Length : \A d \in S : ~(d.start < c /\ c <= d.end)}

RightToLeft == \A d \in SpansDone, t \in Filter!Range(todo) : t.end <= d.start
Untouched ==
  \A c \in 1 .. Length : (\A d \in SpansDone : c <= d.start) => c <= Len(redacted) /\ redacted[c] = c
InOrder(r) == \A i, j \in DOMAIN r : i < j /\ r[i] # 0 /\ r[j] # 0 => r[i] < r[j]

FilterTypeOK ==
  /\ spans \in Seq(Filter!Span) /\ todo \in Seq(Filter!Span) /\ redacted \in Seq(Nat)
  /\ SpansApart(spans) /\ SpansApart(todo)
  /\ Filter!Range(todo) \subseteq Filter!Range(spans)

(* While the spans are replaced: those replaced are right of those left, so *)
(* up to the last one left the text is still the old one.                   *)
FilterIInv ==
  /\ FilterTypeOK /\ RightToLeft /\ Untouched /\ InOrder(redacted)
  /\ Filter!Range(redacted) \ {0} = Outside(SpansDone)
  /\ \A d \in SpansDone : Filter!Replaced(d)
  /\ IsFiniteSet(Filter!Letters(SpansDone))
  /\ Cardinality(Zeros(redacted)) = Cardinality(Filter!Letters(SpansDone))

LEMMA RedactInit == Filter!Init => FilterIInv
<1> SUFFICES ASSUME Filter!Init PROVE FilterIInv
  OBVIOUS
<1>0. Length \in Nat /\ MaxSpans \in Nat
  BY LibraryAssumption DEF Filter!ConstantsOK
<1>1. spans \in Seq(Filter!Span) /\ todo = spans /\ SpansApart(spans)
  <2>1. PICK m \in 0 .. MaxSpans : spans \in [1 .. m -> Filter!Span]
    BY <1>0 DEF Filter!Init, Filter!Found, Filter!BoundedSeq, Filter!SeqOf
  <2> QED
    BY <2>1 DEF Filter!Init, Filter!Found, SpansApart
<1>2. /\ redacted \in Seq(Nat) /\ DOMAIN redacted = 1 .. Length /\ Len(redacted) = Length
      /\ \A c \in 1 .. Length : redacted[c] = c
  <2>1. redacted = [i \in 1 .. Length |-> i]
    BY DEF Filter!Init, Filter!Text
  <2>2. redacted \in [1 .. Length -> Nat]
    BY <2>1
  <2> QED
    BY <1>0, <2>1, <2>2
<1>3. SpansDone = {}
  BY <1>1 DEF SpansDone
<1>4. Filter!Range(redacted) = 1 .. Length
  BY <1>2 DEF Filter!Range
<1>5. Filter!Letters(SpansDone) = {} /\ Zeros(redacted) = {}
  BY <1>2, <1>3 DEF Filter!Letters, Zeros
<1>6. /\ IsFiniteSet(Filter!Letters(SpansDone))
      /\ Cardinality(Zeros(redacted)) = Cardinality(Filter!Letters(SpansDone))
  BY <1>5, FS_EmptySet
<1>7. Filter!Range(redacted) \ {0} = Outside(SpansDone)
  BY <1>0, <1>3, <1>4 DEF Outside
<1>8. InOrder(redacted)
  BY <1>0, <1>2 DEF InOrder
<1>9. Untouched /\ RightToLeft /\ \A d \in SpansDone : Filter!Replaced(d)
  BY <1>0, <1>2, <1>3 DEF Untouched, RightToLeft
<1>10. FilterTypeOK
  BY <1>1, <1>2 DEF FilterTypeOK
<1> QED
  BY <1>6, <1>7, <1>8, <1>9, <1>10 DEF FilterIInv

\* The span replaced next is the one furthest right.
LEMMA NextIsRightmost ==
  ASSUME todo \in Seq(Filter!Span), todo # <<>>
  PROVE  /\ Filter!Next1 \in 1 .. Len(todo)
         /\ \A j \in 1 .. Len(todo) : todo[j].start <= todo[Filter!Next1].start
<1> DEFINE Starts == {todo[j].start : j \in 1 .. Len(todo)}
<1>0. Length \in Nat /\ DOMAIN todo = 1 .. Len(todo) /\ Len(todo) \in Nat /\ 1 \in 1 .. Len(todo)
  BY LibraryAssumption DEF Filter!ConstantsOK
<1>1. \A j \in 1 .. Len(todo) : todo[j].start \in 0 .. Length
  BY <1>0 DEF Filter!Span
<1>2. Starts \in SUBSET (0 .. Length) /\ Starts # {}
  BY <1>0, <1>1
<1>3. PICK x \in Starts : \A y \in Starts : x >= y
  <2> HIDE DEF Starts
  <2> QED
    BY <1>0, <1>2, GreatestExists
<1> DEFINE Last == {j \in 1 .. Len(todo) : todo[j].start = x}
<1>4. Last \in SUBSET Nat /\ Last # {}
  BY <1>3
<1>5. PICK i \in Last : \A j \in Last : i <= j
  <2> HIDE DEF Last
  <2> QED
    BY <1>4, LeastExists
<1>6. ASSUME NEW j \in DOMAIN todo
      PROVE  todo[j].start < todo[i].start \/ (todo[j].start = todo[i].start /\ i <= j)
  <2>1. i \in Last /\ todo[i].start = x /\ todo[j].start <= x
    BY <1>0, <1>3, <1>5, <1>6
  <2>2. CASE todo[j].start = x
    BY <1>0, <1>5, <1>6, <2>1, <2>2
  <2>3. CASE todo[j].start # x
    <3>1. todo[j].start \in Nat /\ x \in Nat
      BY <1>0, <1>1, <1>2, <1>3, <1>6
    <3> QED
      BY <2>1, <2>3, <3>1
  <2> QED
    BY <2>2, <2>3
<1>7. i \in DOMAIN todo
  BY <1>0, <1>5
<1>8. /\ Filter!Next1 \in DOMAIN todo
      /\ \A j \in DOMAIN todo :
           \/ todo[j].start < todo[Filter!Next1].start
           \/ (todo[j].start = todo[Filter!Next1].start /\ Filter!Next1 <= j)
  <2> HIDE DEF Last, Starts
  <2> QED
    BY <1>6, <1>7 DEF Filter!Next1
<1> QED
  BY <1>0, <1>1, <1>8

\* The characters of one more marker.
LEMMA OneMoreMarker ==
  ASSUME NEW S, NEW s \in Filter!Span, s \notin S, IsFiniteSet(Filter!Letters(S))
  PROVE  /\ IsFiniteSet(Filter!Letters(S \cup {s}))
         /\ Cardinality(Filter!Letters(S \cup {s})) = Cardinality(Filter!Letters(S)) + (s.label + 2)
<1> DEFINE m == s.label + 2
           M == {s} \X (1 .. m)
           f == [i \in 1 .. m |-> <<s, i>>]
<1>1. m \in Nat
  <2>1. s.label \in Labels /\ Labels \subseteq Nat
    BY LibraryAssumption DEF Filter!ConstantsOK, Filter!Span
  <2>2. s.label \in Nat
    BY <2>1
  <2> QED
    BY <2>2
<1>2. f \in Bijection(1 .. m, M)
  BY DEF Bijection, Injection, Surjection, IsInjective
<1>3. IsFiniteSet(1 .. m) /\ Cardinality(1 .. m) = m
  BY <1>1, FS_Interval
<1>4. IsFiniteSet(M) /\ Cardinality(M) = m
  BY <1>2, <1>3, FS_Bijection DEF ExistsBijection
<1>5. Filter!Letters(S \cup {s}) = Filter!Letters(S) \cup M
  BY DEF Filter!Letters
<1>6. Filter!Letters(S) \cap M = {}
  BY DEF Filter!Letters
<1> DEFINE L == Filter!Letters(S)
<1> HIDE DEF M, m, L
<1>7. IsFiniteSet(L) /\ Cardinality(L) \in Nat
  BY FS_CardinalityType DEF L
<1>8. IsFiniteSet(L \cup M) /\ Cardinality(L \cup M) = Cardinality(L) + Cardinality(M) - Cardinality(L \cap M)
  BY <1>4, <1>7, FS_Union
<1>9. Cardinality(L \cap M) = 0
  BY <1>6, FS_EmptySet DEF L
<1>10. IsFiniteSet(L \cup M) /\ Cardinality(L \cup M) = Cardinality(L) + m
  BY <1>1, <1>4, <1>7, <1>8, <1>9
<1> QED
  BY <1>5, <1>10 DEF L, m

\* The zeros of a text after a replacement: those of the rest, moved, and the marker's.
LEMMA ZerosMove ==
  ASSUME NEW r \in Seq(Nat), NEW a \in Nat, NEW e \in Nat, NEW m \in Nat, a < e, e <= Len(r),
         \A i \in 1 .. e : r[i] = i
  PROVE  Cardinality(Zeros(Splice(r, a, e, m))) = Cardinality(Zeros(r)) + m
<1> DEFINE out == Splice(r, a, e, m)
           n == m + a - e
           Moved == {i \in (a + m + 1) .. (Len(r) + n) : out[i] = 0}
           f == [i \in Zeros(r) |-> i + n]
<1>1. /\ DOMAIN out = 1 .. Len(r) + n /\ DOMAIN r = 1 .. Len(r) /\ Len(r) \in Nat
      /\ \A i \in 1 .. a : out[i] = r[i]
      /\ \A i \in (a + 1) .. (a + m) : out[i] = 0
      /\ \A i \in (a + m + 1) .. (Len(r) + n) : out[i] = r[i - n]
      /\ \A i \in (e + 1) .. Len(r) : out[i + n] = r[i]
  <2>1. Spliced(out, r, a, e, m, n)
    BY SplicedAt
  <2>2. DOMAIN r = 1 .. Len(r) /\ Len(r) \in Nat
    OBVIOUS
  <2> HIDE DEF out, n
  <2> QED
    BY <2>1, <2>2 DEF Spliced
<1> HIDE DEF out
<1>2. \A i \in Zeros(r) : i \in (e + 1) .. Len(r) /\ i + n \in (a + m + 1) .. (Len(r) + n) /\ out[i + n] = 0
  BY <1>1 DEF Zeros
<1>3. \A i \in Moved : i - n \in Zeros(r) /\ (i - n) + n = i
  BY <1>1 DEF Zeros
<1>4. f \in Bijection(Zeros(r), Moved)
  <2>1. f \in [Zeros(r) -> Moved]
    BY <1>2
  <2>2. \A i, j \in Zeros(r) : f[i] = f[j] => i = j
    BY <1>2
  <2>3. \A j \in Moved : \E i \in Zeros(r) : f[i] = j
    BY <1>3
  <2> QED
    BY <2>1, <2>2, <2>3 DEF Bijection, Injection, Surjection, IsInjective
<1>5. IsFiniteSet(Zeros(r)) /\ Cardinality(Zeros(r)) \in Nat
  <2>1. Zeros(r) \in SUBSET (1 .. Len(r))
    BY <1>1 DEF Zeros
  <2> QED
    <3>1. IsFiniteSet(1 .. Len(r))
      BY <1>1, FS_Interval
    <3>2. IsFiniteSet(Zeros(r))
      BY <2>1, <3>1, FS_Subset
    <3> QED
      BY <3>2, FS_CardinalityType
<1>6. IsFiniteSet(Moved) /\ Cardinality(Moved) = Cardinality(Zeros(r))
  BY <1>4, <1>5, FS_Bijection DEF ExistsBijection
<1>7. /\ IsFiniteSet((a + 1) .. (a + m)) /\ Cardinality((a + 1) .. (a + m)) = m
  BY FS_Interval
<1>8. Zeros(out) = Moved \cup ((a + 1) .. (a + m))
  <2>1. ASSUME NEW i \in Zeros(out) PROVE i \in Moved \/ i \in (a + 1) .. (a + m)
    <3>1. i \in 1 .. Len(r) + n /\ out[i] = 0
      BY <1>1, <2>1 DEF Zeros
    <3>2. ~(i <= a)
      BY <1>1, <3>1
    <3> QED
      BY <3>1, <3>2
  <2>2. Moved \subseteq Zeros(out) /\ (a + 1) .. (a + m) \subseteq Zeros(out)
    BY <1>1 DEF Zeros
  <2> QED
    BY <2>1, <2>2
<1>9. Moved \cap ((a + 1) .. (a + m)) = {}
  OBVIOUS
<1> HIDE DEF Moved
<1>10. Cardinality(Zeros(out)) = Cardinality(Moved) + m
  <2> DEFINE I == (a + 1) .. (a + m)
  <2>1. IsFiniteSet(I) /\ Cardinality(I) = m /\ Zeros(out) = Moved \cup I /\ Moved \cap I = {}
    BY <1>7, <1>8, <1>9
  <2> HIDE DEF I
  <2>2. Cardinality(Moved \cup I) = Cardinality(Moved) + Cardinality(I) - Cardinality(Moved \cap I)
    BY <1>6, <2>1, FS_Union
  <2>3. Cardinality(Moved \cap I) = 0
    BY <2>1, FS_EmptySet
  <2> QED
    BY <1>5, <1>6, <2>1, <2>2, <2>3
<1> QED
  BY <1>6, <1>10 DEF out

LEMMA RedactStep == ASSUME FilterIInv, Filter!Redact PROVE FilterIInv'
<1> DEFINE k == Filter!Next1
           s == todo[k]
           a == s.start
           e == s.end
           m == s.label + 2
           n == m + a - e
           L == Len(redacted)
<1>0. Length \in Nat /\ Labels \in SUBSET Nat
  BY LibraryAssumption DEF Filter!ConstantsOK
<1>1. /\ spans \in Seq(Filter!Span) /\ todo \in Seq(Filter!Span) /\ redacted \in Seq(Nat)
      /\ todo # <<>> /\ spans' = spans /\ todo' = Filter!RemoveAt(todo, k)
      /\ SpansApart(spans) /\ SpansApart(todo) /\ Filter!Range(todo) \subseteq Filter!Range(spans)
  BY DEF FilterIInv, FilterTypeOK, Filter!Redact
<1>2. k \in 1 .. Len(todo) /\ \A j \in 1 .. Len(todo) : todo[j].start <= s.start
  BY <1>1, NextIsRightmost
<1>3. s \in Filter!Span /\ a \in 0 .. Length /\ e \in 0 .. Length /\ a < e /\ s.label \in Nat
  <2>1. s \in Filter!Span
    BY <1>1, <1>2
  <2> QED
    BY <1>0, <2>1 DEF Filter!Span
<1>4. a \in Nat /\ e \in Nat /\ m \in Nat /\ 2 <= m /\ n \in Int /\ 1 <= e /\ e <= Length
  BY <1>0, <1>3
<1>5. /\ todo' \in Seq(Filter!Span) /\ Len(todo') = Len(todo) - 1
      /\ \A i \in 1 .. Len(todo) - 1 : todo'[i] = todo[IF i < k THEN i ELSE i + 1]
  BY <1>1, <1>2, RemovedAt
<1>6. DOMAIN todo = 1 .. Len(todo) /\ DOMAIN todo' = 1 .. Len(todo) - 1 /\ Len(todo) \in Nat
  BY <1>1, <1>5
<1>7. ASSUME NEW j \in 1 .. Len(todo), j # k PROVE todo[j] # s /\ todo[j].end <= a
  <2>0. j \in DOMAIN todo /\ k \in DOMAIN todo
    BY <1>2, <1>6
  <2>1. todo[j] \in Filter!Span /\ Filter!Apart(todo[j], s) /\ todo[j].start <= a
    <3>1. todo[j] \in Filter!Span
      BY <1>1, <1>6
    <3>2. Filter!Apart(todo[j], todo[k])
      BY <1>1, <1>7, <2>0 DEF SpansApart
    <3>3. todo[j].start <= a
      BY <1>2
    <3> QED
      BY <3>1, <3>2, <3>3
  <2>2. todo[j].start \in Nat /\ todo[j].end \in Nat /\ todo[j].start < todo[j].end
    BY <1>0, <2>1 DEF Filter!Span
  <2>3. todo[j].end <= a \/ e <= todo[j].start
    BY <2>1 DEF Filter!Apart
  <2> HIDE DEF s
  <2>4. todo[j].end <= a
    <3>1. a \in Nat /\ e \in Nat /\ a < e /\ todo[j].start <= a
      BY <1>3, <1>4, <2>1
    <3> HIDE DEF a, e
    <3> QED
      BY <2>2, <2>3, <3>1
  <2>5. todo[j] # s
    <3>1. a < s.end /\ s.end \in Nat /\ a \in Nat
      BY <1>3, <1>4
    <3> QED
      BY <2>4, <3>1
  <2> QED
    BY <2>4, <2>5
<1>8. Filter!Range(todo)' = Filter!Range(todo) \ {s}
  <2>1. ASSUME NEW i \in 1 .. Len(todo) - 1 PROVE \E j \in 1 .. Len(todo) : j # k /\ todo'[i] = todo[j]
    <3>1. /\ (IF i < k THEN i ELSE i + 1) \in 1 .. Len(todo)
          /\ (IF i < k THEN i ELSE i + 1) # k
      BY <1>2, <1>6
    <3> QED
      BY <1>5, <3>1
  <2>2. ASSUME NEW j \in 1 .. Len(todo), j # k PROVE \E i \in 1 .. Len(todo) - 1 : todo'[i] = todo[j]
    <3>1. CASE j < k
      <4>1. j \in 1 .. Len(todo) - 1 /\ todo'[j] = todo[j]
        BY <1>2, <1>5, <1>6, <3>1
      <4> QED
        BY <4>1
    <3>2. CASE ~(j < k)
      <4>1. j - 1 \in 1 .. Len(todo) - 1 /\ ~(j - 1 < k) /\ (j - 1) + 1 = j
        BY <1>2, <1>6, <2>2, <3>2
      <4> QED
        BY <1>5, <4>1
    <3> QED
      BY <3>1, <3>2
  <2>3. \A x : x \in Filter!Range(todo)' <=> \E i \in 1 .. Len(todo) - 1 : todo'[i] = x
    BY <1>6 DEF Filter!Range
  <2>4. \A x : x \in Filter!Range(todo) <=> \E j \in 1 .. Len(todo) : todo[j] = x
    BY <1>6 DEF Filter!Range
  <2>5. ASSUME NEW x, x \in Filter!Range(todo)' PROVE x \in Filter!Range(todo) /\ x # s
    <3>1. PICK i \in 1 .. Len(todo) - 1 : todo'[i] = x
      BY <2>3, <2>5
    <3>2. PICK j \in 1 .. Len(todo) : j # k /\ todo'[i] = todo[j]
      BY <2>1
    <3>3. todo[j] # s
      BY <1>7, <3>2
    <3> QED
      BY <2>4, <3>1, <3>2, <3>3
  <2>6. ASSUME NEW x, x \in Filter!Range(todo), x # s PROVE x \in Filter!Range(todo)'
    <3>1. PICK j \in 1 .. Len(todo) : todo[j] = x
      BY <2>4, <2>6
    <3>2. j # k
      BY <2>6, <3>1
    <3>3. PICK i \in 1 .. Len(todo) - 1 : todo'[i] = todo[j]
      BY <2>2, <3>2
    <3> QED
      BY <2>3, <3>1, <3>3
  <2> HIDE DEF s
  <2> QED
    BY <2>5, <2>6
<1>9. SpansApart(todo)'
  <2>1. ASSUME NEW i \in DOMAIN todo', NEW j \in DOMAIN todo', i # j PROVE Filter!Apart(todo'[i], todo'[j])
    <3> DEFINE p == IF i < k THEN i ELSE i + 1
               q == IF j < k THEN j ELSE j + 1
    <3>1. p \in 1 .. Len(todo) /\ q \in 1 .. Len(todo) /\ p # q
      BY <1>2, <1>6, <2>1
    <3>2. todo'[i] = todo[p] /\ todo'[j] = todo[q]
      BY <1>5, <1>6
    <3> HIDE DEF p, q
    <3> QED
      BY <1>1, <1>6, <3>1, <3>2 DEF SpansApart
  <2> QED
    BY <2>1 DEF SpansApart
<1>10. s \in Filter!Range(todo) /\ s \in Filter!Range(spans) /\ s \notin SpansDone
  BY <1>1, <1>2, <1>6 DEF Filter!Range, SpansDone
<1>11. SpansDone' = SpansDone \cup {s}
  BY <1>1, <1>8, <1>10 DEF SpansDone
<1>12. \A d \in SpansDone : e <= d.start /\ d \in Filter!Span
  <2>1. ASSUME NEW d \in SpansDone PROVE e <= d.start
    BY <1>10 DEF FilterIInv, RightToLeft
  <2>2. ASSUME NEW d \in SpansDone PROVE d \in Filter!Span
    <3>1. PICK j \in DOMAIN spans : spans[j] = d
      BY DEF SpansDone, Filter!Range
    <3> QED
      BY <1>1, <3>1
  <2> QED
    BY <2>1, <2>2
<1>13. e <= L /\ \A c \in 1 .. e : redacted[c] = c
  <2>1. ASSUME NEW c \in 1 .. e PROVE c <= L /\ redacted[c] = c
    <3>1. c \in 1 .. Length /\ c <= e
      BY <1>0, <1>4
    <3>2. \A d \in SpansDone : c <= d.start
      <4>1. \A d \in SpansDone : d.start \in Nat
        BY <1>0, <1>12 DEF Filter!Span
      <4> QED
        BY <1>4, <1>12, <3>1, <4>1
    <3> QED
      BY <3>1, <3>2 DEF FilterIInv, Untouched
  <2> QED
    BY <1>4, <2>1
<1>14. /\ Spliced(redacted', redacted, a, e, m, n) /\ redacted' = Splice(redacted, a, e, m)
  <2>1. redacted' = Splice(redacted, a, e, m)
    BY DEF Filter!Redact, Filter!Marker, Splice
  <2>2. Spliced(Splice(redacted, a, e, m), redacted, a, e, m, n)
    BY <1>1, <1>3, <1>4, <1>13, SplicedAt
  <2> QED
    BY <2>1, <2>2, SMTT(20)
<1>15. DOMAIN redacted = 1 .. L /\ L \in Nat /\ \A i \in 1 .. L : redacted[i] \in Nat
  BY <1>1
<1>16. \A i \in (e + 1) .. L : redacted[i] = 0 \/ redacted[i] > e
  <2>1. e \in 1 .. L /\ redacted[e] = e /\ e # 0
    BY <1>4, <1>13, <1>15
  <2> SUFFICES ASSUME NEW i \in (e + 1) .. L PROVE redacted[i] = 0 \/ redacted[i] > e
    OBVIOUS
  <2>2. i \in 1 .. L /\ e < i /\ redacted[i] \in Nat
    BY <1>4, <1>15
  <2>3. e < i /\ redacted[e] # 0 /\ redacted[i] # 0 => redacted[e] < redacted[i]
    <3> HIDE DEF e, L
    <3> QED
      BY <1>15, <2>1, <2>2 DEF FilterIInv, InOrder
  <2> HIDE DEF e, L
  <2> QED
    BY <2>1, <2>2, <2>3, <1>4
<1> HIDE DEF k, s
<1>17. FilterTypeOK'
  BY <1>1, <1>5, <1>8, <1>9, <1>14 DEF FilterTypeOK, Spliced
<1>18. RightToLeft'
  <2>1. \A t \in Filter!Range(todo)' : t.end <= a /\ t \in Filter!Range(todo)
    BY <1>6, <1>7, <1>8 DEF Filter!Range, s
  <2> QED
    BY <1>8, <1>11, <2>1 DEF FilterIInv, RightToLeft
<1> DEFINE r == redacted'
<1>19. /\ Len(r) = L + n /\ DOMAIN r = 1 .. L + n /\ L + n \in Nat /\ e <= L /\ a < e
       /\ \A i \in 1 .. a : r[i] = i
       /\ \A i \in (a + 1) .. (a + m) : r[i] = 0
       /\ \A i \in (a + m + 1) .. (L + n) : r[i] = redacted[i - n]
       /\ \A i \in (e + 1) .. L : r[i + n] = redacted[i]
  <2> HIDE DEF r, n, m, a, e
  <2>1. /\ Len(r) = L + n /\ DOMAIN r = 1 .. L + n
        /\ \A i \in 1 .. a : r[i] = redacted[i]
        /\ \A i \in (a + 1) .. (a + m) : r[i] = 0
        /\ \A i \in (a + m + 1) .. (L + n) : r[i] = redacted[i - n]
        /\ \A i \in (e + 1) .. L : r[i + n] = redacted[i]
    BY <1>14 DEF Spliced, r
  <2>2. \A i \in 1 .. a : i \in 1 .. e
    BY <1>3, <1>4
  <2>3. L + n \in Nat /\ e <= L /\ a < e
    BY <1>3, <1>4, <1>13, <1>15 DEF n
  <2> QED
    BY <1>13, <2>1, <2>2, <2>3
<1>20. /\ n = m + a - e /\ n \in Int /\ L \in Nat /\ L + n \in Nat /\ Len(r) = L + n
       /\ a \in Nat /\ e \in Nat /\ m \in Nat /\ 2 <= m /\ 1 <= e /\ a < e /\ e <= L
  <2>1. n = m + a - e
    OBVIOUS
  <2> HIDE DEF n, L, r, a, e, m
  <2> QED
    BY <1>4, <1>15, <1>19, <2>1
<1> HIDE DEF a, e, m, n, L, r
<1>21. Untouched'
  <2> SUFFICES ASSUME NEW c \in 1 .. Length, \A d \in SpansDone' : c <= d.start
               PROVE  c <= Len(r) /\ r[c] = c
    BY DEF Untouched, r
  <2>1. c \in 1 .. a
    BY <1>0, <1>4, <1>11 DEF a
  <2> QED
    BY <1>19, <1>20, <2>1
<1>22. \A i \in 1 .. L + n : \/ i \in 1 .. a /\ r[i] = i
                             \/ i \in (a + 1) .. (a + m) /\ r[i] = 0
                             \/ i - n \in (e + 1) .. L /\ i > a + m /\ r[i] = redacted[i - n]
  <2> SUFFICES ASSUME NEW i \in 1 .. L + n
               PROVE  \/ i \in 1 .. a /\ r[i] = i
                      \/ i \in (a + 1) .. (a + m) /\ r[i] = 0
                      \/ i - n \in (e + 1) .. L /\ i > a + m /\ r[i] = redacted[i - n]
    OBVIOUS
  <2>1. i \in 1 .. a \/ i \in (a + 1) .. (a + m) \/ i \in (a + m + 1) .. (L + n)
    BY <1>4, <1>15, <1>19
  <2>2. ASSUME i \in (a + m + 1) .. (L + n) PROVE i - n \in (e + 1) .. L /\ i > a + m
    BY <1>20, <2>2
  <2> QED
    BY <1>19, <2>1, <2>2
<1>23. InOrder(redacted)'
  <2> SUFFICES ASSUME NEW i \in 1 .. L + n, NEW j \in 1 .. L + n, i < j, r[i] # 0, r[j] # 0
               PROVE  r[i] < r[j]
    BY <1>19 DEF InOrder, r
  <2>1. CASE i \in 1 .. a /\ j \in 1 .. a
    BY <1>19, <2>1
  <2>2. CASE i \in 1 .. a /\ j - n \in (e + 1) .. L /\ r[j] = redacted[j - n]
    <3>1. redacted[j - n] > e /\ redacted[j - n] \in Nat
      BY <1>4, <1>15, <1>16, <2>2
    <3> QED
      BY <1>3, <1>4, <1>19, <2>2, <3>1
  <2>3. CASE i - n \in (e + 1) .. L /\ r[i] = redacted[i - n] /\ j - n \in (e + 1) .. L /\ r[j] = redacted[j - n]
    <3>1. i - n \in 1 .. L /\ j - n \in 1 .. L /\ i - n < j - n
      BY <1>4, <1>15, <2>3
    <3> QED
      BY <1>15, <2>3, <3>1 DEF FilterIInv, InOrder
  <2>4. CASE i - n \in (e + 1) .. L /\ i > a + m /\ j \in 1 .. a
    BY <1>4, <1>15, <2>4
  <2> QED
    BY <1>22, <2>1, <2>2, <2>3, <2>4
<1>24. Filter!Range(redacted)' \ {0} = Outside(SpansDone)'
  <2>1. \A x : x \in Outside(SpansDone)' <=> x \in Outside(SpansDone) /\ ~(a < x /\ x <= e)
    BY <1>11 DEF Outside, a, e
  <2>2. \A x : x \in Outside(SpansDone) <=> x # 0 /\ \E i \in 1 .. L : redacted[i] = x
    BY <1>15 DEF FilterIInv, Filter!Range
  <2>3. \A x : x \in Filter!Range(redacted)' <=> \E i \in 1 .. L + n : r[i] = x
    BY <1>19 DEF Filter!Range, r
  <2>4. ASSUME NEW x, x # 0, x \in Filter!Range(redacted)' PROVE x \in Outside(SpansDone)'
    <3>1. PICK i \in 1 .. L + n : r[i] = x
      BY <2>3, <2>4
    <3>2. CASE i \in 1 .. a /\ r[i] = i
      <4>1. i \in 1 .. L /\ i \in 1 .. e /\ redacted[i] = x /\ ~(a < x)
        BY <1>3, <1>4, <1>13, <1>15, <3>1, <3>2
      <4> QED
        BY <2>1, <2>2, <2>4, <4>1
    <3>3. CASE i - n \in (e + 1) .. L /\ r[i] = redacted[i - n]
      <4>1. i - n \in 1 .. L /\ redacted[i - n] = x /\ x > e /\ x \in Nat
        BY <1>4, <1>15, <1>16, <2>4, <3>1, <3>3
      <4> QED
        BY <1>4, <2>1, <2>2, <2>4, <4>1
    <3> QED
      BY <1>22, <2>4, <3>1, <3>2, <3>3
  <2>5. ASSUME NEW x, x \in Outside(SpansDone)' PROVE x # 0 /\ x \in Filter!Range(redacted)'
    <3>1. PICK i \in 1 .. L : redacted[i] = x
      BY <2>1, <2>2, <2>5
    <3>2. x # 0 /\ ~(a < x /\ x <= e)
      BY <2>1, <2>2, <2>5
    <3>3. CASE i \in 1 .. e
      <4>1. i \in 1 .. a /\ i \in 1 .. L + n /\ r[i] = x
        BY <1>3, <1>4, <1>13, <1>15, <1>19, <1>20, <3>1, <3>2, <3>3
      <4> QED
        BY <2>3, <3>2, <4>1
    <3>4. CASE i \in (e + 1) .. L
      <4>1. i + n \in 1 .. L + n /\ r[i + n] = x
        BY <1>3, <1>4, <1>15, <1>19, <1>20, <3>1, <3>4
      <4> QED
        BY <2>3, <3>2, <4>1
    <3> QED
      BY <1>4, <1>15, <3>3, <3>4
  <2> QED
    BY <2>4, <2>5
<1>25. ASSUME NEW d \in SpansDone PROVE Filter!Replaced(d)'
  <2>1. /\ d.start \in Nat /\ d.end \in Nat /\ d.label \in Nat /\ e <= d.start
    <3>1. d \in Filter!Span /\ e <= d.start
      BY <1>12 DEF e
    <3>2. d.label \in Labels /\ d.start \in 0 .. Length /\ d.end \in 0 .. Length
      BY <3>1 DEF Filter!Span
    <3>3. d.label \in Nat
      BY <1>0, <3>2
    <3>4. d.start \in Nat /\ d.end \in Nat
      BY <1>0, <3>2
    <3> QED
      BY <3>1, <3>3, <3>4
  <2>2. PICK p \in 0 .. L :
          /\ p + d.label + 2 <= L
          /\ \A i \in 1 .. (d.label + 2) : redacted[p + i] = 0
          /\ \A i \in 1 .. p : redacted[i] <= d.start
          /\ \A i \in (p + d.label + 3) .. L : redacted[i] = 0 \/ redacted[i] > d.end
    BY DEF FilterIInv, Filter!Replaced, L
  <2>3. p \in Nat /\ e <= p
    <3>1. redacted[p + 1] = 0
      BY <2>1, <2>2
    <3> QED
      BY <1>13, <1>20, <2>2, <3>1
  <2>4. p + n \in 0 .. Len(r) /\ (p + n) + d.label + 2 <= Len(r)
    <3>1. p + d.label + 2 <= L
      BY <2>2
    <3> QED
      BY <1>20, <2>1, <2>3, <3>1
  <2>5. ASSUME NEW i \in 1 .. (d.label + 2) PROVE r[(p + n) + i] = 0
    <3>0. p + d.label + 2 <= L
      BY <2>2
    <3>1. p + i \in (e + 1) .. L /\ (p + i) + n = (p + n) + i
      BY <1>20, <2>1, <2>3, <3>0
    <3>2. r[(p + i) + n] = redacted[p + i]
      BY <1>19, <3>1
    <3> QED
      BY <2>2, <3>1, <3>2
  <2>6. ASSUME NEW i \in 1 .. (p + n) PROVE r[i] <= d.start
    <3>1. i \in 1 .. L + n
      BY <1>20, <2>4
    <3>2. ASSUME i - n \in (e + 1) .. L PROVE i - n \in 1 .. p
      BY <1>20, <2>3, <2>6, <3>2
    <3>3. ASSUME i \in 1 .. a PROVE i <= d.start
      BY <1>20, <2>1, <3>3
    <3> QED
      BY <1>22, <2>1, <2>2, <3>1, <3>2, <3>3
  <2>7. ASSUME NEW i \in ((p + n) + d.label + 3) .. Len(r) PROVE r[i] = 0 \/ r[i] > d.end
    <3>1. p + n \in Nat
      BY <1>20, <2>4
    <3>2. i \in Int /\ (p + n) + d.label + 3 <= i /\ i <= L + n
      BY <1>20, <2>1, <2>7, <3>1
    <3>3. e + n <= p + n /\ e + n = a + m
      BY <1>20, <2>3
    <3>4. i \in (a + m + 1) .. (L + n)
      BY <1>20, <2>1, <3>1, <3>2, <3>3
    <3>5. i - n \in (p + d.label + 3) .. L
      BY <1>20, <2>1, <2>3, <3>2, SMTT(20)
    <3> QED
      BY <1>19, <2>2, <3>4, <3>5
  <2> QED
    BY <2>4, <2>5, <2>6, <2>7 DEF Filter!Replaced, r
<1>26. ASSUME NEW d, d = s PROVE Filter!Replaced(d)'
  <2>0. d.label \in Nat /\ m = d.label + 2
    BY <1>3, <1>26 DEF m
  <2>1. d.start = a /\ d.end = e
    BY <1>26 DEF a, e
  <2>2. a \in 0 .. Len(r) /\ a + d.label + 2 <= Len(r) /\ a + m = a + d.label + 2
    <3>1. a + m <= L + n /\ a <= L + n
      BY <1>20
    <3>2. a + m = a + d.label + 2
      <4>1. a \in Nat
        BY <1>20
      <4> QED
        BY <2>0, <4>1
    <3> QED
      BY <1>20, <2>0, <3>1, <3>2
  <2>3. ASSUME NEW i \in 1 .. (d.label + 2) PROVE r[a + i] = 0
    <3>1. a + i \in (a + 1) .. (a + m)
      BY <1>20, <2>0, <2>2
    <3> QED
      BY <1>19, <3>1
  <2>4. ASSUME NEW i \in 1 .. a PROVE r[i] <= d.start
    <3>1. r[i] = i /\ i <= a
      BY <1>19, <1>20
    <3> QED
      BY <2>1, <3>1
  <2>5. ASSUME NEW i \in (a + d.label + 3) .. Len(r) PROVE r[i] = 0 \/ r[i] > d.end
    <3>1. a + d.label + 3 = a + m + 1 /\ Len(r) = L + n
      <4>1. a \in Nat /\ Len(r) = L + n
        BY <1>20
      <4> QED
        BY <2>0, <4>1
    <3>2. i \in (a + m + 1) .. (L + n)
      BY <2>5, <3>1
    <3>3. i - n \in (e + 1) .. L
      BY <1>20, <3>2
    <3> QED
      BY <1>16, <1>19, <2>1, <3>2, <3>3
  <2> QED
    BY <2>2, <2>3, <2>4, <2>5 DEF Filter!Replaced, r
<1>27. /\ IsFiniteSet(Filter!Letters(SpansDone))'
       /\ Cardinality(Filter!Letters(SpansDone))' = Cardinality(Filter!Letters(SpansDone)) + m
  BY <1>3, <1>10, <1>11, OneMoreMarker DEF FilterIInv, m
<1>28. Cardinality(Zeros(redacted))' = Cardinality(Zeros(redacted)) + m
  <2>1. a \in Nat /\ e \in Nat /\ m \in Nat /\ a < e /\ e <= Len(redacted)
    BY <1>4, <1>19 DEF L
  <2>2. Cardinality(Zeros(Splice(redacted, a, e, m))) = Cardinality(Zeros(redacted)) + m
    BY <1>1, <1>13, <2>1, ZerosMove
  <2> QED
    BY <1>14, <2>2
<1>29. /\ IsFiniteSet(Filter!Letters(SpansDone))'
       /\ Cardinality(Zeros(redacted))' = Cardinality(Filter!Letters(SpansDone))'
  BY <1>27, <1>28 DEF FilterIInv
<1>30. \A d \in SpansDone' : Filter!Replaced(d)'
  <2> SUFFICES ASSUME NEW d \in SpansDone' PROVE Filter!Replaced(d)'
    OBVIOUS
  <2>1. d \in SpansDone \/ d = s
    BY <1>11
  <2> QED
    BY <1>25, <1>26, <2>1
<1> QED
  BY <1>17, <1>18, <1>21, <1>23, <1>24, <1>29, <1>30 DEF FilterIInv

(* The redaction leaves nothing of a span and everything else.              *)
THEOREM SpansAreGone == Filter!Spec => []NothingPersonalSurvives
<1>1. FilterIInv /\ [Filter!Next]_(Filter!vars) => FilterIInv'
  <2>1. ASSUME FilterIInv, UNCHANGED Filter!vars PROVE FilterIInv'
    <3>1. spans' = spans /\ todo' = todo /\ redacted' = redacted
      BY <2>1 DEF Filter!vars
    <3>2. Filter!Range(spans)' = Filter!Range(spans) /\ Filter!Range(todo)' = Filter!Range(todo)
          /\ Filter!Range(redacted)' = Filter!Range(redacted)
      BY <3>1 DEF Filter!Range
    <3>3. SpansDone' = SpansDone
      BY <3>2 DEF SpansDone
    <3>4. FilterTypeOK'
      BY <2>1, <3>1, <3>2 DEF FilterIInv, FilterTypeOK, SpansApart
    <3>5. RightToLeft' /\ Untouched' /\ InOrder(redacted)'
      BY <2>1, <3>1, <3>2, <3>3 DEF FilterIInv, RightToLeft, Untouched, InOrder
    <3>6. Outside(SpansDone)' = Outside(SpansDone) /\ Zeros(redacted)' = Zeros(redacted)
          /\ Filter!Letters(SpansDone)' = Filter!Letters(SpansDone)
      BY <3>1, <3>3 DEF Outside, Zeros, Filter!Letters
    <3>7. \A d \in SpansDone' : Filter!Replaced(d)'
      BY <2>1, <3>1, <3>3 DEF FilterIInv, Filter!Replaced
    <3>8. /\ IsFiniteSet(Filter!Letters(SpansDone))'
          /\ Cardinality(Zeros(redacted))' = Cardinality(Filter!Letters(SpansDone))'
          /\ Filter!Range(redacted)' \ {0} = Outside(SpansDone)'
      BY <2>1, <3>2, <3>6 DEF FilterIInv
    <3> QED
      BY <3>4, <3>5, <3>7, <3>8 DEF FilterIInv
  <2> QED
    BY <2>1, RedactStep DEF Filter!Next
<1>2. FilterIInv => NothingPersonalSurvives
  <2>1. ASSUME FilterIInv, todo = <<>>
        PROVE  /\ SpansDone = Filter!Range(spans)
               /\ Outside(SpansDone) = {c \in 1..Length : ~Filter!Covered(c)}
    <3>1. SpansDone = Filter!Range(spans)
      BY <2>1 DEF SpansDone, Filter!Range
    <3>2. \A c : Filter!Covered(c) <=> \E d \in SpansDone : d.start < c /\ c <= d.end
      BY <3>1 DEF Filter!Covered, Filter!Range
    <3> QED
      BY <3>1, <3>2 DEF Outside
  <2>2. ASSUME FilterIInv, todo = <<>> PROVE \A j \in DOMAIN spans : Filter!Replaced(spans[j])
    BY <2>1, <2>2 DEF FilterIInv, Filter!Range
  <2>3. ASSUME FilterIInv, todo = <<>>
        PROVE  /\ \A j \in DOMAIN spans : Filter!Replaced(spans[j])
               /\ Filter!Range(redacted) \ {0} = {c \in 1..Length : ~Filter!Covered(c)}
               /\ Cardinality({i \in DOMAIN redacted : redacted[i] = 0})
                    = Cardinality(Filter!Letters(Filter!Range(spans)))
    BY <2>1, <2>2, <2>3 DEF FilterIInv, Zeros
  <2>4. FilterIInv => \A i, j \in DOMAIN redacted :
                         i < j /\ redacted[i] # 0 /\ redacted[j] # 0 => redacted[i] < redacted[j]
    BY DEF FilterIInv, InOrder
  <2>5. \A S : Filter!Cardinality(S) = Cardinality(S)
    BY DEF Cardinality, Filter!Cardinality
  <2> QED
    BY <2>3, <2>4, <2>5 DEF NothingPersonalSurvives, Filter!NothingPersonalSurvives
<1> QED
  BY <1>1, <1>2, RedactInit, PTL DEF Filter!Spec

-----------------------------------------------------------------------------
(* The score of a listing: what is missing only lowers the confidence, but   *)
(* for the salary.                                                           *)
ScoreTypeOK == listing \in Score!Listing /\ enrichment \in Score!Maybe(Score!Enrichment)

(* What a step finds was missing; what was known, the salary aside, stays.  *)
OnlyFound ==
  /\ listing.posted # None => listing'.posted = listing.posted
  /\ listing.applicants # None => listing'.applicants = listing.applicants
  /\ \A f \in {"reposts", "lawState", "alwaysOpen", "agency", "requirements",
               "length", "ghostingAts", "weekend"} : listing'[f] = listing[f]
  /\ enrichment # None => enrichment' # None /\ enrichment'.layoffs = enrichment.layoffs
  /\ enrichment # None /\ enrichment.noResponse # None =>
       enrichment'.noResponse = enrichment.noResponse

SalaryKept == listing'.salary = listing.salary

LEMMA FoundOnly ==
  ASSUME ScoreTypeOK, Score!Next
  PROVE  ScoreTypeOK' /\ OnlyFound /\ (SalaryKept \/ Score!FindSalary)
<1> USE DEF ScoreTypeOK, OnlyFound
<1>1. CASE Score!FindPosted
  <2>1. listing.posted = None /\ enrichment' = enrichment
    BY <1>1 DEF Score!FindPosted
  <2>2. PICK p \in Score!Posted : listing' = [listing EXCEPT !.posted = p]
    BY <1>1 DEF Score!FindPosted
  <2>3. listing' \in Score!Listing
    BY <2>2 DEF Score!Listing, Score!Maybe
  <2>4. \A f \in {"applicants", "reposts", "salary", "lawState", "alwaysOpen", "agency",
                  "requirements", "length", "ghostingAts", "weekend"} : listing'[f] = listing[f]
    BY <2>2 DEF Score!Listing
  <2> QED
    BY <2>1, <2>3, <2>4 DEF SalaryKept
<1>5. CASE Score!FindSalary
  <2>1. listing' = [listing EXCEPT !.salary = TRUE] /\ enrichment' = enrichment
    BY <1>5 DEF Score!FindSalary
  <2>2. listing' \in Score!Listing
    BY <2>1 DEF Score!Listing, Score!Maybe
  <2>3. \A f \in {"posted", "applicants", "reposts", "lawState", "alwaysOpen", "agency",
                  "requirements", "length", "ghostingAts", "weekend"} : listing'[f] = listing[f]
    BY <2>1 DEF Score!Listing
  <2> QED
    BY <1>5, <2>1, <2>2, <2>3
<1>2. CASE Score!FindApplicants
  <2>1. listing.applicants = None /\ enrichment' = enrichment
    BY <1>2 DEF Score!FindApplicants
  <2>2. PICK n \in Applicants : listing' = [listing EXCEPT !.applicants = n]
    BY <1>2 DEF Score!FindApplicants
  <2>3. listing' \in Score!Listing
    BY <2>2 DEF Score!Listing, Score!Maybe
  <2>4. \A f \in {"posted", "reposts", "salary", "lawState", "alwaysOpen", "agency",
                  "requirements", "length", "ghostingAts", "weekend"} : listing'[f] = listing[f]
    BY <2>2 DEF Score!Listing
  <2> QED
    BY <2>1, <2>3, <2>4 DEF SalaryKept
<1>3. CASE Score!FindEnrichment
  BY <1>3 DEF Score!FindEnrichment, Score!Maybe, SalaryKept
<1>4. CASE Score!FindResponseRate
  <2>1. enrichment # None /\ enrichment.noResponse = None /\ listing' = listing
    BY <1>4 DEF Score!FindResponseRate
  <2>2. PICK n \in Rates : enrichment' = [enrichment EXCEPT !.noResponse = n]
    BY <1>4 DEF Score!FindResponseRate
  <2>3. enrichment \in Score!Enrichment
    BY <2>1 DEF Score!Maybe
  <2>4. enrichment' \in Score!Enrichment /\ enrichment'.layoffs = enrichment.layoffs
    BY <2>2, <2>3 DEF Score!Enrichment, Score!Maybe
  <2>5. enrichment' # None
    BY <2>4, LibraryAssumption DEF Score!ConstantsOK
  <2> QED
    BY <2>1, <2>4, <2>5 DEF Score!Maybe, SalaryKept
<1> QED
  BY <1>1, <1>2, <1>3, <1>4, <1>5 DEF Score!Next

\* The signals by their names.
LEMMA NamesOfSignals ==
  /\ DOMAIN Score!Signals = {"listing_age", "repost_detected", "no_salary_transparency",
       "always_open_pattern", "staffing_agency", "requirement_overload", "layoff_news",
       "jd_vagueness", "ats_blackhole", "high_applicant_count", "weekend_posted",
       "poor_response_history"}
  /\ Score!Signals["listing_age"] = Score!ListingAge
  /\ Score!Signals["repost_detected"] = Score!RepostDetected
  /\ Score!Signals["no_salary_transparency"] = Score!NoSalaryTransparency
  /\ Score!Signals["always_open_pattern"] = Score!AlwaysOpenPattern
  /\ Score!Signals["staffing_agency"] = Score!StaffingAgency
  /\ Score!Signals["requirement_overload"] = Score!RequirementOverload
  /\ Score!Signals["layoff_news"] = Score!LayoffNews
  /\ Score!Signals["jd_vagueness"] = Score!JdVagueness
  /\ Score!Signals["ats_blackhole"] = Score!AtsBlackhole
  /\ Score!Signals["high_applicant_count"] = Score!HighApplicantCount
  /\ Score!Signals["weekend_posted"] = Score!WeekendPosted
  /\ Score!Signals["poor_response_history"] = Score!PoorResponseHistory
BY DEF Score!Signals

\* A signal counts exactly if what it reads is there, whatever its details say.
LEMMA EvidenceCounts == ScoreTypeOK => Score!Evaluable = Score!WithEvidence
<1> SUFFICES ASSUME ScoreTypeOK PROVE Score!Evaluable = Score!WithEvidence
  OBVIOUS
<1> DEFINE Counts(r) == r.fires \/ r.detail \notin Score!Skipped
           Known(x) ==
             /\ listing.posted = None => x # "listing_age"
             /\ listing.posted = None /\ ~listing.weekend => x # "weekend_posted"
             /\ listing.applicants = None => x # "high_applicant_count"
             /\ enrichment = None => x # "layoff_news" /\ x # "poor_response_history"
             /\ enrichment # None /\ enrichment.noResponse = None => x # "poor_response_history"
<1>1. \A x : x \in Score!Evaluable <=> x \in DOMAIN Score!Signals /\ Counts(Score!Signals[x])
  BY DEF Score!Evaluable, Score!HasData
<1>2. \A x : x \in Score!WithEvidence <=> x \in DOMAIN Score!Signals /\ Known(x)
  BY DEF Score!WithEvidence
<1>3. Counts(Score!ListingAge) <=> listing.posted # None
  BY DEF Score!ListingAge, Score!Fires, Score!Silent, Score!Skipped
<1>4. Counts(Score!RepostDetected)
  <2>1. Score!RepostDetected.detail = "Repost_count_n"
    BY DEF Score!RepostDetected, Score!Fires
  <2> QED
    BY <2>1 DEF Score!Skipped
<1>5. Counts(Score!NoSalaryTransparency)
  <2>1. listing.salary \in BOOLEAN
    BY DEF ScoreTypeOK, Score!Listing
  <2>2. Score!NoSalaryTransparency.fires <=> ~listing.salary
    BY DEF Score!NoSalaryTransparency, Score!Fires
  <2>3. listing.salary => Score!NoSalaryTransparency.detail = "Salary_information_present"
    BY DEF Score!NoSalaryTransparency, Score!Fires
  <2> QED
    BY <2>1, <2>2, <2>3 DEF Score!Skipped
<1>6. Counts(Score!AlwaysOpenPattern)
  <2>1. Score!AlwaysOpenPattern.detail \in {"Listing_marked_as_always_open", "Not_always_open"}
    BY DEF Score!AlwaysOpenPattern, Score!Fires
  <2> QED
    BY <2>1 DEF Score!Skipped
<1>7. Counts(Score!StaffingAgency)
  <2>1. Score!StaffingAgency.detail \in {"Listed_by_an_agency", "Direct_employer_listing"}
    BY DEF Score!StaffingAgency, Score!Fires
  <2> QED
    BY <2>1 DEF Score!Skipped
<1>8. Counts(Score!RequirementOverload)
  <2>1. Score!RequirementOverload.detail = "n_requirements_listed"
    BY DEF Score!RequirementOverload, Score!Fires
  <2> QED
    BY <2>1 DEF Score!Skipped
<1>9. Counts(Score!LayoffNews) <=> enrichment # None
  BY DEF Score!LayoffNews, Score!Fires, Score!Silent, Score!Skipped
<1>10. Counts(Score!JdVagueness)
  <2>1. Score!JdVagueness.detail = "Description_is_n_characters"
    BY DEF Score!JdVagueness, Score!Fires
  <2> QED
    BY <2>1 DEF Score!Skipped
<1>11. Counts(Score!AtsBlackhole)
  <2>1. Score!AtsBlackhole.detail \in {"ATS_matches", "No_high_ghosting_ATS_detected"}
    BY DEF Score!AtsBlackhole, Score!Fires
  <2> QED
    BY <2>1 DEF Score!Skipped
<1>12. Counts(Score!HighApplicantCount) <=> listing.applicants # None
  BY DEF Score!HighApplicantCount, Score!Fires, Score!Silent, Score!Skipped
<1>13. Counts(Score!WeekendPosted) <=> ~(listing.posted = None /\ ~listing.weekend)
  BY DEF Score!WeekendPosted, Score!Fires, Score!Silent, Score!Skipped
<1>14. Counts(Score!PoorResponseHistory) <=> enrichment # None /\ enrichment.noResponse # None
  BY DEF Score!PoorResponseHistory, Score!Fires, Score!Silent, Score!Skipped
<1> HIDE DEF Counts
<1>15. \A x \in DOMAIN Score!Signals : Counts(Score!Signals[x]) <=> Known(x)
  BY NamesOfSignals, <1>3, <1>4, <1>5, <1>6, <1>7, <1>8, <1>9, <1>10, <1>11, <1>12, <1>13, <1>14
<1> HIDE DEF Known
<1> QED
  BY <1>1, <1>2, <1>15

\* What each signal takes off.
PenaltiesAre ==
  /\ Score!Penalty("listing_age") =
         IF listing.posted # None /\ listing.posted.days > 30 THEN 25 ELSE 0
  /\ Score!Penalty("repost_detected") = IF listing.reposts >= 3 THEN 25 ELSE 0
  /\ Score!Penalty("no_salary_transparency") = IF ~listing.salary THEN 20 ELSE 0
  /\ Score!Penalty("always_open_pattern") = IF listing.alwaysOpen THEN 20 ELSE 0
  /\ Score!Penalty("staffing_agency") = IF listing.agency THEN 15 ELSE 0
  /\ Score!Penalty("requirement_overload") = IF listing.requirements > 12 THEN 12 ELSE 0
  /\ Score!Penalty("layoff_news") = IF enrichment # None /\ enrichment.layoffs THEN 12 ELSE 0
  /\ Score!Penalty("jd_vagueness") = IF listing.length < 400 THEN 10 ELSE 0
  /\ Score!Penalty("ats_blackhole") = IF listing.ghostingAts THEN 10 ELSE 0
  /\ Score!Penalty("high_applicant_count") =
         IF listing.applicants # None /\ listing.applicants > 200 THEN 8 ELSE 0
  /\ Score!Penalty("weekend_posted") =
         IF listing.weekend \/ (listing.posted # None /\ listing.posted.weekday >= 5) THEN 4 ELSE 0
  /\ Score!Penalty("poor_response_history") =
         IF enrichment # None /\ enrichment.noResponse # None /\ enrichment.noResponse > 60 THEN 8 ELSE 0

LEMMA PenaltyOf ==
  \A s : Score!Penalty(s) = IF Score!Signals[s].fires THEN Score!Signals[s].weight ELSE 0
BY DEF Score!Penalty

LEMMA PenaltiesAreSo == PenaltiesAre
<1>1. Score!Penalty("listing_age") =
       IF listing.posted # None /\ listing.posted.days > 30 THEN 25 ELSE 0
  <2>1. /\ Score!ListingAge.fires <=> listing.posted # None /\ listing.posted.days > 30
        /\ Score!ListingAge.weight = 25
    BY DEF Score!ListingAge, Score!Fires, Score!Silent
  <2> QED
    BY <2>1, NamesOfSignals, PenaltyOf
<1>2. Score!Penalty("repost_detected") = IF listing.reposts >= 3 THEN 25 ELSE 0
  <2>1. (Score!RepostDetected.fires <=> listing.reposts >= 3) /\ Score!RepostDetected.weight = 25
    BY DEF Score!RepostDetected, Score!Fires, Score!Silent
  <2> QED
    BY <2>1, NamesOfSignals, PenaltyOf
<1>3. Score!Penalty("no_salary_transparency") = IF ~listing.salary THEN 20 ELSE 0
  <2>1. /\ Score!NoSalaryTransparency.fires <=> ~listing.salary
        /\ Score!NoSalaryTransparency.weight = 20
    BY DEF Score!NoSalaryTransparency, Score!Fires, Score!Silent
  <2> QED
    BY <2>1, NamesOfSignals, PenaltyOf
<1>4. Score!Penalty("always_open_pattern") = IF listing.alwaysOpen THEN 20 ELSE 0
  <2>1. /\ Score!AlwaysOpenPattern.fires <=> listing.alwaysOpen
        /\ Score!AlwaysOpenPattern.weight = 20
    BY DEF Score!AlwaysOpenPattern, Score!Fires, Score!Silent
  <2> QED
    BY <2>1, NamesOfSignals, PenaltyOf
<1>5. Score!Penalty("staffing_agency") = IF listing.agency THEN 15 ELSE 0
  <2>1. (Score!StaffingAgency.fires <=> listing.agency) /\ Score!StaffingAgency.weight = 15
    BY DEF Score!StaffingAgency, Score!Fires, Score!Silent
  <2> QED
    BY <2>1, NamesOfSignals, PenaltyOf
<1>6. Score!Penalty("requirement_overload") = IF listing.requirements > 12 THEN 12 ELSE 0
  <2>1. /\ Score!RequirementOverload.fires <=> listing.requirements > 12
        /\ Score!RequirementOverload.weight = 12
    BY DEF Score!RequirementOverload, Score!Fires, Score!Silent
  <2> QED
    BY <2>1, NamesOfSignals, PenaltyOf
<1>7. Score!Penalty("layoff_news") = IF enrichment # None /\ enrichment.layoffs THEN 12 ELSE 0
  <2>1. /\ Score!LayoffNews.fires <=> enrichment # None /\ enrichment.layoffs
        /\ Score!LayoffNews.weight = 12
    BY DEF Score!LayoffNews, Score!Fires, Score!Silent
  <2> QED
    BY <2>1, NamesOfSignals, PenaltyOf
<1>8. Score!Penalty("jd_vagueness") = IF listing.length < 400 THEN 10 ELSE 0
  <2>1. (Score!JdVagueness.fires <=> listing.length < 400) /\ Score!JdVagueness.weight = 10
    BY DEF Score!JdVagueness, Score!Fires, Score!Silent
  <2> QED
    BY <2>1, NamesOfSignals, PenaltyOf
<1>9. Score!Penalty("ats_blackhole") = IF listing.ghostingAts THEN 10 ELSE 0
  <2>1. (Score!AtsBlackhole.fires <=> listing.ghostingAts) /\ Score!AtsBlackhole.weight = 10
    BY DEF Score!AtsBlackhole, Score!Fires, Score!Silent
  <2> QED
    BY <2>1, NamesOfSignals, PenaltyOf
<1>10. Score!Penalty("high_applicant_count") =
       IF listing.applicants # None /\ listing.applicants > 200 THEN 8 ELSE 0
  <2>1. /\ Score!HighApplicantCount.fires <=> listing.applicants # None /\ listing.applicants > 200
        /\ Score!HighApplicantCount.weight = 8
    BY DEF Score!HighApplicantCount, Score!Fires, Score!Silent
  <2> QED
    BY <2>1, NamesOfSignals, PenaltyOf
<1>11. Score!Penalty("weekend_posted") =
       IF listing.weekend \/ (listing.posted # None /\ listing.posted.weekday >= 5) THEN 4 ELSE 0
  <2>1. /\ Score!WeekendPosted.fires <=> listing.weekend \/ (listing.posted # None /\ listing.posted.weekday >= 5)
        /\ Score!WeekendPosted.weight = 4
    BY DEF Score!WeekendPosted, Score!Fires, Score!Silent
  <2> QED
    BY <2>1, NamesOfSignals, PenaltyOf
<1>12. Score!Penalty("poor_response_history") =
       IF enrichment # None /\ enrichment.noResponse # None /\ enrichment.noResponse > 60 THEN 8 ELSE 0
  <2>1. /\ Score!PoorResponseHistory.fires <=> enrichment # None /\ enrichment.noResponse # None /\ enrichment.noResponse > 60
        /\ Score!PoorResponseHistory.weight = 8
    BY DEF Score!PoorResponseHistory, Score!Fires, Score!Silent
  <2> QED
    BY <2>1, NamesOfSignals, PenaltyOf
<1> QED
  BY <1>1, <1>2, <1>3, <1>4, <1>5, <1>6, <1>7, <1>8, <1>9, <1>10, <1>11, <1>12 DEF PenaltiesAre

\* What is found, save a salary, never makes a signal fall silent.
LEMMA PenaltiesGrow ==
  ASSUME OnlyFound, SalaryKept
  PROVE  Score!RawPenalty \in Nat /\ Score!RawPenalty' \in Nat /\ Score!RawPenalty <= Score!RawPenalty'
<1> DEFINE NoLess(p, q) == p \in Nat /\ q \in Nat /\ p <= q
<1>1. PenaltiesAre /\ PenaltiesAre'
  BY PenaltiesAreSo, PTL
<1>2. /\ listing.reposts = listing'.reposts /\ listing.salary = listing'.salary
      /\ listing.alwaysOpen = listing'.alwaysOpen /\ listing.agency = listing'.agency
      /\ listing.requirements = listing'.requirements /\ listing.length = listing'.length
      /\ listing.ghostingAts = listing'.ghostingAts /\ listing.weekend = listing'.weekend
  BY DEF OnlyFound, SalaryKept
<1>3. NoLess(Score!Penalty("listing_age"), Score!Penalty("listing_age")')
  BY <1>1, <1>2 DEF PenaltiesAre, OnlyFound
<1>4. NoLess(Score!Penalty("repost_detected"), Score!Penalty("repost_detected")')
  BY <1>1, <1>2 DEF PenaltiesAre, OnlyFound
<1>5. NoLess(Score!Penalty("no_salary_transparency"), Score!Penalty("no_salary_transparency")')
  BY <1>1, <1>2 DEF PenaltiesAre, OnlyFound
<1>6. NoLess(Score!Penalty("always_open_pattern"), Score!Penalty("always_open_pattern")')
  BY <1>1, <1>2 DEF PenaltiesAre, OnlyFound
<1>7. NoLess(Score!Penalty("staffing_agency"), Score!Penalty("staffing_agency")')
  BY <1>1, <1>2 DEF PenaltiesAre, OnlyFound
<1>8. NoLess(Score!Penalty("requirement_overload"), Score!Penalty("requirement_overload")')
  BY <1>1, <1>2 DEF PenaltiesAre, OnlyFound
<1>9. NoLess(Score!Penalty("layoff_news"), Score!Penalty("layoff_news")')
  BY <1>1, <1>2 DEF PenaltiesAre, OnlyFound
<1>10. NoLess(Score!Penalty("jd_vagueness"), Score!Penalty("jd_vagueness")')
  BY <1>1, <1>2 DEF PenaltiesAre, OnlyFound
<1>11. NoLess(Score!Penalty("ats_blackhole"), Score!Penalty("ats_blackhole")')
  BY <1>1, <1>2 DEF PenaltiesAre, OnlyFound
<1>12. NoLess(Score!Penalty("high_applicant_count"), Score!Penalty("high_applicant_count")')
  BY <1>1, <1>2 DEF PenaltiesAre, OnlyFound
<1>13. NoLess(Score!Penalty("weekend_posted"), Score!Penalty("weekend_posted")')
  BY <1>1, <1>2 DEF PenaltiesAre, OnlyFound
<1>14. NoLess(Score!Penalty("poor_response_history"), Score!Penalty("poor_response_history")')
  BY <1>1, <1>2 DEF PenaltiesAre, OnlyFound
<1> QED
  BY <1>3, <1>4, <1>5, <1>6, <1>7, <1>8, <1>9, <1>10, <1>11, <1>12, <1>13, <1>14 DEF Score!RawPenalty

\* A salary found takes back the penalty of the missing one, and no other.
LEMMA SalaryPenalty ==
  ASSUME ScoreTypeOK, Score!FindSalary
  PROVE  Score!RawPenalty \in Nat /\ Score!RawPenalty' \in Nat /\ Score!RawPenalty = Score!RawPenalty' + 20
<1> DEFINE Same(p, q) == p \in Nat /\ q \in Nat /\ p = q
<1>1. PenaltiesAre /\ PenaltiesAre'
  BY PenaltiesAreSo, PTL
<1>2. /\ ~listing.salary /\ listing'.salary /\ enrichment' = enrichment
      /\ \A f \in {"posted", "applicants", "reposts", "alwaysOpen", "agency",
                   "requirements", "length", "ghostingAts", "weekend"} : listing'[f] = listing[f]
  BY DEF Score!FindSalary, ScoreTypeOK, Score!Listing
<1>3. Same(Score!Penalty("listing_age"), Score!Penalty("listing_age")')
  BY <1>1, <1>2 DEF PenaltiesAre
<1>4. Same(Score!Penalty("repost_detected"), Score!Penalty("repost_detected")')
  BY <1>1, <1>2 DEF PenaltiesAre
<1>5. Score!Penalty("no_salary_transparency") = 20 /\ Score!Penalty("no_salary_transparency")' = 0
  BY <1>1, <1>2 DEF PenaltiesAre
<1>6. Same(Score!Penalty("always_open_pattern"), Score!Penalty("always_open_pattern")')
  BY <1>1, <1>2 DEF PenaltiesAre
<1>7. Same(Score!Penalty("staffing_agency"), Score!Penalty("staffing_agency")')
  BY <1>1, <1>2 DEF PenaltiesAre
<1>8. Same(Score!Penalty("requirement_overload"), Score!Penalty("requirement_overload")')
  BY <1>1, <1>2 DEF PenaltiesAre
<1>9. Same(Score!Penalty("layoff_news"), Score!Penalty("layoff_news")')
  BY <1>1, <1>2 DEF PenaltiesAre
<1>10. Same(Score!Penalty("jd_vagueness"), Score!Penalty("jd_vagueness")')
  BY <1>1, <1>2 DEF PenaltiesAre
<1>11. Same(Score!Penalty("ats_blackhole"), Score!Penalty("ats_blackhole")')
  BY <1>1, <1>2 DEF PenaltiesAre
<1>12. Same(Score!Penalty("high_applicant_count"), Score!Penalty("high_applicant_count")')
  BY <1>1, <1>2 DEF PenaltiesAre
<1>13. Same(Score!Penalty("weekend_posted"), Score!Penalty("weekend_posted")')
  BY <1>1, <1>2 DEF PenaltiesAre
<1>14. Same(Score!Penalty("poor_response_history"), Score!Penalty("poor_response_history")')
  BY <1>1, <1>2 DEF PenaltiesAre
<1> QED
  BY <1>3, <1>4, <1>5, <1>6, <1>7, <1>8, <1>9, <1>10, <1>11, <1>12, <1>13, <1>14 DEF Score!RawPenalty

\* Evidence is not lost.
LEMMA EvidenceStays ==
  ASSUME ScoreTypeOK, ScoreTypeOK', OnlyFound
  PROVE  Score!WithEvidence \subseteq Score!WithEvidence'
<1>1. DOMAIN Score!Signals' = DOMAIN Score!Signals
  BY DEF Score!Signals
<1> QED
  BY <1>1 DEF Score!WithEvidence, OnlyFound

(* A fact found makes exactly the signals that read it count, and raises no *)
(* trust score, whichever of its values it has; only a salary found raises  *)
(* it, by its signal's weight at most.                                      *)
THEOREM LowConfidenceIsNoPenalty == Score!Spec => ScoreFollowsEvidence
<1>1. Score!Init => ScoreTypeOK
  BY DEF Score!Init, ScoreTypeOK
<1>2. ScoreTypeOK /\ [Score!Next]_(Score!vars) => ScoreTypeOK'
  BY FoundOnly DEF ScoreTypeOK, Score!vars
<1>3. ASSUME ScoreTypeOK, Score!Next PROVE Score!FollowsEvidence
  <2>1. ScoreTypeOK' /\ OnlyFound /\ (SalaryKept \/ Score!FindSalary)
    BY <1>3, FoundOnly
  <2>2. Score!Evaluable = Score!WithEvidence
    BY <1>3, EvidenceCounts
  <2>3. Score!Evaluable' = Score!WithEvidence'
    <3>1. (ScoreTypeOK => Score!Evaluable = Score!WithEvidence)'
      BY EvidenceCounts, PTL
    <3> QED
      BY <2>1, <3>1
  <2>4. Score!WithEvidence \subseteq Score!WithEvidence'
    BY <1>3, <2>1, EvidenceStays
  <2>5. IF SalaryKept THEN Score!TrustScore' <= Score!TrustScore
        ELSE Score!TrustScore <= Score!TrustScore' /\ Score!TrustScore' <= Score!TrustScore + 20
    <3>1. CASE SalaryKept
      BY <2>1, <3>1, PenaltiesGrow DEF Score!TrustScore
    <3>2. CASE ~SalaryKept
      <4>1. Score!RawPenalty \in Nat /\ Score!RawPenalty' \in Nat /\ Score!RawPenalty = Score!RawPenalty' + 20
        BY <1>3, <2>1, <3>2, SalaryPenalty
      <4> DEFINE p == Score!RawPenalty
                 q == Score!RawPenalty'
      <4>2. p \in Nat /\ q \in Nat /\ p = q + 20
        BY <4>1
      <4>3. /\ (IF p > 100 THEN 0 ELSE 100 - p) <= (IF q > 100 THEN 0 ELSE 100 - q)
            /\ (IF q > 100 THEN 0 ELSE 100 - q) <= (IF p > 100 THEN 0 ELSE 100 - p) + 20
        <5> HIDE DEF p, q
        <5> QED
          BY ONLY <4>2
      <4>4. Score!TrustScore <= Score!TrustScore' /\ Score!TrustScore' <= Score!TrustScore + 20
        BY <4>3 DEF Score!TrustScore
      <4> QED
        BY <3>2, <4>4
    <3> QED
      BY <3>1, <3>2
  <2> QED
    BY <2>2, <2>3, <2>4, <2>5 DEF Score!FollowsEvidence, SalaryKept
<1>4. ScoreTypeOK /\ [Score!Next]_(Score!vars) => [Score!Next => Score!FollowsEvidence]_(Score!vars)
  BY <1>3
<1> QED
  BY <1>1, <1>2, <1>4, PTL DEF Score!Spec, ScoreFollowsEvidence, Score!ScoreFollowsEvidence

-----------------------------------------------------------------------------
(* The bench runs each part by its own specification, so what is proved of  *)
(* the parts holds of it. Two parts have their initial states and steps     *)
(* only in the behaviours that run them.                                    *)
LEMMA LibraryIsItsParts ==
  MCSpec => /\ Spec /\ Session!Spec /\ Licence!Spec /\ Hardware!ProfileSpec /\ Filter!Spec
            /\ ([](part = "most_recent") /\ Recent!Spec) \/ [](part # "most_recent")
            /\ Hardware!EstimateSpec \/ [](vramPc = "ask")
            /\ Score!Spec \/ [][UNCHANGED Score!vars]_(Score!vars)
<1>1. MCInit => /\ Init /\ Session!Init /\ Licence!Init /\ Hardware!ProfileInit /\ Filter!Init
                /\ part = "most_recent" => Recent!Init
                /\ part = "score" => Score!Init
                /\ part = "vram" => Hardware!EstimateInit
                /\ part # "vram" => vramPc = "ask"
  <2> SUFFICES ASSUME MCInit
               PROVE  /\ Init /\ Session!Init /\ Licence!Init /\ Hardware!ProfileInit /\ Filter!Init
                      /\ part = "most_recent" => Recent!Init
                      /\ part = "score" => Score!Init
                      /\ part = "vram" => Hardware!EstimateInit
                      /\ part # "vram" => vramPc = "ask"
    OBVIOUS
  <2>1. Init /\ Session!Init /\ Licence!Init /\ (part = "most_recent" => Recent!Init)
    BY DEF MCInit, AccountsInit, WorkflowInit
  <2>2. (part = "vram" => Hardware!EstimateInit) /\ (part # "vram" => vramPc = "ask")
    BY DEF MCInit, VramInit
  <2>3. Hardware!ProfileInit
    <3>1. CASE part = "profile"
      BY <3>1 DEF MCInit, ProfileInit
    <3>2. CASE part # "profile"
      <4>1. Hardware!Range(Hardware!Detectors) = {"nvidia", "amd", "apple"}
        BY DEF Hardware!Range, Hardware!Detectors
      <4>2. /\ machine = [d \in {"nvidia", "amd", "apple"} |-> <<>>]
            /\ tried = 0 /\ spec = None /\ config = None
        BY <3>2 DEF MCInit, ProfileInit
      <4> QED
        BY <4>1, <4>2 DEF Hardware!ProfileInit
    <3> QED
      BY <3>1, <3>2
  <2>4. part = "score" => Score!Init
    BY DEF MCInit, ScoreInit
  <2>5. Filter!Init
    <3>1. CASE part = "filter"
      BY <3>1 DEF MCInit, FilterInit
    <3>2. CASE part # "filter"
      <4>1. spans = <<>> /\ todo = <<>> /\ redacted = Filter!Text
        BY <3>2 DEF MCInit, FilterInit
      <4>2. <<>> \in Filter!Found
        <5>1. MaxSpans \in Nat /\ 0 \in 0 .. MaxSpans
          BY LibraryAssumption DEF Filter!ConstantsOK
        <5>2. <<>> \in [1 .. 0 -> Filter!Span]
          OBVIOUS
        <5>3. <<>> \in Filter!BoundedSeq(Filter!Span, MaxSpans)
          BY <5>1, <5>2 DEF Filter!BoundedSeq, Filter!SeqOf
        <5> QED
          BY <5>3 DEF Filter!Found
      <4> QED
        BY <4>1, <4>2 DEF Filter!Init
    <3> QED
      BY <3>1, <3>2
  <2> QED
    BY <2>1, <2>2, <2>3, <2>4, <2>5
<1>2. [MCNext]_allVars =>
        /\ [Next]_vars /\ [Session!Next]_(Session!vars) /\ [Licence!Next]_(Licence!vars)
        /\ [Hardware!ProfileNext]_(Hardware!profileVars) /\ [Hardware!EstimateNext]_(Hardware!estimateVars)
        /\ [Filter!Next]_(Filter!vars) /\ [Score!Next]_(Score!vars)
        /\ part = "most_recent" => [Recent!Next]_(Recent!vars)
        /\ part' = part
        /\ part # "vram" => UNCHANGED vramPc
        /\ part # "score" => UNCHANGED Score!vars
  BY DEF allVars, MCNext, SyncSteps, SessionSteps, LicenceSteps, RecentSteps, MajoritySteps, ScoreSteps, VramSteps,
     ProfileSteps, FilterSteps, sessionVars, licenceVars, workflowVars, vramVars, profileVars, filterVars, scoreVars,
     Session!vars, Licence!vars, Recent!vars, Hardware!estimateVars, Hardware!profileVars, Filter!vars, Score!vars
<1>3. MCSpec => [](part = "most_recent") \/ [](part # "most_recent")
  <2>1. part = "most_recent" /\ [MCNext]_allVars => (part = "most_recent")'
    BY <1>2
  <2>2. part # "most_recent" /\ [MCNext]_allVars => (part # "most_recent")'
    BY <1>2
  <2>3. part = "most_recent" \/ part # "most_recent"
    OBVIOUS
  <2> QED
    BY <2>1, <2>2, <2>3, PTL DEF MCSpec
<1>4. MCSpec => [](part = "vram") \/ [](part # "vram" /\ vramPc = "ask")
  <2>1. part = "vram" /\ [MCNext]_allVars => (part = "vram")'
    BY <1>2
  <2>2. part # "vram" /\ vramPc = "ask" /\ [MCNext]_allVars => (part # "vram" /\ vramPc = "ask")'
    BY <1>2
  <2>3. MCSpec => part = "vram" \/ (part # "vram" /\ vramPc = "ask")
    BY <1>1 DEF MCSpec
  <2> QED
    BY <2>1, <2>2, <2>3, PTL DEF MCSpec
<1>5. MCSpec => Score!Spec \/ [][UNCHANGED Score!vars]_(Score!vars)
  <2>1. part = "score" /\ [MCNext]_allVars => (part = "score")'
    BY <1>2
  <2>2. part # "score" /\ [MCNext]_allVars =>
          (part # "score")' /\ [UNCHANGED Score!vars]_(Score!vars)
    BY <1>2
  <2>3. MCSpec => (part = "score" /\ Score!Init) \/ part # "score"
    BY <1>1 DEF MCSpec
  <2>4. [MCNext]_allVars => [Score!Next]_(Score!vars)
    BY <1>2
  <2> QED
    BY <2>1, <2>2, <2>3, <2>4, PTL DEF MCSpec, Score!Spec
<1> QED
  BY <1>1, <1>2, <1>3, <1>4, <1>5, PTL
     DEF MCSpec, Spec, Session!Spec, Licence!Spec, Hardware!ProfileSpec, Recent!Spec, Hardware!EstimateSpec, Filter!Spec

(* What the run checks of the library holds of the bench for every value of *)
(* its constants.                                                           *)
THEOREM LibraryIsSafe ==
  MCSpec => /\ [](/\ NothingWithoutOptIn /\ TierIsRecent /\ RevocationIsSeen
                  /\ EnoughRunsCrystallize /\ DeterministicMeansApproved
                  /\ FitsMeansItFits /\ FallbacksExist /\ NothingPersonalSurvives)
            /\ LastWriteWins /\ ScoreFollowsEvidence
<1>1. part # "most_recent" => EnoughRunsCrystallize /\ DeterministicMeansApproved
  BY DEF EnoughRunsCrystallize, DeterministicMeansApproved
<1>2. vramPc = "ask" => FitsMeansItFits
  BY DEF FitsMeansItFits, Hardware!FitsMeansItFits
<1>3. [][UNCHANGED Score!vars]_(Score!vars) => ScoreFollowsEvidence
  <2>1. [UNCHANGED Score!vars]_(Score!vars) => [Score!Next => Score!FollowsEvidence]_(Score!vars)
    OBVIOUS
  <2> QED
    BY <2>1, PTL DEF ScoreFollowsEvidence, Score!ScoreFollowsEvidence
<1> QED
  BY <1>1, <1>2, <1>3, LibraryIsItsParts, ConsentFirst, NewestBlobStays, SessionsAreRecent, RevocationTakesEffect,
     ApprovedStepsOnly, NoApprovalIsLost, EstimatesAreRight, OrdersName, SpansAreGone, LowConfidenceIsNoPenalty, PTL
=============================================================================
