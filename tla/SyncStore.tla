----------------------------- MODULE SyncStore ------------------------------
(***************************************************************************)
(* circuitforge_core/sync: SyncStore, SyncPrefsStore and the FastAPI       *)
(* endpoints over them, for one product.  The endpoints run in a thread    *)
(* pool, and every statement of the stores opens a connection and a        *)
(* transaction of its own, so a push is two steps (consent, upsert) and so *)
(* is a pull (preferences, blobs).  A blob is known by its updated_at.     *)
(***************************************************************************)
EXTENDS Naturals

CONSTANTS
  Users, Classes,
  Devices, Owner,   \* the devices (browser tabs) of each user
  Stamps,           \* updated_at values, in the order SQLite compares them
  None

ASSUME SyncAssumption ==
  /\ Owner \in [Devices -> Users]
  /\ Stamps \subseteq Nat
  /\ None \notin Stamps /\ None \notin {"on", "off"}

VARIABLES
  prefs,    \* sync_prefs: per user and class "on", "off" or None (no row)
  blobs,    \* sync_blobs: per user and class an updated_at or None (no row)
  req,      \* per device, the request in progress
  reply,    \* per device, what the last request answered
  optedIn   \* history: the user and class pairs ever enabled by set_sync_pref

vars == <<prefs, blobs, req, reply, optedIn>>

Keys == Users \X Classes
Idle == [op |-> "idle"]

Init ==
  /\ prefs = [k \in Keys |-> None]
  /\ blobs = [k \in Keys |-> None]
  /\ req = [d \in Devices |-> Idle]
  /\ reply = [d \in Devices |-> None]
  /\ optedIn = {}

-----------------------------------------------------------------------------
(* PATCH /prefs *)
SetSyncPref(u, c, enabled) ==
  /\ prefs' = [prefs EXCEPT ![<<u, c>>] = enabled]
  /\ optedIn' = IF enabled = "on" THEN optedIn \cup {<<u, c>>} ELSE optedIn
  /\ UNCHANGED <<blobs, req, reply>>

\* Mutant: no row counts as consent.
IsEnabledByDefault(u, c) == prefs[<<u, c>>] # "off"
IsEnabled(u, c) == prefs[<<u, c>>] = "on"

(* push(): the consent check ... *)
PushCheck(d, c, ts) ==
  /\ req[d] = Idle
  /\ IF IsEnabled(Owner[d], c)
     THEN /\ req' = [req EXCEPT ![d] = [op |-> "push", class |-> c, ts |-> ts]]
          /\ UNCHANGED reply
     ELSE /\ reply' = [reply EXCEPT ![d] = [written |-> FALSE]]
          /\ UNCHANGED req
  /\ UNCHANGED <<prefs, blobs, optedIn>>

(* ... and the upsert, whose WHERE clause keeps a newer row; True whichever *)
(* way it went.                                                            *)
\* Mutant: the upsert without its WHERE clause.
Always(k, ts) == blobs[k] # None
Newer(k, ts) == blobs[k] # None /\ ts > blobs[k]

PushWrite(d) ==
  /\ req[d].op = "push"
  /\ LET k == <<Owner[d], req[d].class>>
         written == blobs[k] = None \/ Newer(k, req[d].ts)
     IN blobs' = IF written THEN [blobs EXCEPT ![k] = req[d].ts] ELSE blobs
  /\ reply' = [reply EXCEPT ![d] = [written |-> TRUE]]
  /\ req' = [req EXCEPT ![d] = Idle]
  /\ UNCHANGED <<prefs, optedIn>>

(* pull(): the enabled classes of the user ... *)
PullPrefs(d) ==
  /\ req[d] = Idle
  /\ req' = [req EXCEPT ![d] = [op |-> "pull", enabled |-> {c \in Classes : IsEnabled(Owner[d], c)}]]
  /\ UNCHANGED <<prefs, blobs, reply, optedIn>>

(* ... and their rows. *)
PullRead(d) ==
  /\ req[d].op = "pull"
  /\ reply' = [reply EXCEPT ![d] =
       [rows |-> {k \in Keys : k[1] = Owner[d] /\ k[2] \in req[d].enabled /\ blobs[k] # None}]]
  /\ req' = [req EXCEPT ![d] = Idle]
  /\ UNCHANGED <<prefs, blobs, optedIn>>

(* DELETE /blob/{data_class}, DELETE /data: blobs only; tier-free. *)
DeleteBlobs(u, classes) ==
  /\ blobs' = [k \in Keys |-> IF k[1] = u /\ k[2] \in classes THEN None ELSE blobs[k]]
  /\ UNCHANGED <<prefs, req, reply, optedIn>>

(* wipe_sync_data(): blobs and preferences in one transaction. *)
WipeSyncData(u, classes) ==
  /\ blobs' = [k \in Keys |-> IF k[1] = u /\ k[2] \in classes THEN None ELSE blobs[k]]
  /\ prefs' = [k \in Keys |-> IF k[1] = u /\ k[2] \in classes THEN None ELSE prefs[k]]
  /\ UNCHANGED <<req, reply, optedIn>>

(* One class, or all of the product. *)
Scopes == {{c} : c \in Classes} \cup {Classes}

Next ==
  \/ \E u \in Users, c \in Classes, enabled \in {"on", "off"} : SetSyncPref(u, c, enabled)
  \/ \E u \in Users, cs \in Scopes : DeleteBlobs(u, cs) \/ WipeSyncData(u, cs)
  \/ \E d \in Devices, c \in Classes, ts \in Stamps : PushCheck(d, c, ts)
  \/ \E d \in Devices : PushWrite(d) \/ PullPrefs(d) \/ PullRead(d)

Spec == Init /\ [][Next]_vars

-----------------------------------------------------------------------------
(* The schema invariant "absence of a row always means disabled": nothing   *)
(* is ever stored for, or on its way to, a class its user never opted in to.*)
NothingWithoutOptIn ==
  /\ \A k \in Keys : blobs[k] # None \/ prefs[k] = "on" => k \in optedIn
  /\ \A d \in Devices : req[d].op = "push" => <<Owner[d], req[d].class>> \in optedIn

(* Last write wins: while a row exists its updated_at only grows, so two    *)
(* devices whose pushes cross leave the newer blob, in either order.        *)
LastWriteWins ==
  [][\A k \in Keys : blobs[k] # None /\ blobs'[k] # None => blobs'[k] >= blobs[k]]_vars

(* A pull returns rows of the device's own user and of classes that user    *)
(* opted in to.                                                             *)
PullIsOwn ==
  \A d \in Devices : reply[d] # None /\ "rows" \in DOMAIN reply[d] =>
    \A k \in reply[d].rows : k[1] = Owner[d] /\ k \in optedIn

-----------------------------------------------------------------------------
(* wipe_sync_data(): "Deletion is immediate and irrevocable."  A user whose *)
(* preferences are gone has no blob.                                        *)
WipedStaysWiped == \A k \in Keys : prefs[k] = None => blobs[k] = None

(* push(): "True if written, False if rejected", rejected also when the     *)
(* client's updated_at is older than the stored one.                        *)
PushTellsTheTruth ==
  [][\A d \in Devices : req[d].op = "push" /\ req'[d] = Idle /\ reply'[d] = [written |-> TRUE] =>
       blobs'[<<Owner[d], req[d].class>>] = req[d].ts]_vars
=============================================================================
