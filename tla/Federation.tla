----------------------------- MODULE Federation -----------------------------
(***************************************************************************)
(* circuitforge_core/activitypub: deliver_activity() signs an activity and *)
(* posts it to an inbox; the inbox router checks the signature and calls   *)
(* the product's handler.  deliver_activity() leaves retries to its caller,*)
(* which is here wrapped in circuitforge_core.retry.on_exception().  Both  *)
(* sides are honest; the network loses posts and answers, a proxy on the   *)
(* way may rewrite what it passes on, and the actor's key may be replaced. *)
(* A signature is what was signed with the key; it verifies when the       *)
(* receiver rebuilds the same from what it received.                       *)
(***************************************************************************)
EXTENDS Naturals, FiniteSets

CONSTANTS
  Deliveries,    \* calls of deliver_activity(), retried
  MaxTries,      \* max_tries of on_exception()
  MaxRotations,  \* bound on the replacements of the actor's key
  None

ConstantsOK == MaxTries \in Nat \ {0} /\ MaxRotations \in Nat /\ None \notin Nat \cup {"as sent"}

VARIABLES
  shape,     \* per delivery: has the type a handler, has the inbox URL a query
  proxy,     \* what the receiver's proxy rewrites: "nothing", "host" or "body"
  keyFile,   \* the actor's key: what load_actor_from_key_file() finds and
             \*   the published actor document shows
  actor,     \* per delivery, the key of the CFActor it was called with
  pc,        \* per delivery: "idle", "posted", "backoff", "returned", "raised"
  tries,
  reply,     \* per delivery, the status of the Response it returned
  signature, \* per post <<delivery, try>>, what the Signature header signs
  inbox,     \* per post: "none", "arrived", "verify", "dispatch", "handling", "answered"
  fetched,   \* per post, the public key verify_key_fetcher() returned
  status,    \* per post, the status the router answered
  handled    \* the posts whose handler ran to its end

vars == <<shape, proxy, keyFile, actor, pc, tries, reply,
          signature, inbox, fetched, status, handled>>
sender == <<actor, pc, tries, reply>>
receiver == <<inbox, fetched, status, handled>>

Posts == Deliveries \X (1 .. MaxTries)
Last(d) == <<d, tries[d]>>

Init ==
  /\ shape \in [Deliveries -> [handler : BOOLEAN, query : BOOLEAN]]
  /\ proxy \in {"nothing", "host", "body"}
  /\ keyFile = 0
  /\ actor = [d \in Deliveries |-> None]
  /\ pc = [d \in Deliveries |-> "idle"]
  /\ tries = [d \in Deliveries |-> 0]
  /\ reply = [d \in Deliveries |-> None]
  /\ signature = [p \in Posts |-> None]
  /\ inbox = [p \in Posts |-> "none"]
  /\ fetched = [p \in Posts |-> None]
  /\ status = [p \in Posts |-> None]
  /\ handled = {}

-----------------------------------------------------------------------------
(* The sender. *)

\* Mutant: the digest of the body is left out of what is signed and sent.
SignWithoutDigest(d) ==
  [target |-> IF shape[d].query THEN "path?query" ELSE "path",
   host |-> "inbox", digest |-> None, key |-> actor'[d]]

(* (request-target), host, date, digest and content-type; the date and the  *)
(* content type are never changed on the way.                               *)
SignHeaders(d) ==
  [target |-> IF shape[d].query THEN "path?query" ELSE "path",
   host |-> "inbox", digest |-> "as sent", key |-> actor'[d]]

(* requests.post(); the post arrives or is lost. *)
Deliver(d) ==
  /\ pc[d] \in {"idle", "backoff"} /\ tries[d] < MaxTries
  /\ actor' = [actor EXCEPT ![d] = IF @ = None THEN keyFile ELSE @]
  /\ tries' = [tries EXCEPT ![d] = @ + 1]
  /\ signature' = [signature EXCEPT ![<<d, tries'[d]>>] = SignHeaders(d)]
  /\ inbox' \in {inbox, [inbox EXCEPT ![<<d, tries'[d]>>] = "arrived"]}
  /\ pc' = [pc EXCEPT ![d] = "posted"]
  /\ UNCHANGED <<shape, proxy, keyFile, reply, fetched, status, handled>>

(* Any answer at all returns; the caller looks at its status. *)
Return(d) ==
  /\ pc[d] = "posted" /\ inbox[Last(d)] = "answered"
  /\ reply' = [reply EXCEPT ![d] = status[Last(d)]]
  /\ pc' = [pc EXCEPT ![d] = "returned"]
  /\ UNCHANGED <<shape, proxy, keyFile, actor, tries, signature, receiver>>

(* A RequestException: no connection, or no answer in time.  on_exception() *)
(* sleeps and tries again, or raises: after max_tries, or max_time.         *)
NoAnswer(d) ==
  /\ pc[d] = "posted"
  /\ \/ tries[d] < MaxTries /\ pc' = [pc EXCEPT ![d] = "backoff"]
     \/ pc' = [pc EXCEPT ![d] = "raised"]
  /\ UNCHANGED <<shape, proxy, keyFile, actor, tries, reply, signature, receiver>>

(* The product's key file is replaced and its actor loaded anew. *)
Rotate ==
  /\ keyFile < MaxRotations
  /\ keyFile' = keyFile + 1
  /\ UNCHANGED <<shape, proxy, sender, signature, receiver>>

-----------------------------------------------------------------------------
(* The receiver: inbox_endpoint(), one task per post. *)
Answer(p, code) ==
  /\ status' = [status EXCEPT ![p] = code]
  /\ inbox' = [inbox EXCEPT ![p] = "answered"]

(* await verify_key_fetcher(key_id): the key shown now, None, or an error.  *)
FetchKey(p) ==
  /\ inbox[p] = "arrived"
  /\ \/ /\ fetched' = [fetched EXCEPT ![p] = keyFile]
        /\ inbox' = [inbox EXCEPT ![p] = "verify"] /\ UNCHANGED status
     \/ \E code \in {401, 500} : Answer(p, code) /\ UNCHANGED fetched
  /\ UNCHANGED <<shape, proxy, keyFile, sender, signature, handled>>

(* What the receiver rebuilds: its own method and path, without a query,    *)
(* and the headers it received.                                             *)
Verifies(p) ==
  /\ signature[p].target = "path"
  /\ signature[p].host = IF proxy = "host" THEN "backend" ELSE "inbox"
  /\ signature[p].key = fetched[p]
  /\ signature[p].digest # None => proxy # "body"

VerifySignature(p) ==
  /\ inbox[p] = "verify"
  /\ IF Verifies(p) THEN inbox' = [inbox EXCEPT ![p] = "dispatch"] /\ UNCHANGED status
     ELSE Answer(p, 401)
  /\ UNCHANGED <<shape, proxy, keyFile, sender, signature, fetched, handled>>

(* An unknown type is accepted silently. *)
Dispatch(p) ==
  /\ inbox[p] = "dispatch"
  /\ IF shape[p[1]].handler
     THEN inbox' = [inbox EXCEPT ![p] = "handling"] /\ UNCHANGED status
     ELSE Answer(p, 202)
  /\ UNCHANGED <<shape, proxy, keyFile, sender, signature, fetched, handled>>

(* await handler(activity, headers): its error is a 500. *)
Handle(p) ==
  /\ inbox[p] = "handling"
  /\ \/ handled' = handled \cup {p} /\ Answer(p, 202)
     \/ Answer(p, 500) /\ UNCHANGED handled
  /\ UNCHANGED <<shape, proxy, keyFile, sender, signature, fetched>>

Endpoint(p) == FetchKey(p) \/ VerifySignature(p) \/ Dispatch(p) \/ Handle(p)

Next ==
  \/ \E d \in Deliveries : Deliver(d) \/ Return(d) \/ NoAnswer(d)
  \/ \E p \in Posts : Endpoint(p)
  \/ Rotate

Spec == Init /\ [][Next]_vars

-----------------------------------------------------------------------------
Handled(d) == {p \in handled : p[1] = d}

(* What a sender may conclude, whatever was lost, retried or replaced: a    *)
(* 202 for a type with a handler means the handler ran to its end; a 401    *)
(* has a cause other than an honest post of a plain URL under an unchanged  *)
(* key that the receiver found; an activity is handled only with the body   *)
(* and under the key its actor signed it with.                              *)
DeliveriesAreTrue ==
  \A d \in Deliveries :
    /\ reply[d] = 202 /\ shape[d].handler => Last(d) \in handled
    /\ reply[d] = 401 =>
         shape[d].query \/ proxy # "nothing" \/ keyFile > 0 \/ fetched[Last(d)] = None
    /\ Handled(d) # {} => proxy # "body"
    /\ \A p \in Handled(d) : fetched[p] = actor[d]

(* inbox.py has no memory of what it handled: a try whose answer came too   *)
(* late is followed by another, and the handler runs twice.                 *)
HandledOnce == \A d \in Deliveries : Cardinality(Handled(d)) <= 1
=============================================================================
