---------------------------- MODULE MemoryClient ----------------------------
(***************************************************************************)
(* circuitforge_core/memory/client.py: an asyncio client of the mnemo      *)
(* sidecar.  Coroutines interleave only at an await, so each action runs   *)
(* from one await to the next.  The monotonic clock shows only through     *)
(* `_retry_at`: unset (None), in the future ("cooling") or past ("due").   *)
(* Calls are the coroutines of the product's handlers, used again and      *)
(* again; Recalls are those that call recall(), the others call remember(),*)
(* entities(), stats() or wipe(), which treat the client alike.            *)
(***************************************************************************)
EXTENDS Naturals, FiniteSets

CONSTANTS
  Calls, Recalls,
  MaxFailures,     \* _MAX_FAILURES
  ConnectMayFail,  \* whether a health check may fail
  Concurrent,      \* whether calls overlap
  CanClose,        \* whether close() is called
  None

ConstantsOK ==
  /\ Recalls \subseteq Calls /\ IsFiniteSet(Calls)
  /\ MaxFailures \in Nat \ {0}
  /\ {ConnectMayFail, Concurrent, CanClose} \subseteq BOOLEAN

VARIABLES
  available,  \* _available
  client,     \* _client is not None
  fails,      \* _failure_count
  retry,      \* _retry_at
  pc,         \* per call: "idle", "health" (inside connect()) or "sent"
  life        \* the lifespan handler: "start", "health", "up" or "closed"

vars == <<available, client, fails, retry, pc, life>>

Init ==
  /\ available = FALSE /\ client = FALSE
  /\ fails = 0 /\ retry = None
  /\ pc = [c \in Calls |-> "idle"]
  /\ life = "start"

-----------------------------------------------------------------------------
(* The internal state changes. *)

OnCallSuccess == fails' = 0 /\ retry' = None

OnCallError ==
  /\ fails' = fails + 1
  /\ retry' = "cooling"
  /\ available' = (available /\ fails + 1 < MaxFailures)

(* The answer to connect()'s health check. *)
HealthOk == available' = TRUE /\ OnCallSuccess
HealthBad == ConnectMayFail /\ available' = FALSE /\ UNCHANGED <<fails, retry>>

-----------------------------------------------------------------------------
(* lifespan: await memory.connect() ... await memory.close() *)

Connect ==
  /\ life = "start"
  /\ client' = TRUE
  /\ life' = "health"
  /\ UNCHANGED <<available, fails, retry, pc>>

Connected ==
  /\ life = "health"
  /\ HealthOk \/ HealthBad
  /\ life' = "up"
  /\ UNCHANGED <<client, pc>>

(* The client's __aexit__ is awaited first; nothing is read before it that  *)
(* is used after, so the coroutine counts from its end.                     *)
Close ==
  /\ CanClose
  /\ life = "up"
  /\ client' = FALSE /\ available' = FALSE /\ retry' = None
  /\ life' = "closed"
  /\ UNCHANGED <<fails, pc>>

-----------------------------------------------------------------------------
(* remember(), recall(), entities(), stats(), wipe() *)

MayStart(c) == pc[c] = "idle" /\ life \in {"up", "closed"}
               /\ (~Concurrent => \A d \in Calls : pc[d] = "idle")

CallSent(c) ==
  /\ MayStart(c)
  /\ available
  /\ pc' = [pc EXCEPT ![c] = "sent"]
  /\ UNCHANGED <<available, client, fails, retry, life>>

(* _maybe_reconnect() with the cooldown elapsed; a call that finds the      *)
(* client unavailable and the cooldown running answers at once.             *)
CallReconnects(c) ==
  /\ MayStart(c)
  /\ ~available
  /\ retry = "due"
  /\ retry' = None
  /\ client' = TRUE
  /\ pc' = [pc EXCEPT ![c] = "health"]
  /\ UNCHANGED <<available, fails, life>>

ReconnectOk(c) ==
  /\ pc[c] = "health"
  /\ HealthOk
  /\ pc' = [pc EXCEPT ![c] = "sent"]
  /\ UNCHANGED <<client, life>>

ReconnectBad(c) ==
  /\ pc[c] = "health"
  /\ HealthBad
  /\ pc' = [pc EXCEPT ![c] = "idle"]
  /\ UNCHANGED <<client, life>>

(* The awaited SDK call returns.  recall() resets the counter only.         *)
CallSucceeds(c) ==
  /\ pc[c] = "sent"
  /\ client
  /\ IF c \in Recalls THEN fails' = 0 /\ retry' = retry ELSE OnCallSuccess
  /\ pc' = [pc EXCEPT ![c] = "idle"]
  /\ UNCHANGED <<available, client, life>>

(* It raises; with _client gone the attribute access itself does.           *)
CallFails(c) ==
  /\ pc[c] = "sent"
  /\ OnCallError
  /\ pc' = [pc EXCEPT ![c] = "idle"]
  /\ UNCHANGED <<client, life>>

CooldownElapses ==
  /\ retry = "cooling"
  /\ retry' = "due"
  /\ UNCHANGED <<available, client, fails, pc, life>>

Next ==
  \/ Connect \/ Connected \/ Close \/ CooldownElapses
  \/ \E c \in Calls : \/ CallSent(c) \/ CallReconnects(c) \/ ReconnectOk(c)
                      \/ ReconnectBad(c) \/ CallSucceeds(c) \/ CallFails(c)

Spec == Init /\ [][Next]_vars

(* Time passes, the sidecar answers, and handlers keep calling.             *)
Fairness ==
  /\ WF_vars(CooldownElapses) /\ WF_vars(Connect) /\ WF_vars(Connected)
  /\ WF_vars(\E c \in Calls : CallReconnects(c))
  /\ \A c \in Calls : WF_vars(ReconnectOk(c)) /\ WF_vars(CallSucceeds(c) \/ CallFails(c))
FairSpec == Spec /\ Fairness

-----------------------------------------------------------------------------
(* A client that counts _MAX_FAILURES consecutive failures is disabled, and *)
(* the count exceeds the limit only by calls that were already in flight    *)
(* when it was (the "failure 4", "failure 5+" of _on_call_error).           *)
FailuresDisable ==
  /\ available => fails < MaxFailures
  /\ fails <= MaxFailures - 1 + Cardinality(Calls)

(* While the client is disabled and cooling, only answers to calls already  *)
(* in flight may arrive; no call, and no health check, is started.          *)
QuietDuringCooldown ==
  [][~available /\ retry = "cooling" =>
       \A c \in Calls : pc[c] = "idle" => pc'[c] = "idle"]_vars

(* With nothing but recall() calls in flight, and a sidecar whose health    *)
(* check answers, a client disabled by failures comes back: a late success  *)
(* of recall() leaves the scheduled retry alone.                            *)
Tripped == fails >= MaxFailures
Recovers == Tripped ~> available

-----------------------------------------------------------------------------
(* docs/modules/memory.md: "automatic reconnect after transient failures".  *)
(* A client in use that is disabled has a retry scheduled or under way.     *)
RetryPending ==
  life = "up" /\ ~available /\ fails > 0 => retry # None \/ \E c \in Calls : pc[c] = "health"

(* The class docstring: "all calls no-op until the cooldown elapses and a   *)
(* reconnect succeeds": a disabled client reconnects some time.             *)
DisabledReconnects == fails >= MaxFailures ~> \/ available \/ life = "closed"
                                              \/ \E c \in Calls : pc[c] = "health"

(* docs/modules/memory.md: "Successful call: failure counter and retry      *)
(* timer reset".                                                            *)
SuccessResets ==
  [][\A c \in Calls : pc[c] = "sent" /\ pc'[c] = "idle" /\ fails' = 0 => retry' = None]_vars
=============================================================================
