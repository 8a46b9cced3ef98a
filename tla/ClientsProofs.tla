--------------------------- MODULE ClientsProofs ---------------------------
(* Proofs about MCClients: for every configuration of backends and every     *)
(* number of calls, producers, subscribers, deliveries and submissions, the  *)
(* LLM router, the signal bus, ActivityPub deliveries, the feedback router,  *)
(* the radios, MQTT and the memory client keep what MCClients promises.      *)
EXTENDS MCClients, Integers, FiniteSetTheorems, SequenceTheorems, TLAPS

-----------------------------------------------------------------------------
(* The LLM router. A call with an outcome is over; one whose request failed  *)
(* was not at a reliable backend; and none that it passed serves it.         *)
CallOK(k) ==
  /\ at[k] \in Nat
  /\ routerPc[k] \in {"idle", "select", "check", "request", "release", "done"}
  /\ outcome[k] # "none" => routerPc[k] = "done"
  /\ reply[k] \in {"none", "text", "error"}
  /\ routerPc[k] = "release" /\ reply[k] = "error" => Router!Backend(k) \notin Reliable
  /\ call[k].kind = "complete" =>
       \A i \in 1 .. (at[k] - 1) : ~(call[k].order[i] \in Reliable /\ Router!Serves(call[k].order[i], k))

RouterIInv ==
  /\ DOMAIN routerPc = RouterCalls /\ DOMAIN at = RouterCalls
  /\ DOMAIN reply = RouterCalls /\ DOMAIN outcome = RouterCalls
  /\ \A l \in leases : l = <<l[1], l[2]>> /\ l[1] \in RouterCalls
  /\ LeasesGivenBack
  /\ \A k \in RouterCalls : CallOK(k)

LEMMA RouterInitOK == Router!Init => RouterIInv
BY DEF Router!Init, RouterIInv, CallOK, LeasesGivenBack, Router!LeasesGivenBack

(* A step of one call leaves the others alone, and their leases.             *)
OtherCalls(k) ==
  /\ call' = call
  /\ DOMAIN routerPc' = RouterCalls /\ DOMAIN at' = RouterCalls
  /\ DOMAIN reply' = RouterCalls /\ DOMAIN outcome' = RouterCalls
  /\ \A j \in RouterCalls \ {k} :
       routerPc'[j] = routerPc[j] /\ at'[j] = at[j] /\ reply'[j] = reply[j] /\ outcome'[j] = outcome[j]

LeaseOK(l) ==
  /\ l = <<l[1], l[2]>> /\ l[1] \in RouterCalls
  /\ \/ routerPc[l[1]] \in {"check", "request", "release"} /\ l[2] = Router!Backend(l[1])
     \/ outcome[l[1]] = "not pulled"

LEMMA OneCall ==
  ASSUME RouterIInv, NEW k \in RouterCalls, OtherCalls(k), CallOK(k)',
         \A l \in leases' : l \in leases \/ l[1] = k,
         \A l \in leases' : l[1] = k => LeaseOK(l)'
  PROVE  RouterIInv'
<1>1. ASSUME NEW l \in leases', l[1] # k PROVE LeaseOK(l)'
  <2>1. l \in leases /\ l = <<l[1], l[2]>> /\ l[1] \in RouterCalls \ {k} /\ LeaseOK(l)
    BY <1>1 DEF RouterIInv, LeasesGivenBack, Router!LeasesGivenBack, LeaseOK
  <2> QED
    BY <2>1 DEF OtherCalls, LeaseOK, Router!Backend
<1>2. \A l \in leases' : LeaseOK(l)'
  BY <1>1
<1>3. ASSUME NEW j \in RouterCalls PROVE CallOK(j)'
  <2>1. CASE j = k
    BY <2>1
  <2>2. CASE j # k
    <3>1. CallOK(j)
      BY DEF RouterIInv
    <3> QED
      BY <2>2, <3>1 DEF OtherCalls, CallOK, Router!Backend, Router!Serves
  <2> QED
    BY <2>1, <2>2
<1> QED
  BY <1>2, <1>3 DEF RouterIInv, OtherCalls, LeaseOK, LeasesGivenBack, Router!LeasesGivenBack

LEMMA RouterStep == RouterIInv /\ [Router!Next]_(Router!vars) => RouterIInv'
<1> SUFFICES ASSUME RouterIInv, [Router!Next]_(Router!vars) PROVE RouterIInv'
  OBVIOUS
<1>0. ASSUME NEW k \in RouterCalls
      PROVE  /\ CallOK(k) /\ k \in DOMAIN routerPc /\ k \in DOMAIN at /\ k \in DOMAIN reply /\ k \in DOMAIN outcome
             /\ \A l \in leases : LeaseOK(l)
  BY DEF RouterIInv, LeasesGivenBack, Router!LeasesGivenBack, LeaseOK
<1>a. ASSUME NEW k \in RouterCalls, routerPc[k] \in {"idle", "select"}
      PROVE  \A l \in leases : l[1] # k
  <2> SUFFICES ASSUME NEW l \in leases, l[1] = k PROVE FALSE
    OBVIOUS
  <2>1. LeaseOK(l) /\ CallOK(k)
    BY <1>0
  <2> QED
    BY <1>a, <2>1 DEF LeaseOK, CallOK
<1>b. ASSUME NEW k \in RouterCalls, routerPc[k] \in {"check", "request", "release"}
      PROVE  \A l \in leases : l[1] = k => l = <<k, Router!Backend(k)>>
  <2> SUFFICES ASSUME NEW l \in leases, l[1] = k PROVE l = <<k, Router!Backend(k)>>
    OBVIOUS
  <2>1. LeaseOK(l) /\ CallOK(k)
    BY <1>0
  <2>2. outcome[k] = "none" /\ l = <<l[1], l[2]>>
    BY <1>b, <2>1 DEF LeaseOK, CallOK
  <2>3. l[2] = Router!Backend(k)
    BY <2>1, <2>2 DEF LeaseOK
  <2> QED
    BY <2>2, <2>3
<1>1. ASSUME NEW k \in RouterCalls, Router!Start(k) PROVE RouterIInv'
  <2>1. OtherCalls(k)
    BY <1>1 DEF Router!Start, Router!Return, OtherCalls, RouterIInv
  <2>2. CallOK(k)' /\ leases' = leases
    BY <1>0, <1>1 DEF Router!Start, Router!Return, CallOK, Router!Backend, Router!Serves
  <2>3. \A l \in leases : l[1] # k
    BY <1>1, <1>a DEF Router!Start
  <2> QED
    BY <2>1, <2>2, <2>3, OneCall
<1>2. ASSUME NEW k \in RouterCalls, Router!Skip(k) PROVE RouterIInv'
  <2>1. OtherCalls(k)
    BY <1>2 DEF Router!Skip, Router!NextBackend, OtherCalls, RouterIInv
  <2>2. at'[k] = at[k] + 1 /\ routerPc[k] = "select" /\ UNCHANGED <<call, routerPc, leases, reply, outcome>>
    BY <1>0, <1>2 DEF Router!Skip, Router!NextBackend
  <2>3. call[k].kind = "complete" => ~Router!Serves(Router!Backend(k), k)
    BY <1>2 DEF Router!Skip, Router!Eligible, Router!Serves, Router!Cfg
  <2>4. ASSUME call[k].kind = "complete", NEW i \in 1 .. (at'[k] - 1)
        PROVE  ~(call[k].order[i] \in Reliable /\ Router!Serves(call[k].order[i], k))
    <3>1. at[k] \in Nat
      BY <1>0 DEF CallOK
    <3>2. CASE i = at[k]
      BY <2>3, <2>4, <3>2 DEF Router!Backend
    <3>3. CASE i \in 1 .. (at[k] - 1)
      BY <1>0, <2>4, <3>3 DEF CallOK
    <3> QED
      BY <2>2, <3>1, <3>2, <3>3
  <2>5. CallOK(k)' /\ \A l \in leases : l[1] # k
    BY <1>0, <1>a, <2>2, <2>4 DEF CallOK, Router!Backend, Router!Serves
  <2> QED
    BY <2>1, <2>2, <2>5, OneCall
<1>3. ASSUME NEW k \in RouterCalls, Router!Exhausted(k) PROVE RouterIInv'
  <2>1. OtherCalls(k)
    BY <1>3 DEF Router!Exhausted, Router!Return, OtherCalls, RouterIInv
  <2>2. CallOK(k)' /\ leases' = leases
    BY <1>0, <1>3 DEF Router!Exhausted, Router!Return, CallOK, Router!Backend, Router!Serves
  <2>3. \A l \in leases : l[1] # k
    BY <1>3, <1>a DEF Router!Exhausted
  <2> QED
    BY <2>1, <2>2, <2>3, OneCall
<1>4. ASSUME NEW k \in RouterCalls, Router!Allocate(k) PROVE RouterIInv'
  <2>1. OtherCalls(k)
    BY <1>4 DEF Router!Allocate, Router!Reached, OtherCalls, RouterIInv
  <2>2. /\ routerPc[k] = "select" /\ routerPc'[k] \in {"check", "request"}
        /\ leases' = leases \cup {<<k, Router!Backend(k)>>} /\ UNCHANGED <<call, at, reply, outcome>>
    BY <1>0, <1>4 DEF Router!Allocate, Router!Reached
  <2>3. CallOK(k)'
    BY <1>0, <2>2 DEF CallOK, Router!Backend, Router!Serves
  <2>4. ASSUME NEW l \in leases', l[1] = k PROVE LeaseOK(l)'
    <3>1. l = <<k, Router!Backend(k)>>
      BY <1>a, <2>2, <2>4
    <3>2. Router!Backend(k)' = Router!Backend(k)
      BY <2>2 DEF Router!Backend
    <3> QED
      BY <2>2, <3>1, <3>2 DEF LeaseOK
  <2>5. \A l \in leases' : l \in leases \/ l[1] = k
    BY <2>2
  <2> QED
    BY <2>1, <2>3, <2>4, <2>5, OneCall
<1>5. ASSUME NEW k \in RouterCalls, Router!Reach(k) PROVE RouterIInv'
  <2>1. OtherCalls(k)
    BY <1>5 DEF Router!Reach, Router!Reached, Router!NextBackend, OtherCalls, RouterIInv
  <2>2. routerPc[k] = "select" /\ UNCHANGED <<call, leases, reply, outcome>>
    BY <1>5 DEF Router!Reach
  <2>3. CASE routerPc'[k] \in {"check", "request"} /\ at' = at
    <3>1. CallOK(k)' /\ \A l \in leases' : l[1] # k
      BY <1>0, <1>a, <2>2, <2>3 DEF CallOK, Router!Backend, Router!Serves
    <3> QED
      BY <2>1, <2>2, <3>1, OneCall
  <2>4. CASE routerPc' = routerPc /\ at'[k] = at[k] + 1 /\ Router!Backend(k) \notin Reliable
    <3>1. ASSUME call[k].kind = "complete", NEW i \in 1 .. (at'[k] - 1)
          PROVE  ~(call[k].order[i] \in Reliable /\ Router!Serves(call[k].order[i], k))
      <4>1. at[k] \in Nat
        BY <1>0 DEF CallOK
      <4>2. CASE i = at[k]
        BY <2>4, <4>2 DEF Router!Backend
      <4>3. CASE i \in 1 .. (at[k] - 1)
        BY <1>0, <3>1, <4>3 DEF CallOK
      <4> QED
        BY <2>4, <4>1, <4>2, <4>3
    <3>2. CallOK(k)' /\ \A l \in leases' : l[1] # k
      BY <1>0, <1>a, <2>2, <2>4, <3>1 DEF CallOK, Router!Backend, Router!Serves
    <3> QED
      BY <2>1, <2>2, <3>2, OneCall
  <2> QED
    BY <1>0, <1>5, <2>3, <2>4 DEF Router!Reach, Router!Reached, Router!NextBackend
<1>6. ASSUME NEW k \in RouterCalls, Router!CheckPulled(k) PROVE RouterIInv'
  <2>1. /\ routerPc[k] = "check" /\ UNCHANGED <<call, at, leases, reply>>
        /\ \/ /\ routerPc' = [routerPc EXCEPT ![k] = "done"]
              /\ outcome' = [outcome EXCEPT ![k] = "not pulled"]
           \/ routerPc' = [routerPc EXCEPT ![k] = "request"] /\ outcome' = outcome
    BY <1>6 DEF Router!CheckPulled, Router!Return
  <2>2. OtherCalls(k)
    BY <2>1 DEF OtherCalls, RouterIInv
  <2>3. CallOK(k)'
    BY <1>0, <2>1 DEF CallOK, Router!Backend, Router!Serves
  <2>4. ASSUME NEW l \in leases', l[1] = k PROVE LeaseOK(l)'
    <3>1. l = <<k, Router!Backend(k)>>
      BY <1>b, <2>1, <2>4
    <3>2. Router!Backend(k)' = Router!Backend(k)
      BY <2>1 DEF Router!Backend
    <3>3. routerPc'[k] = "request" \/ outcome'[k] = "not pulled"
      BY <1>0, <2>1
    <3> QED
      BY <3>1, <3>2, <3>3 DEF LeaseOK
  <2> QED
    BY <2>1, <2>2, <2>3, <2>4, OneCall
<1>7. ASSUME NEW k \in RouterCalls, Router!Request(k) PROVE RouterIInv'
  <2>1. /\ routerPc[k] = "request" /\ UNCHANGED <<call, at, leases, outcome>>
        /\ routerPc' = [routerPc EXCEPT ![k] = "release"]
    BY <1>7 DEF Router!Request
  <2>2. PICK r \in {"text", "error"} : /\ r = "error" => Router!Backend(k) \notin Reliable
                                       /\ reply' = [reply EXCEPT ![k] = r]
    BY <1>7 DEF Router!Request
  <2>3. OtherCalls(k)
    BY <2>1, <2>2 DEF OtherCalls, RouterIInv
  <2>4. CallOK(k)'
    BY <1>0, <2>1, <2>2 DEF CallOK, Router!Backend, Router!Serves
  <2>5. ASSUME NEW l \in leases', l[1] = k PROVE LeaseOK(l)'
    <3>1. l = <<k, Router!Backend(k)>>
      BY <1>b, <2>1, <2>5
    <3>2. Router!Backend(k)' = Router!Backend(k)
      BY <2>1 DEF Router!Backend
    <3>3. routerPc'[k] = "release"
      BY <1>0, <2>1
    <3> QED
      BY <3>1, <3>2, <3>3 DEF LeaseOK
  <2> QED
    BY <2>1, <2>3, <2>4, <2>5, OneCall
<1>8. ASSUME NEW k \in RouterCalls, Router!Release(k) PROVE RouterIInv'
  <2>1. OtherCalls(k)
    BY <1>8 DEF Router!Release, Router!Return, Router!NextBackend, OtherCalls, RouterIInv
  <2>2. routerPc[k] = "release" /\ leases' = leases \ {<<k, Router!Backend(k)>>} /\ UNCHANGED <<call, reply>>
    BY <1>8 DEF Router!Release
  <2>3. \A l \in leases' : l[1] # k
    BY <1>b, <2>2
  <2>4. CASE routerPc'[k] = "done" /\ outcome'[k] # "none" /\ at' = at
    <3>1. CallOK(k)'
      BY <1>0, <2>2, <2>4 DEF CallOK, Router!Backend, Router!Serves
    <3> QED
      BY <2>1, <2>2, <2>3, <3>1, OneCall
  <2>5. CASE reply[k] = "error" /\ routerPc'[k] = "select" /\ at'[k] = at[k] + 1 /\ outcome' = outcome
    <3>1. ASSUME call[k].kind = "complete", NEW i \in 1 .. (at'[k] - 1)
          PROVE  ~(call[k].order[i] \in Reliable /\ Router!Serves(call[k].order[i], k))
      <4>1. at[k] \in Nat
        BY <1>0 DEF CallOK
      <4>2. CASE i = at[k]
        BY <1>0, <2>2, <2>5, <4>2 DEF CallOK, Router!Backend
      <4>3. CASE i \in 1 .. (at[k] - 1)
        BY <1>0, <3>1, <4>3 DEF CallOK
      <4> QED
        BY <2>5, <4>1, <4>2, <4>3
    <3>2. CallOK(k)'
      BY <1>0, <2>2, <2>5, <3>1 DEF CallOK, Router!Backend, Router!Serves
    <3> QED
      BY <2>1, <2>2, <2>3, <3>2, OneCall
  <2> QED
    BY <1>0, <1>8, <2>4, <2>5 DEF Router!Release, Router!Return, Router!NextBackend
<1>9. ASSUME UNCHANGED <<call, routerPc, at, leases, reply, outcome>> PROVE RouterIInv'
  <2>1. \A k \in RouterCalls : CallOK(k)' <=> CallOK(k)
    BY <1>9 DEF CallOK, Router!Backend, Router!Serves
  <2>2. LeasesGivenBack' <=> LeasesGivenBack
    BY <1>9 DEF LeasesGivenBack, Router!LeasesGivenBack, Router!Backend
  <2> QED
    BY <1>9, <2>1, <2>2 DEF RouterIInv
<1>10. ASSUME NEW b \in Backends, Router!Pull(b) PROVE RouterIInv'
  BY <1>9, <1>10 DEF Router!Pull
<1>11. CASE UNCHANGED Router!vars
  BY <1>9, <1>11 DEF Router!vars
<1> QED
  BY <1>1, <1>2, <1>3, <1>4, <1>5, <1>6, <1>7, <1>8, <1>10, <1>11 DEF Router!Next, Router!Work

LEMMA RouterIsTrue == RouterIInv => LeasesGivenBack /\ ReliableIsNotBypassed
BY DEF RouterIInv, CallOK, ReliableIsNotBypassed, Router!ReliableIsNotBypassed

(* llm/router.py, complete() and embed(), for any configuration and any      *)
(* number of calls: an allocation is held only while its request is under    *)
(* way, or after embed() found its model not pulled; and complete() passes   *)
(* no backend that would have served it.                                     *)
THEOREM NoLeaseIsKept == Router!Spec => [](LeasesGivenBack /\ ReliableIsNotBypassed)
<1> QED
  BY RouterInitOK, RouterStep, RouterIsTrue, PTL DEF Router!Spec

(* llm/router.py, complete(): whichever fallbacks fail, the chain does not   *)
(* end without a backend that would have served the request.                 *)
THEOREM WorkingBackendServes == Router!Spec => []ReliableIsNotBypassed
BY NoLeaseIsKept, PTL

-----------------------------------------------------------------------------
(* The signal bus. An event precedes the later ones of its producer. What a  *)
(* client has received, what is in its queue and what the loop has still to  *)
(* put there follow each other, and a hand-over still to come follows them.  *)
Events == Producers \X Nat
Callbacks == [client : Subscribers, event : Events]

Precedes(e, f) == e[1] = f[1] => e[2] < f[2]
Sorted(s) == \A i, j \in 1 .. Len(s) : i < j => Precedes(s[i], s[j])
AllBefore(s, t) == \A i \in 1 .. Len(s), j \in 1 .. Len(t) : Precedes(s[i], t[j])
\* e was published, and handed over to k.
PastIn(n, t, e, k) == e[2] <= n[e[1]] /\ (k \in t[e[1]] => e[2] < n[e[1]])
Past(e, k) == PastIn(sent, targets, e, k)
PastNext(e, k) == PastIn(sent', targets', e, k)

BusTypes ==
  /\ subscribers \subseteq Subscribers
  /\ received \in [Subscribers -> Seq(Events)] /\ queue \in [Subscribers -> Seq(Events)]
  /\ ready \in Seq(Callbacks)
  /\ sent \in [Producers -> Nat] /\ targets \in [Producers -> SUBSET Subscribers]

ClientOK(k) ==
  /\ Sorted(received[k]) /\ Sorted(queue[k]) /\ AllBefore(received[k], queue[k])
  /\ \A i \in 1 .. Len(received[k]) : Past(received[k][i], k)
  /\ \A i \in 1 .. Len(queue[k]) : Past(queue[k][i], k)
  /\ \A n \in 1 .. Len(ready) : ready[n].client = k =>
       /\ \A i \in 1 .. Len(received[k]) : Precedes(received[k][i], ready[n].event)
       /\ \A i \in 1 .. Len(queue[k]) : Precedes(queue[k][i], ready[n].event)

ReadyOK ==
  /\ \A n \in 1 .. Len(ready) : Past(ready[n].event, ready[n].client)
  /\ \A n, m \in 1 .. Len(ready) :
       n < m /\ ready[n].client = ready[m].client => Precedes(ready[n].event, ready[m].event)

BusIInv == BusTypes /\ ReadyOK /\ \A k \in Subscribers : ClientOK(k)

LEMMA BusInitOK == Bus!Init => BusIInv
<1> SUFFICES ASSUME Bus!Init PROVE BusIInv
  OBVIOUS
<1>1. <<>> \in Seq(Events) /\ <<>> \in Seq(Callbacks) /\ Len(<<>>) = 0
  OBVIOUS
<1>2. BusTypes
  BY <1>1 DEF Bus!Init, BusTypes
<1>3. \A k \in Subscribers : received[k] = <<>> /\ queue[k] = <<>>
  BY DEF Bus!Init
<1>4. ready = <<>>
  BY DEF Bus!Init
<1> QED
  BY <1>1, <1>2, <1>3, <1>4 DEF BusIInv, ReadyOK, ClientOK, Sorted, AllBefore

LEMMA PairOfEvent == \A e \in Events : e[1] \in Producers /\ e[2] \in Nat
BY DEF Events

(* Taking the oldest away from, or adding a newer one to, a sorted sequence. *)
LEMMA SortedTail ==
  ASSUME NEW s \in Seq(Events), s # <<>>, Sorted(s)
  PROVE  /\ Tail(s) \in Seq(Events) /\ Sorted(Tail(s)) /\ Len(Tail(s)) = Len(s) - 1 /\ Len(s) \in Nat \ {0}
         /\ \A i \in 1 .. Len(Tail(s)) : /\ i + 1 \in 1 .. Len(s) /\ Tail(s)[i] = s[i + 1]
                                         /\ Precedes(Head(s), Tail(s)[i])
         /\ 1 \in 1 .. Len(s) /\ Head(s) = s[1] /\ Head(s) \in Events
<1>1. /\ Tail(s) \in Seq(Events) /\ Len(Tail(s)) = Len(s) - 1 /\ Len(s) \in Nat \ {0}
      /\ \A i \in 1 .. Len(Tail(s)) : Tail(s)[i] = s[i + 1]
      /\ Head(s) = s[1] /\ Head(s) \in Events
  BY HeadTailProperties, EmptySeq, LenProperties
<1>2. \A i \in 1 .. Len(Tail(s)) : i + 1 \in 1 .. Len(s) /\ 1 < i + 1
  BY <1>1
<1>3. 1 \in 1 .. Len(s)
  BY <1>1
<1>4. ASSUME NEW i \in 1 .. Len(Tail(s)), NEW j \in 1 .. Len(Tail(s)), i < j
      PROVE  Precedes(Tail(s)[i], Tail(s)[j])
  <2>1. i + 1 \in 1 .. Len(s) /\ j + 1 \in 1 .. Len(s) /\ i + 1 < j + 1
    BY <1>2, <1>4
  <2>2. Precedes(s[i + 1], s[j + 1])
    BY <2>1 DEF Sorted
  <2> QED
    BY <1>1, <2>2
<1>5. \A i \in 1 .. Len(Tail(s)) : Precedes(s[1], s[i + 1])
  BY <1>2, <1>3 DEF Sorted
<1> QED
  BY <1>1, <1>2, <1>3, <1>4, <1>5 DEF Sorted

LEMMA SortedAppend ==
  ASSUME NEW s \in Seq(Events), Sorted(s), NEW e \in Events, \A i \in 1 .. Len(s) : Precedes(s[i], e)
  PROVE  /\ Append(s, e) \in Seq(Events) /\ Sorted(Append(s, e)) /\ Len(s) \in Nat
         /\ Len(Append(s, e)) = Len(s) + 1 /\ Append(s, e)[Len(s) + 1] = e
         /\ \A i \in 1 .. Len(s) : Append(s, e)[i] = s[i]
<1>1. /\ Append(s, e) \in Seq(Events) /\ Len(Append(s, e)) = Len(s) + 1 /\ Len(s) \in Nat
      /\ Append(s, e)[Len(s) + 1] = e /\ \A i \in 1 .. Len(s) : Append(s, e)[i] = s[i]
  BY AppendProperties, LenProperties
<1>2. ASSUME NEW i \in 1 .. Len(Append(s, e)), NEW j \in 1 .. Len(Append(s, e)), i < j
      PROVE  Precedes(Append(s, e)[i], Append(s, e)[j])
  <2>1. i \in 1 .. Len(s) /\ (j \in 1 .. Len(s) \/ j = Len(s) + 1)
    BY <1>1, <1>2
  <2>2. CASE j = Len(s) + 1
    BY <1>1, <2>1, <2>2
  <2>3. CASE j \in 1 .. Len(s)
    BY <1>1, <1>2, <2>1, <2>3 DEF Sorted
  <2> QED
    BY <2>1, <2>2, <2>3
<1> QED
  BY <1>1, <1>2 DEF Sorted

LEMMA ReadyElements == BusTypes => /\ Len(ready) \in Nat
                                   /\ \A n \in 1 .. Len(ready) : /\ ready[n].client \in Subscribers
                                                                 /\ ready[n].event \in Events
<1> SUFFICES ASSUME BusTypes PROVE /\ Len(ready) \in Nat
                                   /\ \A n \in 1 .. Len(ready) : /\ ready[n].client \in Subscribers
                                                                 /\ ready[n].event \in Events
  OBVIOUS
<1>1. ready \in Seq(Callbacks)
  BY DEF BusTypes
<1>2. Len(ready) \in Nat /\ \A n \in 1 .. Len(ready) : ready[n] \in Callbacks
  BY <1>1, ElementOfSeq, LenProperties
<1> QED
  BY <1>2 DEF Callbacks

LEMMA BusStep == BusIInv /\ [Bus!Next]_(Bus!vars) => BusIInv'
<1> SUFFICES ASSUME BusIInv, [Bus!Next]_(Bus!vars) PROVE BusIInv'
  OBVIOUS
<1>0. BusTypes /\ ReadyOK /\ (\A k \in Subscribers : ClientOK(k)) /\ Len(ready) \in Nat
      /\ \A n \in 1 .. Len(ready) : ready[n].client \in Subscribers /\ ready[n].event \in Events
  BY ReadyElements DEF BusIInv
<1>1. ASSUME UNCHANGED <<received, queue, ready, sent, targets>>, subscribers' \subseteq Subscribers
      PROVE  BusIInv'
  <2>1. \A k \in Subscribers : ClientOK(k)' <=> ClientOK(k)
    BY <1>1 DEF ClientOK, Past, PastIn
  <2>2. ReadyOK' <=> ReadyOK
    BY <1>1 DEF ReadyOK, Past, PastIn
  <2> QED
    BY <1>0, <1>1, <2>1, <2>2 DEF BusIInv, BusTypes
<1>2. ASSUME NEW a \in Producers, Bus!Publish(a) PROVE BusIInv'
  <2>1. /\ targets[a] = {} /\ sent' = [sent EXCEPT ![a] = @ + 1]
        /\ targets' = [targets EXCEPT ![a] = subscribers]
        /\ UNCHANGED <<subscribers, queue, ready, received>>
    BY <1>2 DEF Bus!Publish
  <2>2. BusTypes'
    BY <1>0, <2>1 DEF BusTypes
  <2>3. ASSUME NEW e \in Events, NEW k \in Subscribers, Past(e, k) PROVE PastNext(e, k)
    <3>1. e[1] \in Producers /\ e[2] \in Nat /\ sent[e[1]] \in Nat
      BY <1>0, PairOfEvent DEF BusTypes
    <3>2. CASE e[1] = a
      <4>1. sent'[e[1]] = sent[e[1]] + 1
        BY <1>0, <2>1, <3>1, <3>2 DEF BusTypes
      <4> QED
        BY <2>3, <3>1, <4>1 DEF Past, PastIn, PastNext
    <3>3. CASE e[1] # a
      <4>1. sent'[e[1]] = sent[e[1]] /\ targets'[e[1]] = targets[e[1]]
        BY <1>0, <2>1, <3>1, <3>3 DEF BusTypes
      <4> QED
        BY <2>3, <4>1 DEF Past, PastIn, PastNext
    <3> QED
      BY <3>2, <3>3
  <2>4. ReadyOK'
    BY <1>0, <2>1, <2>3 DEF ReadyOK, Past, PastNext
  <2>5. ASSUME NEW k \in Subscribers PROVE ClientOK(k)'
    <3>1. received[k] \in Seq(Events) /\ queue[k] \in Seq(Events) /\ ClientOK(k)
      BY <1>0 DEF BusTypes
    <3>2. /\ \A i \in 1 .. Len(received[k]) : received[k][i] \in Events
          /\ \A i \in 1 .. Len(queue[k]) : queue[k][i] \in Events
      BY <3>1, ElementOfSeq
    <3> QED
      BY <2>1, <2>3, <3>1, <3>2 DEF ClientOK, Past, PastNext
  <2> QED
    BY <2>2, <2>4, <2>5 DEF BusIInv
<1>3. ASSUME NEW a \in Producers, NEW h \in Subscribers, Bus!HandOver(a, h) PROVE BusIInv'
  <2> DEFINE e == <<a, sent[a]>>
             cb == [client |-> h, event |-> e]
  <2>1. /\ h \in targets[a] /\ ready' = Append(ready, cb)
        /\ targets' = [targets EXCEPT ![a] = @ \ {h}]
        /\ UNCHANGED <<subscribers, queue, sent, received>>
    BY <1>3 DEF Bus!HandOver
  <2>2. e \in Events /\ cb \in Callbacks /\ cb.client = h /\ cb.event = e /\ e[1] = a /\ e[2] = sent[a]
    BY <1>0 DEF BusTypes, Events, Callbacks
  <2> HIDE DEF e, cb
  <2>3. /\ ready' \in Seq(Callbacks) /\ Len(ready') = Len(ready) + 1 /\ ready'[Len(ready) + 1] = cb
        /\ \A n \in 1 .. Len(ready) : ready'[n] = ready[n]
    BY <1>0, <2>1, <2>2, AppendProperties DEF BusTypes
  <2>4. BusTypes'
    BY <1>0, <2>1, <2>3 DEF BusTypes
  <2>5. ASSUME NEW f \in Events, NEW k \in Subscribers, Past(f, k) PROVE PastNext(f, k)
    <3>1. f[1] \in Producers
      BY PairOfEvent
    <3>2. targets'[f[1]] \subseteq targets[f[1]]
      BY <1>0, <2>1, <3>1 DEF BusTypes
    <3> QED
      BY <2>1, <2>5, <3>2 DEF Past, PastIn, PastNext
  <2>6. PastNext(e, h)
    <3>1. h \notin targets'[a] /\ sent'[a] = sent[a] /\ sent[a] \in Nat
      BY <1>0, <2>1 DEF BusTypes
    <3> QED
      BY <2>2, <3>1 DEF Past, PastIn, PastNext
  <2>7. ASSUME NEW f \in Events, Past(f, h) PROVE Precedes(f, e)
    BY <2>1, <2>2, <2>7 DEF Past, PastIn, Precedes
  <2>8. ReadyOK'
    <3>1. ASSUME NEW n \in 1 .. Len(ready') PROVE PastNext(ready'[n].event, ready'[n].client)
      <4>1. CASE n = Len(ready) + 1
        BY <2>2, <2>3, <2>6, <4>1
      <4>2. CASE n \in 1 .. Len(ready)
        <5>1. Past(ready[n].event, ready[n].client) /\ ready'[n] = ready[n]
          BY <1>0, <2>3, <4>2 DEF ReadyOK
        <5> QED
          BY <1>0, <2>5, <4>2, <5>1
      <4> QED
        BY <1>0, <2>3, <4>1, <4>2
    <3>2. ASSUME NEW n \in 1 .. Len(ready'), NEW m \in 1 .. Len(ready'), n < m, ready'[n].client = ready'[m].client
          PROVE  Precedes(ready'[n].event, ready'[m].event)
      <4>1. n \in 1 .. Len(ready) /\ ready'[n] = ready[n] /\ (m = Len(ready) + 1 \/ m \in 1 .. Len(ready))
        BY <1>0, <2>3, <3>2
      <4>2. CASE m = Len(ready) + 1
        <5>1. ready[n].client = h /\ ready'[m].event = e
          BY <2>2, <2>3, <3>2, <4>1, <4>2
        <5>2. Past(ready[n].event, h) /\ ready[n].event \in Events
          BY <1>0, <4>1, <5>1 DEF ReadyOK
        <5> QED
          BY <2>7, <4>1, <5>1, <5>2
      <4>3. CASE m \in 1 .. Len(ready)
        BY <1>0, <2>3, <3>2, <4>1, <4>3 DEF ReadyOK
      <4> QED
        BY <4>1, <4>2, <4>3
    <3> QED
      BY <3>1, <3>2 DEF ReadyOK, Past, PastNext
  <2>9. ASSUME NEW k \in Subscribers PROVE ClientOK(k)'
    <3>1. received[k] \in Seq(Events) /\ queue[k] \in Seq(Events) /\ ClientOK(k)
      BY <1>0 DEF BusTypes
    <3>2. /\ \A i \in 1 .. Len(received[k]) : received[k][i] \in Events /\ Past(received[k][i], k)
          /\ \A i \in 1 .. Len(queue[k]) : queue[k][i] \in Events /\ Past(queue[k][i], k)
      BY <3>1, ElementOfSeq DEF ClientOK
    <3>3. ASSUME NEW n \in 1 .. Len(ready'), ready'[n].client = k
          PROVE  /\ \A i \in 1 .. Len(received[k]) : Precedes(received[k][i], ready'[n].event)
                 /\ \A i \in 1 .. Len(queue[k]) : Precedes(queue[k][i], ready'[n].event)
      <4>1. CASE n = Len(ready) + 1
        <5>1. k = h /\ ready'[n].event = e
          BY <2>2, <2>3, <3>3, <4>1
        <5> QED
          BY <2>7, <3>2, <5>1
      <4>2. CASE n \in 1 .. Len(ready)
        BY <2>3, <3>1, <3>3, <4>2 DEF ClientOK
      <4> QED
        BY <1>0, <2>3, <4>1, <4>2
    <3>4. /\ \A i \in 1 .. Len(received[k]) : PastNext(received[k][i], k)
          /\ \A i \in 1 .. Len(queue[k]) : PastNext(queue[k][i], k)
      BY <2>5, <3>2
    <3>5. Sorted(received[k]) /\ Sorted(queue[k]) /\ AllBefore(received[k], queue[k])
      BY <3>1 DEF ClientOK
    <3> QED
      BY <2>1, <3>3, <3>4, <3>5 DEF ClientOK, Past, PastNext
  <2> QED
    BY <2>4, <2>8, <2>9 DEF BusIInv
<1>4. CASE Bus!EnqueueDropOldest
  <2> DEFINE cb == Head(ready)
             h == cb.client
             old == IF Len(queue[h]) = QueueSize THEN Tail(queue[h]) ELSE queue[h]
             new == Append(old, cb.event)
  <2>1. /\ ready # <<>> /\ queue' = [queue EXCEPT ![h] = new] /\ ready' = Tail(ready)
        /\ UNCHANGED <<subscribers, sent, targets, received>>
    BY <1>4 DEF Bus!EnqueueDropOldest
  <2>2. /\ Tail(ready) \in Seq(Callbacks) /\ Len(Tail(ready)) = Len(ready) - 1 /\ cb = ready[1] /\ Len(ready) > 0
        /\ \A n \in 1 .. Len(Tail(ready)) : Tail(ready)[n] = ready[n + 1]
    <3>1. ready \in Seq(Callbacks)
      BY <1>0 DEF BusTypes
    <3> QED
      BY <2>1, <3>1, HeadTailProperties, EmptySeq, LenProperties
  <2>3. 1 \in 1 .. Len(ready) /\ h \in Subscribers /\ cb.event \in Events
        /\ \A n \in 1 .. Len(Tail(ready)) : n + 1 \in 1 .. Len(ready) /\ 1 < n + 1
    BY <1>0, <2>2
  <2>4. /\ ClientOK(h) /\ queue[h] \in Seq(Events) /\ received[h] \in Seq(Events)
        /\ QueueSize # 0
    BY <1>0, <2>3, ClientsAssumption DEF BusTypes, Bus!ConstantsOK
  <2>5. /\ old \in Seq(Events) /\ Sorted(old) /\ Len(old) \in Nat
        /\ \A i \in 1 .. Len(old) : \E j \in 1 .. Len(queue[h]) : old[i] = queue[h][j]
    <3>1. CASE Len(queue[h]) = QueueSize
      <4>1. queue[h] # <<>> /\ old = Tail(queue[h])
        BY <2>4, <3>1
      <4>2. Sorted(queue[h])
        BY <2>4 DEF ClientOK
      <4> HIDE DEF old, h
      <4> QED
        BY <2>4, <4>1, <4>2, SortedTail
    <3>2. CASE Len(queue[h]) # QueueSize
      <4>1. old = queue[h] /\ Sorted(queue[h]) /\ Len(queue[h]) \in Nat
        BY <2>4, <3>2, LenProperties DEF ClientOK
      <4> HIDE DEF old, h
      <4> QED
        BY <2>4, <4>1
    <3> QED
      BY <3>1, <3>2
  <2>6. cb.event = ready[1].event /\ ready[1].client = h
    BY <2>2
  <2> HIDE DEF cb, h, old
  <2>7. \A i \in 1 .. Len(queue[h]) : Precedes(queue[h][i], ready[1].event)
    BY <2>3, <2>4, <2>6 DEF ClientOK
  <2>8. \A i \in 1 .. Len(old) : Precedes(old[i], cb.event)
    BY <2>5, <2>6, <2>7
  <2>9. /\ new \in Seq(Events) /\ Sorted(new) /\ Len(new) = Len(old) + 1 /\ new[Len(old) + 1] = cb.event
        /\ \A i \in 1 .. Len(old) : new[i] = old[i]
    BY <2>3, <2>5, <2>8, SortedAppend
  <2>10. \A i \in 1 .. Len(new) : \/ new[i] = cb.event
                                  \/ \E j \in 1 .. Len(queue[h]) : new[i] = queue[h][j]
    <3> TAKE i \in 1 .. Len(new)
    <3>1. i \in 1 .. Len(old) \/ i = Len(old) + 1
      BY <2>5, <2>9
    <3> QED
      BY <2>5, <2>9, <3>1
  <2> HIDE DEF new
  <2>11. BusTypes'
    BY <1>0, <2>1, <2>2, <2>3, <2>9 DEF BusTypes
  <2>12. ReadyOK'
    <3>1. ASSUME NEW n \in 1 .. Len(ready') PROVE PastNext(ready'[n].event, ready'[n].client)
      <4>1. Past(ready[n + 1].event, ready[n + 1].client) /\ ready'[n] = ready[n + 1]
        BY <1>0, <2>1, <2>2, <2>3 DEF ReadyOK
      <4> QED
        BY <2>1, <4>1 DEF Past, PastIn, PastNext
    <3>2. ASSUME NEW n \in 1 .. Len(ready'), NEW m \in 1 .. Len(ready'), n < m, ready'[n].client = ready'[m].client
          PROVE  Precedes(ready'[n].event, ready'[m].event)
      <4>1. /\ n + 1 \in 1 .. Len(ready) /\ m + 1 \in 1 .. Len(ready) /\ n + 1 < m + 1
            /\ ready'[n] = ready[n + 1] /\ ready'[m] = ready[m + 1]
        BY <2>1, <2>2, <2>3, <3>2
      <4> QED
        BY <1>0, <3>2, <4>1 DEF ReadyOK
    <3> QED
      BY <3>1, <3>2 DEF ReadyOK, Past, PastNext
  <2>13. ASSUME NEW k \in Subscribers PROVE ClientOK(k)'
    <3>1. /\ received'[k] = received[k] /\ ClientOK(k)
          /\ \A e : PastNext(e, k) <=> Past(e, k)
      BY <1>0, <2>1 DEF Past, PastIn, PastNext
    <3>2. \A n \in 1 .. Len(ready') : ready'[n] = ready[n + 1] /\ n + 1 \in 1 .. Len(ready) /\ 1 < n + 1
      BY <2>1, <2>2, <2>3
    <3>3. CASE k # h
      <4>1. queue'[k] = queue[k]
        BY <1>0, <2>1, <3>3 DEF BusTypes
      <4> QED
        BY <3>1, <3>2, <4>1 DEF ClientOK, Past, PastNext
    <3>4. CASE k = h
      <4>1. queue'[k] = new
        BY <1>0, <2>1, <2>3, <3>4 DEF BusTypes
      <4>2. AllBefore(received[k], new)
        <5>1. /\ \A i \in 1 .. Len(received[k]) : Precedes(received[k][i], cb.event)
              /\ \A i \in 1 .. Len(received[k]), j \in 1 .. Len(queue[k]) : Precedes(received[k][i], queue[k][j])
          BY <2>3, <2>6, <3>1, <3>4 DEF ClientOK, AllBefore
        <5> QED
          BY <2>10, <3>4, <5>1 DEF AllBefore
      <4>3. \A i \in 1 .. Len(new) : Past(new[i], k)
        <5>1. Past(cb.event, h)
          BY <1>0, <2>3, <2>6 DEF ReadyOK
        <5>2. \A j \in 1 .. Len(queue[k]) : Past(queue[k][j], k)
          BY <3>1 DEF ClientOK
        <5> QED
          BY <2>10, <3>4, <5>1, <5>2
      <4>4. ASSUME NEW n \in 1 .. Len(ready'), ready'[n].client = k, NEW i \in 1 .. Len(new)
            PROVE  Precedes(new[i], ready'[n].event)
        <5>1. ready'[n] = ready[n + 1] /\ n + 1 \in 1 .. Len(ready) /\ 1 < n + 1
          BY <3>2
        <5>2. Precedes(cb.event, ready[n + 1].event)
          BY <1>0, <2>3, <2>6, <3>4, <4>4, <5>1 DEF ReadyOK
        <5>3. \A j \in 1 .. Len(queue[k]) : Precedes(queue[k][j], ready[n + 1].event)
          BY <3>1, <4>4, <5>1 DEF ClientOK
        <5> QED
          BY <2>10, <3>4, <5>1, <5>2, <5>3
      <4>5. ASSUME NEW n \in 1 .. Len(ready'), ready'[n].client = k, NEW i \in 1 .. Len(received[k])
            PROVE  Precedes(received[k][i], ready'[n].event)
        BY <3>1, <3>2, <4>5 DEF ClientOK
      <4>6. Sorted(received[k]) /\ \A i \in 1 .. Len(received[k]) : Past(received[k][i], k)
        BY <3>1 DEF ClientOK
      <4> QED
        BY <2>9, <3>1, <4>1, <4>2, <4>3, <4>4, <4>5, <4>6 DEF ClientOK, Past, PastNext
    <3> QED
      BY <3>3, <3>4
  <2> QED
    BY <2>11, <2>12, <2>13 DEF BusIInv
<1>5. ASSUME NEW h \in Subscribers, Bus!Deliver(h) PROVE BusIInv'
  <2> DEFINE e == Head(queue[h])
             more == Append(received[h], e)
             rest == Tail(queue[h])
  <2>1. /\ queue[h] # <<>> /\ received' = [received EXCEPT ![h] = more] /\ queue' = [queue EXCEPT ![h] = rest]
        /\ UNCHANGED <<subscribers, ready, sent, targets>>
    BY <1>5 DEF Bus!Deliver
  <2>2. /\ queue[h] \in Seq(Events) /\ received[h] \in Seq(Events) /\ Sorted(queue[h]) /\ Sorted(received[h])
        /\ AllBefore(received[h], queue[h]) /\ ClientOK(h)
    BY <1>0 DEF BusTypes, ClientOK
  <2>3. /\ rest \in Seq(Events) /\ Sorted(rest)
        /\ \A i \in 1 .. Len(rest) : i + 1 \in 1 .. Len(queue[h]) /\ rest[i] = queue[h][i + 1] /\ Precedes(e, rest[i])
        /\ 1 \in 1 .. Len(queue[h]) /\ e = queue[h][1] /\ e \in Events
    BY <2>1, <2>2, SortedTail
  <2>4. \A i \in 1 .. Len(received[h]) : Precedes(received[h][i], e)
    BY <2>2, <2>3 DEF AllBefore
  <2> HIDE DEF e, rest
  <2>5. /\ more \in Seq(Events) /\ Sorted(more) /\ Len(received[h]) \in Nat
        /\ Len(more) = Len(received[h]) + 1 /\ more[Len(received[h]) + 1] = e
        /\ \A i \in 1 .. Len(received[h]) : more[i] = received[h][i]
    BY <2>2, <2>3, <2>4, SortedAppend
  <2> HIDE DEF more
  <2>6. \A i \in 1 .. Len(more) : \/ more[i] = queue[h][1]
                                  \/ \E j \in 1 .. Len(received[h]) : more[i] = received[h][j]
    <3> TAKE i \in 1 .. Len(more)
    <3>1. i \in 1 .. Len(received[h]) \/ i = Len(received[h]) + 1
      BY <2>5
    <3> QED
      BY <2>3, <2>5, <3>1
  <2>7. BusTypes' /\ ReadyOK'
    BY <1>0, <2>1, <2>3, <2>5 DEF BusTypes, ReadyOK, Past, PastIn
  <2>8. ASSUME NEW k \in Subscribers PROVE ClientOK(k)'
    <3>1. ClientOK(k) /\ \A f : PastNext(f, k) <=> Past(f, k)
      BY <1>0, <2>1 DEF Past, PastIn, PastNext
    <3>2. CASE k # h
      <4>1. queue'[k] = queue[k] /\ received'[k] = received[k]
        BY <1>0, <2>1, <3>2 DEF BusTypes
      <4> QED
        BY <2>1, <3>1, <4>1 DEF ClientOK, Past, PastNext
    <3>3. CASE k = h
      <4>1. queue'[k] = rest /\ received'[k] = more
        BY <1>0, <2>1, <3>3 DEF BusTypes
      <4>2. AllBefore(more, rest)
        <5>1. \A i \in 1 .. Len(rest) : Precedes(queue[h][1], rest[i])
          BY <2>3
        <5>2. \A j \in 1 .. Len(received[h]), i \in 1 .. Len(rest) : Precedes(received[h][j], rest[i])
          BY <2>2, <2>3 DEF AllBefore
        <5> QED
          BY <2>6, <5>1, <5>2 DEF AllBefore
      <4>3. (\A i \in 1 .. Len(more) : Past(more[i], h)) /\ \A i \in 1 .. Len(rest) : Past(rest[i], h)
        <5>1. /\ \A j \in 1 .. Len(queue[h]) : Past(queue[h][j], h)
              /\ \A j \in 1 .. Len(received[h]) : Past(received[h][j], h)
          BY <2>2 DEF ClientOK
        <5> QED
          BY <2>3, <2>6, <5>1
      <4>4. ASSUME NEW n \in 1 .. Len(ready), ready[n].client = h
            PROVE  /\ \A i \in 1 .. Len(more) : Precedes(more[i], ready[n].event)
                   /\ \A i \in 1 .. Len(rest) : Precedes(rest[i], ready[n].event)
        <5>1. /\ \A j \in 1 .. Len(queue[h]) : Precedes(queue[h][j], ready[n].event)
              /\ \A j \in 1 .. Len(received[h]) : Precedes(received[h][j], ready[n].event)
          BY <2>2, <4>4 DEF ClientOK
        <5> QED
          BY <2>3, <2>6, <5>1
      <4> QED
        BY <2>1, <2>3, <2>5, <3>1, <3>3, <4>1, <4>2, <4>3, <4>4 DEF ClientOK, Past, PastNext
    <3> QED
      BY <3>2, <3>3
  <2> QED
    BY <2>7, <2>8 DEF BusIInv
<1>6. ASSUME NEW k \in Subscribers, Bus!Subscribe(k) \/ Bus!Iterate(k) \/ Bus!Disconnect(k) PROVE BusIInv'
  <2>1. UNCHANGED <<received, queue, ready, sent, targets>> /\ subscribers' \subseteq Subscribers
    BY <1>0, <1>6 DEF Bus!Subscribe, Bus!Iterate, Bus!Disconnect, BusTypes
  <2> QED
    BY <1>1, <2>1
<1>7. CASE UNCHANGED Bus!vars
  BY <1>0, <1>1, <1>7 DEF Bus!vars, BusTypes
<1> QED
  BY <1>2, <1>3, <1>4, <1>5, <1>6, <1>7 DEF Bus!Next

LEMMA BusIsOrdered == BusIInv => OrderPerProducer
<1> SUFFICES ASSUME BusIInv, NEW k \in Subscribers,
                    NEW i \in DOMAIN Bus!Stream(k), NEW j \in DOMAIN Bus!Stream(k),
                    i < j, Bus!Stream(k)[i][1] = Bus!Stream(k)[j][1]
             PROVE  Bus!Stream(k)[i][2] < Bus!Stream(k)[j][2]
  BY DEF OrderPerProducer, Bus!OrderPerProducer
<1> DEFINE r == received[k]
           w == queue[k]
           s == r \o w
<1>1. /\ r \in Seq(Events) /\ w \in Seq(Events) /\ Len(r) \in Nat /\ Len(w) \in Nat
      /\ Sorted(r) /\ Sorted(w) /\ AllBefore(r, w)
  BY LenProperties DEF BusIInv, BusTypes, ClientOK
<1>2. Bus!Stream(k) = s
  BY DEF Bus!Stream
<1> HIDE DEF r, w
<1>3. /\ s \in Seq(Events) /\ Len(s) = Len(r) + Len(w)
      /\ \A n \in 1 .. Len(r) + Len(w) : s[n] = IF n <= Len(r) THEN r[n] ELSE w[n - Len(r)]
  BY <1>1, ConcatProperties
<1> HIDE DEF s
<1>4. i \in 1 .. Len(r) + Len(w) /\ j \in 1 .. Len(r) + Len(w)
  BY <1>2, <1>3, LenProperties
<1>5. CASE j <= Len(r)
  <2>1. i \in 1 .. Len(r) /\ j \in 1 .. Len(r) /\ s[i] = r[i] /\ s[j] = r[j]
    BY <1>1, <1>3, <1>4, <1>5
  <2>2. Precedes(r[i], r[j])
    BY <1>1, <2>1 DEF Sorted
  <2> QED
    BY <1>2, <2>1, <2>2 DEF Precedes
<1>6. CASE i <= Len(r) /\ ~(j <= Len(r))
  <2>1. i \in 1 .. Len(r) /\ j - Len(r) \in 1 .. Len(w) /\ s[i] = r[i] /\ s[j] = w[j - Len(r)]
    BY <1>1, <1>3, <1>4, <1>6
  <2>2. Precedes(r[i], w[j - Len(r)])
    BY <1>1, <2>1 DEF AllBefore
  <2> QED
    BY <1>2, <2>1, <2>2 DEF Precedes
<1>7. CASE ~(i <= Len(r))
  <2>1. /\ i - Len(r) \in 1 .. Len(w) /\ j - Len(r) \in 1 .. Len(w) /\ i - Len(r) < j - Len(r)
        /\ s[i] = w[i - Len(r)] /\ s[j] = w[j - Len(r)]
    <3>1. ~(j <= Len(r))
      BY <1>1, <1>4, <1>7
    <3> QED
      BY <1>1, <1>3, <1>4, <1>7, <3>1
  <2>2. Precedes(w[i - Len(r)], w[j - Len(r)])
    BY <1>1, <2>1 DEF Sorted
  <2> QED
    BY <1>2, <2>1, <2>2 DEF Precedes
<1> QED
  BY <1>5, <1>6, <1>7

(* signal_bus/bus.py, whatever is dropped, and however many threads publish  *)
(* while clients come and go: a client gets the events of one producer in    *)
(* the order they were published, none twice.                                *)
THEOREM EventsStayInOrder == Bus!Spec => []OrderPerProducer
<1> QED
  BY BusInitOK, BusStep, BusIsOrdered, PTL DEF Bus!Spec

-----------------------------------------------------------------------------
(* ActivityPub. What a post says at each stage of the inbox, and what a      *)
(* delivery may know of its last post.                                       *)
Stages == {"none", "arrived", "verify", "dispatch", "handling", "answered"}
Cause(w) == shape[w[1]].query \/ proxy # "nothing" \/ keyFile > 0 \/ fetched[w] = None

FedTypes ==
  /\ keyFile \in Nat /\ delivered \subseteq Federation!Posts
  /\ proxy \in {"nothing", "host", "body"}
  /\ \A d \in Deliveries : shape[d].query \in BOOLEAN
  /\ actor \in [Deliveries -> Nat \cup {None}] /\ tries \in [Deliveries -> 0 .. MaxTries]
  /\ DOMAIN fedPc = Deliveries /\ DOMAIN fedReply = Deliveries
  /\ posts \in [Federation!Posts -> Stages] /\ fetched \in [Federation!Posts -> Nat \cup {None}]
  /\ DOMAIN signature = Federation!Posts /\ DOMAIN fedStatus = Federation!Posts

\* The header of a post that arrived is its actor's, which may be replaced since.
SignedOK(w) ==
  /\ w[2] <= tries[w[1]] /\ actor[w[1]] \in Nat
  /\ signature[w].target = IF shape[w[1]].query THEN "path?query" ELSE "path"
  /\ signature[w].host = "inbox" /\ signature[w].digest = "as sent"
  /\ signature[w].key = actor[w[1]]
VerifiedOK(w) == fetched[w] = actor[w[1]] /\ proxy # "body"

PostOK(w) ==
  /\ posts[w] # "none" => SignedOK(w)
  /\ posts[w] \in {"none", "arrived"} => fetched[w] = None
  /\ fetched[w] # None => fetched[w] <= keyFile
  /\ posts[w] \in {"dispatch", "handling"} \/ w \in delivered => VerifiedOK(w)
  /\ w \in delivered \/ fedStatus[w] # None => posts[w] = "answered"
  /\ fedStatus[w] = 202 /\ shape[w[1]].handler => w \in delivered
  /\ fedStatus[w] = 401 => Cause(w)

DeliveryOK(d) ==
  /\ actor[d] # None => actor[d] <= keyFile
  /\ fedReply[d] # None => fedPc[d] = "returned"
  /\ fedPc[d] \in {"posted", "returned"} => tries[d] \in 1 .. MaxTries
  /\ fedPc[d] = "returned" => /\ posts[<<d, tries[d]>>] = "answered"
                              /\ fedReply[d] = fedStatus[<<d, tries[d]>>]

FedIInv ==
  /\ FedTypes
  /\ \A w \in Federation!Posts : PostOK(w)
  /\ \A d \in Deliveries : DeliveryOK(d)

LEMMA FedConstants == MaxTries \in Nat \ {0} /\ None \notin Nat
<1>1. MaxTries \in Nat \ {0} /\ None \notin Nat \cup {"as sent"}
  BY ClientsAssumption DEF Federation!ConstantsOK
<1> QED
  BY <1>1

LEMMA NoneIsNoDigest == None # "as sent"
<1>1. None \notin Nat \cup {"as sent"}
  BY ClientsAssumption DEF Federation!ConstantsOK
<1> QED
  BY <1>1

LEMMA PostsArePairs ==
  /\ \A w \in Federation!Posts : w[1] \in Deliveries /\ w[2] \in 1 .. MaxTries /\ w = <<w[1], w[2]>>
  /\ \A d \in Deliveries : \A n \in 1 .. MaxTries :
       <<d, n>> \in Federation!Posts /\ <<d, n>>[1] = d /\ <<d, n>>[2] = n
BY DEF Federation!Posts

LEMMA FedInitOK == Federation!Init => FedIInv
<1> SUFFICES ASSUME Federation!Init PROVE FedIInv
  OBVIOUS
<1>1. FedTypes
  BY FedConstants DEF Federation!Init, FedTypes, Stages
<1>2. \A w \in Federation!Posts : posts[w] = "none" /\ fetched[w] = None /\ fedStatus[w] = None /\ delivered = {}
  BY DEF Federation!Init
<1>3. \A d \in Deliveries : actor[d] = None /\ fedReply[d] = None /\ fedPc[d] = "idle"
  BY DEF Federation!Init
<1> QED
  BY <1>1, <1>2, <1>3, FedConstants DEF FedIInv, PostOK, DeliveryOK

(* A step that leaves a post, or what a delivery relies on, alone.           *)
Keys == shape' = shape /\ proxy' = proxy /\ keyFile' \in Nat /\ keyFile <= keyFile'
SamePost(w) ==
  /\ posts'[w] = posts[w] /\ fetched'[w] = fetched[w] /\ fedStatus'[w] = fedStatus[w]
  /\ signature'[w] = signature[w] /\ (w \in delivered' <=> w \in delivered)
  /\ posts[w] # "none" => actor'[w[1]] = actor[w[1]] /\ tries[w[1]] <= tries'[w[1]]
SameDelivery(d) ==
  /\ actor'[d] = actor[d] /\ fedReply'[d] = fedReply[d]
  /\ fedPc'[d] = fedPc[d] /\ tries'[d] = tries[d]

LEMMA PostStays ==
  ASSUME FedTypes, FedTypes', Keys, NEW w \in Federation!Posts, PostOK(w), SamePost(w)
  PROVE  PostOK(w)'
<1>1. /\ w[1] \in Deliveries /\ w[2] \in Nat /\ tries[w[1]] \in Nat /\ tries'[w[1]] \in Nat
      /\ keyFile \in Nat /\ fetched[w] \in Nat \cup {None} /\ fetched'[w] = fetched[w]
  BY PostsArePairs, FedConstants DEF FedTypes, SamePost
<1>2. posts'[w] # "none" => SignedOK(w)'
  <2>1. SUFFICES ASSUME posts'[w] # "none" PROVE SignedOK(w)'
    OBVIOUS
  <2>2. SignedOK(w) /\ actor'[w[1]] = actor[w[1]] /\ tries[w[1]] <= tries'[w[1]]
    BY <2>1 DEF PostOK, SamePost
  <2>3. w[2] <= tries'[w[1]]
    <3>1. w[2] <= tries[w[1]]
      BY <2>2 DEF SignedOK
    <3>2. PICK i \in Nat, j \in Nat, k \in Nat : i = w[2] /\ j = tries[w[1]] /\ k = tries'[w[1]]
      BY <1>1
    <3>3. i <= j /\ j <= k
      BY <2>2, <3>1, <3>2
    <3>4. i <= k
      BY <3>3
    <3> QED
      BY <3>2, <3>4
  <2> QED
    BY <2>2, <2>3 DEF SamePost, Keys, SignedOK
<1>3. fetched'[w] # None => fetched'[w] <= keyFile'
  BY <1>1 DEF PostOK, Keys
<1>4. Cause(w) => Cause(w)'
  BY <1>1 DEF Cause, Keys
<1>5. posts'[w] \in {"dispatch", "handling"} \/ w \in delivered' => VerifiedOK(w)'
  BY <1>1 DEF PostOK, SamePost, Keys, VerifiedOK
<1> QED
  BY <1>2, <1>3, <1>4, <1>5 DEF PostOK, SamePost, Keys

LEMMA DeliveryStays ==
  ASSUME FedTypes, Keys, NEW d \in Deliveries, DeliveryOK(d), SameDelivery(d),
         tries[d] \in 1 .. MaxTries /\ posts[<<d, tries[d]>>] = "answered" =>
           /\ posts'[<<d, tries[d]>>] = "answered"
           /\ fedStatus'[<<d, tries[d]>>] = fedStatus[<<d, tries[d]>>]
  PROVE  DeliveryOK(d)'
<1>1. actor[d] # None => actor[d] \in Nat /\ keyFile \in Nat
  BY DEF FedTypes
<1>2. actor'[d] # None => actor'[d] <= keyFile'
  BY <1>1 DEF DeliveryOK, SameDelivery, Keys
<1> QED
  BY <1>2 DEF DeliveryOK, SameDelivery

(* A step of the endpoint concerns one post, not yet answered.               *)
OnePost(w) ==
  /\ UNCHANGED <<shape, proxy, keyFile, actor, fedPc, tries, fedReply, signature>>
  /\ \A v \in Federation!Posts \ {w} :
       /\ posts'[v] = posts[v] /\ fetched'[v] = fetched[v] /\ fedStatus'[v] = fedStatus[v]
       /\ (v \in delivered' <=> v \in delivered)

LEMMA EndpointStep ==
  ASSUME FedIInv, FedTypes', NEW w \in Federation!Posts, OnePost(w), posts[w] # "answered", PostOK(w)'
  PROVE  FedIInv'
<1>1. FedTypes /\ Keys
  BY DEF FedIInv, OnePost, Keys, FedTypes
<1>2. ASSUME NEW v \in Federation!Posts PROVE PostOK(v)'
  <2>1. CASE v = w
    BY <2>1
  <2>2. CASE v # w
    <3>1. SamePost(v) /\ PostOK(v)
      <4>1. v[1] \in Deliveries
        BY PostsArePairs
      <4>2. tries[v[1]] \in Nat
        BY <1>1, <4>1 DEF FedTypes
      <4> QED
        BY <2>2, <4>2 DEF OnePost, SamePost, FedIInv
    <3> QED
      BY <1>1, <3>1, PostStays
  <2> QED
    BY <2>1, <2>2
<1>3. ASSUME NEW d \in Deliveries PROVE DeliveryOK(d)'
  <2>1. DeliveryOK(d) /\ SameDelivery(d)
    BY DEF FedIInv, OnePost, SameDelivery
  <2>2. ASSUME tries[d] \in 1 .. MaxTries, posts[<<d, tries[d]>>] = "answered"
        PROVE  /\ posts'[<<d, tries[d]>>] = "answered"
               /\ fedStatus'[<<d, tries[d]>>] = fedStatus[<<d, tries[d]>>]
    <3>1. <<d, tries[d]>> \in Federation!Posts \ {w}
      BY <2>2, PostsArePairs
    <3> QED
      BY <2>2, <3>1 DEF OnePost
  <2> QED
    BY <1>1, <2>1, <2>2, DeliveryStays
<1> QED
  BY <1>2, <1>3 DEF FedIInv

LEMMA FederationStep == FedIInv /\ [Federation!Next]_(Federation!vars) => FedIInv'
<1> SUFFICES ASSUME FedIInv, [Federation!Next]_(Federation!vars) PROVE FedIInv'
  OBVIOUS
<1>0. FedTypes /\ (\A w \in Federation!Posts : PostOK(w)) /\ \A d \in Deliveries : DeliveryOK(d)
  BY DEF FedIInv
<1>1. ASSUME NEW d \in Deliveries, Federation!Deliver(d) PROVE FedIInv'
  <2>1. PICK n \in Nat : n = tries[d] + 1
    BY <1>0, FedConstants DEF FedTypes
  <2>2. PICK w \in Federation!Posts : w = <<d, n>> /\ n \in 1 .. MaxTries /\ tries[d] < n
    <3>1. tries[d] < MaxTries /\ tries[d] \in 0 .. MaxTries
      BY <1>0, <1>1 DEF Federation!Deliver, FedTypes
    <3>2. n \in 1 .. MaxTries /\ tries[d] < n
      BY <2>1, <3>1, FedConstants
    <3> QED
      BY <3>2, PostsArePairs
  <2>3. /\ fedPc[d] \in {"idle", "backoff"} /\ tries' = [tries EXCEPT ![d] = n] /\ tries'[d] = n
        /\ actor' = [actor EXCEPT ![d] = IF @ = None THEN keyFile ELSE @]
        /\ fedPc' = [fedPc EXCEPT ![d] = "posted"]
        /\ UNCHANGED <<shape, proxy, keyFile, fedReply, fetched, fedStatus, delivered>>
    BY <1>0, <1>1, <2>1 DEF Federation!Deliver, FedTypes
  <2>4. posts' = posts \/ posts' = [posts EXCEPT ![w] = "arrived"]
    BY <1>1, <2>2, <2>3 DEF Federation!Deliver
  <2>5. signature' = [signature EXCEPT ![w] = Federation!SignHeaders(d)]
    BY <1>1, <2>2, <2>3 DEF Federation!Deliver
  <2>6. FedTypes'
    BY <1>0, <2>2, <2>3, <2>4, <2>5, FedConstants DEF FedTypes, Stages
  <2>7. Keys
    BY <1>0, <2>3 DEF Keys, FedTypes
  <2>8. posts[w] = "none"
    <3>1. ~(w[2] <= tries[w[1]])
      BY <1>0, <2>2, PostsArePairs, FedConstants DEF FedTypes
    <3> QED
      BY <1>0, <3>1 DEF PostOK, SignedOK
  <2>9. actor'[d] \in Nat /\ (actor[d] # None => actor'[d] = actor[d]) /\ (actor[d] = None => actor'[d] = keyFile)
    BY <1>0, <2>3 DEF FedTypes
  <2>10. ASSUME NEW v \in Federation!Posts PROVE PostOK(v)'
    <3>1. CASE v = w
      <4>1. fetched'[w] = None /\ fedStatus'[w] = None /\ w \notin delivered'
        BY <1>0, <2>3, <2>8 DEF PostOK
      <4>2. posts'[w] \in {"none", "arrived"}
        BY <1>0, <2>4, <2>8 DEF FedTypes
      <4>3. SignedOK(w)'
        <5>1. w[1] = d /\ w[2] = n
          BY <2>2
        <5>2. signature'[w] = Federation!SignHeaders(d)
          BY <1>0, <2>5 DEF FedTypes
        <5>3. /\ signature'[w].target = IF shape[d].query THEN "path?query" ELSE "path"
              /\ signature'[w].host = "inbox" /\ signature'[w].digest = "as sent"
              /\ signature'[w].key = actor'[d]
          <6>1. PICK target, key : /\ target = IF shape[d].query THEN "path?query" ELSE "path"
                                   /\ key = actor'[d]
            OBVIOUS
          <6>2. signature'[w] = [target |-> target, host |-> "inbox", digest |-> "as sent", key |-> key]
            BY <5>2, <6>1 DEF Federation!SignHeaders
          <6>3. /\ signature'[w].target = target /\ signature'[w].host = "inbox"
                /\ signature'[w].digest = "as sent" /\ signature'[w].key = key
            <7>1. PICK m : m = signature'[w]
              OBVIOUS
            <7>2. m = [target |-> target, host |-> "inbox", digest |-> "as sent", key |-> key]
              BY <6>2, <7>1
            <7>3. m.target = target /\ m.host = "inbox" /\ m.digest = "as sent" /\ m.key = key
              BY <7>2
            <7> QED
              BY <7>1, <7>3
          <6> QED
            BY <6>1, <6>3
        <5>4. w[2] <= tries'[d]
          BY <2>1, <2>3, <5>1
        <5> QED
          BY <2>3, <2>9, <5>1, <5>3, <5>4 DEF SignedOK
      <4> QED
        BY <3>1, <4>1, <4>2, <4>3, FedConstants DEF PostOK
    <3>2. CASE v # w
      <4>1. v[1] \in Deliveries /\ PostOK(v)
        BY <1>0, PostsArePairs
      <4>2. posts'[v] = posts[v] /\ signature'[v] = signature[v]
        BY <1>0, <2>4, <2>5, <3>2 DEF FedTypes
      <4>3. posts[v] # "none" => actor[v[1]] \in Nat
        BY <4>1 DEF PostOK, SignedOK
      <4>4. posts[v] # "none" => actor'[v[1]] = actor[v[1]]
        BY <1>0, <2>3, <4>1, <4>3, FedConstants DEF FedTypes
      <4>5. tries[v[1]] <= tries'[v[1]]
        BY <1>0, <2>2, <2>3, <4>1, FedConstants DEF FedTypes
      <4>6. SamePost(v)
        BY <2>3, <4>2, <4>4, <4>5 DEF SamePost
      <4> QED
        BY <1>0, <2>6, <2>7, <4>1, <4>6, PostStays
    <3> QED
      BY <3>1, <3>2
  <2>11. ASSUME NEW e \in Deliveries PROVE DeliveryOK(e)'
    <3>1. CASE e = d
      <4>1. fedPc'[d] = "posted" /\ fedReply'[d] = fedReply[d]
        BY <1>0, <2>3 DEF FedTypes
      <4>2. fedReply[d] = None
        BY <1>0, <2>3 DEF DeliveryOK
      <4>3. actor'[d] <= keyFile'
        <5>1. CASE actor[d] = None
          BY <1>0, <2>3, <2>9, <5>1 DEF FedTypes
        <5>2. CASE actor[d] # None
          BY <1>0, <2>3, <2>9, <5>2 DEF DeliveryOK
        <5> QED
          BY <5>1, <5>2
      <4> QED
        BY <2>2, <2>3, <3>1, <4>1, <4>2, <4>3 DEF DeliveryOK
    <3>2. CASE e # d
      <4>1. SameDelivery(e) /\ DeliveryOK(e)
        BY <1>0, <2>3, <3>2 DEF SameDelivery, FedTypes
      <4>2. ASSUME tries[e] \in 1 .. MaxTries, posts[<<e, tries[e]>>] = "answered"
            PROVE  /\ posts'[<<e, tries[e]>>] = "answered"
                   /\ fedStatus'[<<e, tries[e]>>] = fedStatus[<<e, tries[e]>>]
        <5>1. <<e, tries[e]>> \in Federation!Posts \ {w}
          BY <2>8, <4>2, PostsArePairs
        <5> QED
          BY <1>0, <2>3, <2>4, <4>2, <5>1 DEF FedTypes
      <4> QED
        BY <1>0, <2>7, <4>1, <4>2, DeliveryStays
    <3> QED
      BY <3>1, <3>2
  <2> QED
    BY <2>6, <2>10, <2>11 DEF FedIInv
<1>2. ASSUME UNCHANGED <<shape, proxy, tries, actor, signature, posts, fetched, fedStatus, delivered>>,
             keyFile' \in Nat, keyFile <= keyFile',
             DOMAIN fedPc' = Deliveries, DOMAIN fedReply' = Deliveries,
             \A d \in Deliveries : SameDelivery(d) \/ DeliveryOK(d)'
      PROVE  FedIInv'
  <2>1. FedTypes' /\ Keys
    BY <1>0, <1>2 DEF FedTypes, Keys
  <2>2. ASSUME NEW w \in Federation!Posts PROVE PostOK(w)'
    <3>1. w[1] \in Deliveries
      BY PostsArePairs
    <3>2. SamePost(w) /\ PostOK(w)
      BY <1>0, <1>2, <3>1 DEF SamePost, FedTypes
    <3> QED
      BY <1>0, <2>1, <3>2, PostStays
  <2>3. ASSUME NEW d \in Deliveries PROVE DeliveryOK(d)'
    <3>1. CASE SameDelivery(d)
      BY <1>0, <1>2, <2>1, <3>1, DeliveryStays
    <3> QED
      BY <1>2, <3>1
  <2> QED
    BY <2>1, <2>2, <2>3 DEF FedIInv
<1>3. ASSUME NEW d \in Deliveries, Federation!Return(d) PROVE FedIInv'
  <2>1. /\ posts[<<d, tries[d]>>] = "answered"
        /\ fedPc[d] = "posted" /\ fedReply' = [fedReply EXCEPT ![d] = fedStatus[<<d, tries[d]>>]]
        /\ fedPc' = [fedPc EXCEPT ![d] = "returned"]
        /\ UNCHANGED <<shape, proxy, keyFile, actor, tries, signature, posts, fetched, fedStatus, delivered>>
    BY <1>3 DEF Federation!Return, Federation!Last, Federation!receiver
  <2>2. \A e \in Deliveries \ {d} : SameDelivery(e)
    BY <1>0, <2>1 DEF SameDelivery, FedTypes
  <2>3. DeliveryOK(d)'
    <3>1. fedPc'[d] = "returned" /\ fedReply'[d] = fedStatus[<<d, tries[d]>>] /\ DeliveryOK(d)
      BY <1>0, <2>1 DEF FedTypes
    <3> QED
      BY <2>1, <3>1 DEF DeliveryOK
  <2> QED
    BY <1>0, <1>2, <2>1, <2>2, <2>3 DEF FedTypes
<1>4. ASSUME NEW d \in Deliveries, Federation!NoAnswer(d) PROVE FedIInv'
  <2>1. PICK to \in {"backoff", "raised"} : fedPc' = [fedPc EXCEPT ![d] = to]
    BY <1>4 DEF Federation!NoAnswer
  <2>2. /\ fedPc[d] = "posted"
        /\ UNCHANGED <<shape, proxy, keyFile, actor, tries, fedReply, signature, posts, fetched, fedStatus, delivered>>
    BY <1>4 DEF Federation!NoAnswer, Federation!receiver
  <2>3. \A e \in Deliveries \ {d} : SameDelivery(e)
    BY <1>0, <2>1, <2>2 DEF SameDelivery, FedTypes
  <2>4. fedPc'[d] = to
    BY <1>0, <2>1 DEF FedTypes
  <2>5. DeliveryOK(d)'
    BY <1>0, <2>1, <2>2, <2>4 DEF DeliveryOK
  <2> QED
    BY <1>0, <1>2, <2>1, <2>2, <2>3, <2>5 DEF FedTypes
<1>5. CASE Federation!Rotate
  <2>1. /\ keyFile' = keyFile + 1 /\ keyFile \in Nat
        /\ UNCHANGED <<shape, proxy, actor, fedPc, tries, fedReply, signature, posts, fetched, fedStatus, delivered>>
    BY <1>0, <1>5 DEF Federation!Rotate, Federation!sender, Federation!receiver, FedTypes
  <2>2. \A e \in Deliveries : SameDelivery(e)
    BY <2>1 DEF SameDelivery
  <2> QED
    BY <1>0, <1>2, <2>1, <2>2 DEF FedTypes
<1>6. ASSUME NEW w \in Federation!Posts, NEW to \in Stages, posts[w] # "answered",
             UNCHANGED <<shape, proxy, keyFile, actor, fedPc, tries, fedReply, signature>>,
             posts' = [posts EXCEPT ![w] = to],
             fetched' = fetched \/ fetched' = [fetched EXCEPT ![w] = keyFile],
             fedStatus' = fedStatus \/ \E code \in Nat : fedStatus' = [fedStatus EXCEPT ![w] = code],
             delivered' = delivered \/ delivered' = delivered \cup {w}, PostOK(w)'
      PROVE  FedIInv'
  <2>1. FedTypes'
    BY <1>0, <1>6 DEF FedTypes
  <2>2. OnePost(w)
    BY <1>0, <1>6 DEF OnePost, FedTypes
  <2> QED
    BY <1>6, <2>1, <2>2, EndpointStep
<1>7. ASSUME NEW w \in Federation!Posts, NEW code \in Nat, posts[w] \notin {"none", "answered"},
             UNCHANGED <<shape, proxy, keyFile, actor, fedPc, tries, fedReply, signature, fetched>>,
             Federation!Answer(w, code), delivered' = delivered \/ delivered' = delivered \cup {w},
             code = 202 /\ shape[w[1]].handler => w \in delivered', w \in delivered' => VerifiedOK(w),
             code = 401 => Cause(w)
      PROVE  FedIInv'
  <2>1. posts' = [posts EXCEPT ![w] = "answered"] /\ fedStatus' = [fedStatus EXCEPT ![w] = code]
    BY <1>7 DEF Federation!Answer
  <2>2. posts'[w] = "answered" /\ fedStatus'[w] = code /\ fetched'[w] = fetched[w]
    BY <1>0, <1>7, <2>1 DEF FedTypes
  <2>3. SignedOK(w) /\ (fetched[w] # None => fetched[w] <= keyFile)
    BY <1>0, <1>7 DEF PostOK
  <2>4. PostOK(w)'
    BY <1>7, <2>2, <2>3 DEF PostOK, SignedOK, VerifiedOK, Cause
  <2>5. "answered" \in Stages
    BY DEF Stages
  <2> QED
    BY <1>6, <1>7, <2>1, <2>4, <2>5
<1>8. ASSUME NEW w \in Federation!Posts, NEW to \in {"dispatch", "handling"},
             posts[w] \in {"verify", "dispatch"}, posts' = [posts EXCEPT ![w] = to],
             UNCHANGED <<shape, proxy, keyFile, actor, fedPc, tries, fedReply, signature, fetched,
                         fedStatus, delivered>>, VerifiedOK(w)
      PROVE  FedIInv'
  <2>1. posts'[w] = to /\ to \in Stages
    BY <1>0, <1>8 DEF FedTypes, Stages
  <2>2. PostOK(w)
    BY <1>0
  <2>3. PostOK(w)'
    BY <1>8, <2>1, <2>2 DEF PostOK, SignedOK, VerifiedOK, Cause
  <2> QED
    BY <1>6, <1>8, <2>1, <2>3
<1>9. ASSUME NEW w \in Federation!Posts, Federation!FetchKey(w) PROVE FedIInv'
  <2>1. /\ posts[w] = "arrived" /\ fetched[w] = None /\ SignedOK(w) /\ w \notin delivered /\ fedStatus[w] = None
        /\ UNCHANGED <<shape, proxy, keyFile, actor, fedPc, tries, fedReply, signature, delivered>>
    BY <1>0, <1>9 DEF Federation!FetchKey, Federation!sender, PostOK
  <2>2. CASE fetched' = [fetched EXCEPT ![w] = keyFile] /\ posts' = [posts EXCEPT ![w] = "verify"] /\ UNCHANGED fedStatus
    <3>1. posts'[w] = "verify" /\ fetched'[w] = keyFile /\ keyFile \in Nat /\ keyFile <= keyFile
      BY <1>0, <2>2 DEF FedTypes
    <3>2. "verify" \in Stages
      BY DEF Stages
    <3>3. PostOK(w)'
      <4>1. SignedOK(w)'
        BY <2>1 DEF SignedOK
      <4>2. fedStatus'[w] = None /\ w \notin delivered' /\ fetched'[w] <= keyFile'
        BY <2>1, <2>2, <3>1
      <4> QED
        BY <3>1, <4>1, <4>2, FedConstants DEF PostOK
    <3> QED
      BY <1>6, <2>1, <2>2, <3>2, <3>3
  <2>3. ASSUME NEW code \in {401, 500}, Federation!Answer(w, code), UNCHANGED fetched PROVE FedIInv'
    <3>1. Cause(w)
      BY <2>1 DEF Cause
    <3> QED
      BY <1>7, <2>1, <2>3, <3>1
  <2> QED
    BY <1>9, <2>2, <2>3 DEF Federation!FetchKey
<1>10. ASSUME NEW w \in Federation!Posts, Federation!VerifySignature(w) PROVE FedIInv'
  <2>1. /\ posts[w] = "verify" /\ PostOK(w) /\ SignedOK(w) /\ w \notin delivered
        /\ UNCHANGED <<shape, proxy, keyFile, actor, fedPc, tries, fedReply, signature, fetched, delivered>>
    BY <1>0, <1>10 DEF Federation!VerifySignature, Federation!sender, PostOK
  <2>2. CASE Federation!Verifies(w)
    <3>1. VerifiedOK(w)
      <4>1. signature[w].key = actor[w[1]] /\ signature[w].digest = "as sent"
        BY <2>1 DEF SignedOK
      <4> QED
        BY <2>2, <4>1, NoneIsNoDigest DEF Federation!Verifies, VerifiedOK
    <3> QED
      BY <1>8, <1>10, <2>1, <2>2, <3>1 DEF Federation!VerifySignature
  <2>3. CASE ~Federation!Verifies(w)
    <3>1. Cause(w)
      <4>1. SUFFICES ASSUME ~Cause(w) PROVE FALSE
        OBVIOUS
      <4>2. w[1] \in Deliveries /\ shape[w[1]].query = FALSE /\ proxy = "nothing"
        BY <1>0, <4>1, PostsArePairs DEF Cause, FedTypes
      <4>3. fetched[w] \in Nat /\ fetched[w] <= keyFile /\ ~(keyFile > 0) /\ keyFile \in Nat
        BY <1>0, <2>1, <4>1 DEF Cause, FedTypes, PostOK
      <4>4. actor[w[1]] \in Nat /\ actor[w[1]] <= keyFile
        BY <1>0, <2>1, <4>2, FedConstants DEF SignedOK, DeliveryOK
      <4>5. actor[w[1]] = fetched[w]
        BY <4>3, <4>4
      <4> QED
        BY <2>1, <2>3, <4>2, <4>5 DEF SignedOK, Federation!Verifies
    <3> QED
      BY <1>7, <1>10, <2>1, <2>3, <3>1 DEF Federation!VerifySignature
  <2> QED
    BY <2>2, <2>3
<1>11. ASSUME NEW w \in Federation!Posts, Federation!Dispatch(w) PROVE FedIInv'
  <2>1. /\ posts[w] = "dispatch" /\ VerifiedOK(w) /\ w \notin delivered
        /\ UNCHANGED <<shape, proxy, keyFile, actor, fedPc, tries, fedReply, signature, fetched, delivered>>
    BY <1>0, <1>11 DEF Federation!Dispatch, Federation!sender, PostOK
  <2>2. CASE shape[w[1]].handler
    BY <1>8, <1>11, <2>1, <2>2 DEF Federation!Dispatch
  <2>3. CASE ~shape[w[1]].handler
    BY <1>7, <1>11, <2>1, <2>3 DEF Federation!Dispatch
  <2> QED
    BY <2>2, <2>3
<1>12. ASSUME NEW w \in Federation!Posts, Federation!Handle(w) PROVE FedIInv'
  <2>1. /\ posts[w] = "handling" /\ VerifiedOK(w)
        /\ UNCHANGED <<shape, proxy, keyFile, actor, fedPc, tries, fedReply, signature, fetched>>
    BY <1>0, <1>12 DEF Federation!Handle, Federation!sender, PostOK
  <2>2. CASE delivered' = delivered \cup {w} /\ Federation!Answer(w, 202)
    BY <1>7, <2>1, <2>2
  <2>3. CASE Federation!Answer(w, 500) /\ UNCHANGED delivered
    BY <1>7, <2>1, <2>3
  <2> QED
    BY <1>12, <2>2, <2>3 DEF Federation!Handle
<1>13. CASE UNCHANGED Federation!vars
  <2>1. \A d \in Deliveries : SameDelivery(d)
    BY <1>13 DEF Federation!vars, SameDelivery
  <2> QED
    BY <1>0, <1>2, <1>13, <2>1 DEF Federation!vars, FedTypes
<1> QED
  BY <1>1, <1>3, <1>4, <1>5, <1>9, <1>10, <1>11, <1>12, <1>13 DEF Federation!Next, Federation!Endpoint

LEMMA FederationIsTrue == FedIInv => DeliveriesAreTrue
<1> SUFFICES ASSUME FedIInv, NEW d \in Deliveries
             PROVE  /\ fedReply[d] = 202 /\ shape[d].handler => <<d, tries[d]>> \in delivered
                    /\ fedReply[d] = 401 => shape[d].query \/ proxy # "nothing" \/ keyFile > 0
                                              \/ fetched[<<d, tries[d]>>] = None
                    /\ Federation!Handled(d) # {} => proxy # "body"
                    /\ \A w \in Federation!Handled(d) : fetched[w] = actor[d]
  BY DEF DeliveriesAreTrue, Federation!DeliveriesAreTrue, Federation!Last
<1>1. DeliveryOK(d) /\ \A w \in Federation!Posts : PostOK(w)
  BY DEF FedIInv
<1>2. ASSUME fedReply[d] # None
      PROVE  /\ <<d, tries[d]>> \in Federation!Posts /\ <<d, tries[d]>>[1] = d
             /\ fedReply[d] = fedStatus[<<d, tries[d]>>]
  BY <1>1, <1>2, PostsArePairs DEF DeliveryOK
<1>3. fedReply[d] = 202 /\ shape[d].handler => <<d, tries[d]>> \in delivered
  BY <1>1, <1>2, FedConstants DEF PostOK
<1>4. fedReply[d] = 401 => shape[d].query \/ proxy # "nothing" \/ keyFile > 0
                            \/ fetched[<<d, tries[d]>>] = None
  BY <1>1, <1>2, FedConstants DEF PostOK, Cause
<1>5. ASSUME NEW w \in Federation!Handled(d) PROVE fetched[w] = actor[d] /\ proxy # "body"
  BY <1>1, <1>5 DEF Federation!Handled, FedIInv, FedTypes, PostOK, VerifiedOK
<1> QED
  BY <1>3, <1>4, <1>5

(* activitypub/delivery.py, signing.py and inbox.py, whatever the network    *)
(* loses and however often a key is replaced: a 202 means that the handler   *)
(* ran, a 401 has a cause, and what is handled is what its actor signed.     *)
THEOREM AnswersAreTrue == Federation!Spec => []DeliveriesAreTrue
<1> QED
  BY FedInitOK, FederationStep, FederationIsTrue, PTL DEF Federation!Spec

-----------------------------------------------------------------------------
(* A number of elements is counted one by one. *)
LEMMA WithOneMore ==
  ASSUME NEW S, NEW x, IsFiniteSet(S), x \notin S, NEW n \in Nat, Cardinality(S) = n
  PROVE  IsFiniteSet(S \cup {x}) /\ Cardinality(S \cup {x}) = n + 1
BY FS_AddElement

(* The feedback router. The ids of labels are theirs alone; a submission     *)
(* holds ids of labels of the names it wants; an issue of its own is there   *)
(* when it was answered with one, or may be when the answer is an error.     *)
FeedNames == {"beta-feedback", "needs-triage", "bug", "question"}
FeedLabels == [name : FeedNames, id : Nat]
FeedIssues == [by : Submissions, labels : SUBSET FeedLabels]

LabelsOK ==
  /\ labels \subseteq FeedLabels /\ IsFiniteSet(labels)
  /\ \A l \in labels : l.id \in 1 .. Cardinality(labels)
  /\ \A l, m \in labels : l.id = m.id => l = m

\* The labels of an issue of s.
WholeFor(s, ls) ==
  /\ Cardinality(ls) = 3
  /\ {l.name : l \in ls} = {Feedback!LabelNames(s)[i] : i \in 1 .. 3}

SubmissionOK(s) ==
  /\ existing[s] \subseteq labels
  /\ ids[s] \in Seq(Nat) /\ Len(ids[s]) <= 3
  /\ \A i \in 1 .. Len(ids[s]) : \E l \in labels : l.id = ids[s][i] /\ l.name = Feedback!LabelNames(s)[i]
  /\ feedPc[s] = "issue" => Len(ids[s]) = 3
  /\ feedStatus[s] # None => feedPc[s] = "answered"
  /\ \A n \in 1 .. Len(issues) : issues[n].by = s => feedStatus[s] \in {200, 500}
  /\ feedStatus[s] = 200 => /\ number[s] \in 1 .. Len(issues) /\ issues[number[s]].by = s
                            /\ WholeFor(s, issues[number[s]].labels)

FeedTypes ==
  /\ issues \in Seq(FeedIssues)
  /\ DOMAIN existing = Submissions /\ DOMAIN ids = Submissions /\ DOMAIN feedPc = Submissions
  /\ DOMAIN feedStatus = Submissions /\ DOMAIN number = Submissions

FeedIInv == FeedTypes /\ LabelsOK /\ \A s \in Submissions : SubmissionOK(s)

LEMMA FeedCardinality == \A S : Feedback!Cardinality(S) = Cardinality(S)
BY DEF Feedback!Cardinality, Cardinality

LEMMA FeedNone == None \notin Nat
BY ClientsAssumption DEF Feedback!ConstantsOK

LEMMA NamesOfLabels == \A s : /\ Feedback!LabelNames(s)[1] = "beta-feedback"
                              /\ Feedback!LabelNames(s)[2] = "needs-triage"
                              /\ Feedback!LabelNames(s)[3] \in {"bug", "question"}
BY DEF Feedback!LabelNames

LEMMA FeedInitOK == Feedback!Init => FeedIInv
<1> SUFFICES ASSUME Feedback!Init PROVE FeedIInv
  OBVIOUS
<1>1. <<>> \in Seq(Nat) /\ <<>> \in Seq(FeedIssues) /\ Len(<<>>) = 0
  OBVIOUS
<1>2. LabelsOK
  <2>1. CASE labels = {}
    BY <2>1, FS_EmptySet DEF LabelsOK
  <2>2. CASE labels = {[name |-> "needs-triage", id |-> 1]}
    <3>1. PICK l : l = [name |-> "needs-triage", id |-> 1]
      OBVIOUS
    <3>2. l \in FeedLabels /\ l.id = 1 /\ labels = {l}
      <4>1. "needs-triage" \in FeedNames /\ 1 \in Nat
        BY DEF FeedNames
      <4>2. [name |-> "needs-triage", id |-> 1] \in FeedLabels
        BY <4>1 DEF FeedLabels
      <4>3. l \in FeedLabels
        BY <3>1, <4>2
      <4> QED
        BY <2>2, <3>1, <4>3
    <3>3. IsFiniteSet(labels) /\ Cardinality(labels) = 1
      BY <3>2, FS_Singleton
    <3> QED
      BY <3>2, <3>3 DEF LabelsOK
  <2> QED
    BY <2>1, <2>2 DEF Feedback!Init
<1>3. FeedTypes
  BY <1>1 DEF Feedback!Init, FeedTypes
<1>4. ASSUME NEW s \in Submissions PROVE SubmissionOK(s)
  <2>1. existing[s] = {} /\ ids[s] = <<>> /\ feedPc[s] = "idle" /\ feedStatus[s] = None /\ issues = <<>>
    BY DEF Feedback!Init
  <2> QED
    BY <1>1, <2>1, FeedNone DEF SubmissionOK
<1> QED
  BY <1>2, <1>3, <1>4 DEF FeedIInv

(* A label that is new has an id of its own.                                 *)
LEMMA LabelAdded ==
  ASSUME LabelsOK, NEW l, l.id = Cardinality(labels) + 1, l \in FeedLabels, labels' = labels \cup {l}
  PROVE  LabelsOK'
<1>1. Cardinality(labels) \in Nat
  BY FS_CardinalityType DEF LabelsOK
<1>2. l \notin labels
  BY <1>1 DEF LabelsOK
<1>3. IsFiniteSet(labels') /\ Cardinality(labels') = Cardinality(labels) + 1
  BY <1>2, FS_AddElement DEF LabelsOK
<1>4. PICK n \in Nat : n = Cardinality(labels)
  BY <1>1
<1>5. \A m \in labels' : m = l \/ (m \in labels /\ m.id \in 1 .. n)
  BY <1>4 DEF LabelsOK
<1>6. \A m \in labels' : m.id \in 1 .. n + 1
  BY <1>4, <1>5
<1>7. \A m, k \in labels' : m.id = k.id => m = k
  BY <1>4, <1>5 DEF LabelsOK
<1> QED
  BY <1>3, <1>4, <1>6, <1>7 DEF LabelsOK

(* What a step of one submission leaves to the others.                       *)
SameSubmission(s) ==
  /\ existing'[s] = existing[s] /\ ids'[s] = ids[s] /\ feedPc'[s] = feedPc[s]
  /\ feedStatus'[s] = feedStatus[s] /\ number'[s] = number[s]
DomainsStay ==
  /\ DOMAIN existing' = Submissions /\ DOMAIN ids' = Submissions /\ DOMAIN feedPc' = Submissions
  /\ DOMAIN feedStatus' = Submissions /\ DOMAIN number' = Submissions

LEMMA OneSubmission ==
  ASSUME FeedIInv, NEW s \in Submissions, type' = type, DomainsStay, LabelsOK', labels \subseteq labels',
         issues' = issues \/ (\E x \in FeedIssues : x.by = s /\ issues' = Append(issues, x)),
         \A k \in Submissions \ {s} : SameSubmission(k), SubmissionOK(s)'
  PROVE  FeedIInv'
<1>1. issues \in Seq(FeedIssues) /\ Len(issues) \in Nat
  BY LenProperties DEF FeedIInv, FeedTypes
<1>2. /\ issues' \in Seq(FeedIssues) /\ Len(issues') \in Nat /\ Len(issues) <= Len(issues')
      /\ \A n \in 1 .. Len(issues) : issues'[n] = issues[n]
      /\ \A n \in 1 .. Len(issues') : n \in 1 .. Len(issues) \/ issues'[n].by = s
  <2>1. CASE issues' = issues
    BY <1>1, <2>1
  <2>2. ASSUME NEW x \in FeedIssues, x.by = s, issues' = Append(issues, x)
        PROVE  /\ issues' \in Seq(FeedIssues) /\ Len(issues') \in Nat /\ Len(issues) <= Len(issues')
               /\ \A n \in 1 .. Len(issues) : issues'[n] = issues[n]
               /\ \A n \in 1 .. Len(issues') : n \in 1 .. Len(issues) \/ issues'[n].by = s
    <3>1. /\ issues' \in Seq(FeedIssues) /\ Len(issues') = Len(issues) + 1
          /\ \A n \in 1 .. Len(issues) : issues'[n] = issues[n]
          /\ issues'[Len(issues) + 1] = x
      BY <1>1, <2>2, AppendProperties
    <3>2. PICK n \in Nat : n = Len(issues)
      BY <1>1
    <3>3. Len(issues') = n + 1 /\ n + 1 \in Nat /\ n <= n + 1 /\ \A i \in 1 .. n + 1 : i \in 1 .. n \/ i = n + 1
      BY <3>1, <3>2
    <3> QED
      BY <2>2, <3>1, <3>2, <3>3
  <2> QED
    BY <2>1, <2>2
<1>3. ASSUME NEW k \in Submissions, k # s PROVE SubmissionOK(k)'
  <2>1. SubmissionOK(k) /\ SameSubmission(k)
    BY <1>3 DEF FeedIInv
  <2>2. Feedback!LabelNames(k)' = Feedback!LabelNames(k)
    BY DEF Feedback!LabelNames
  <2>3. WholeFor(k, issues[number[k]].labels)' <=> WholeFor(k, issues'[number'[k]].labels)
    BY <2>2 DEF WholeFor
  <2>4. \A n \in 1 .. Len(issues') : issues'[n].by = k => n \in 1 .. Len(issues) /\ issues[n].by = k
    BY <1>2, <1>3
  <2>5. number[k] \in 1 .. Len(issues) => number'[k] \in 1 .. Len(issues') /\ issues'[number'[k]] = issues[number[k]]
    BY <1>1, <1>2, <2>1 DEF SameSubmission
  <2>6. feedStatus'[k] = 200 => /\ number'[k] \in 1 .. Len(issues') /\ issues'[number'[k]].by = k
                                /\ WholeFor(k, issues'[number'[k]].labels)
    BY <2>1, <2>5 DEF SubmissionOK, SameSubmission
  <2>7. \A n \in 1 .. Len(issues') : issues'[n].by = k => feedStatus'[k] \in {200, 500}
    BY <2>1, <2>4 DEF SubmissionOK, SameSubmission
  <2>8. \A i \in 1 .. Len(ids'[k]) : \E l \in labels' : l.id = ids'[k][i] /\ l.name = Feedback!LabelNames(k)[i]
    BY <2>1 DEF SubmissionOK, SameSubmission
  <2>9. existing'[k] \subseteq labels' /\ ids'[k] \in Seq(Nat) /\ Len(ids'[k]) <= 3
    BY <2>1 DEF SubmissionOK, SameSubmission
  <2>10. /\ feedPc'[k] = "issue" => Len(ids'[k]) = 3
         /\ feedStatus'[k] # None => feedPc'[k] = "answered"
    BY <2>1 DEF SubmissionOK, SameSubmission
  <2> QED
    BY <2>2, <2>3, <2>6, <2>7, <2>8, <2>9, <2>10 DEF SubmissionOK
<1> QED
  BY <1>2, <1>3 DEF FeedIInv, FeedTypes, DomainsStay

(* The labels of the issue that a submission with three ids files.           *)
LEMMA ThreeLabels ==
  ASSUME LabelsOK, NEW s \in Submissions, SubmissionOK(s), Len(ids[s]) = 3
  PROVE  Feedback!Issue(s).labels \subseteq labels /\ WholeFor(s, Feedback!Issue(s).labels)
<1> DEFINE N(i) == Feedback!LabelNames(s)[i]
           ls == {l \in labels : \E i \in 1 .. 3 : ids[s][i] = l.id}
<1>1. Feedback!Issue(s).labels = ls
  BY DEF Feedback!Issue
<1>2. /\ N(1) = "beta-feedback" /\ N(2) = "needs-triage" /\ N(3) \in {"bug", "question"}
  BY NamesOfLabels
<1>3. \A i \in 1 .. 3 : \E l \in labels : l.id = ids[s][i] /\ l.name = N(i)
  BY DEF SubmissionOK
<1> HIDE DEF N
<1>4. PICK l1 \in labels : l1.id = ids[s][1] /\ l1.name = N(1)
  BY <1>3
<1>5. PICK l2 \in labels : l2.id = ids[s][2] /\ l2.name = N(2)
  BY <1>3
<1>6. PICK l3 \in labels : l3.id = ids[s][3] /\ l3.name = N(3)
  BY <1>3
<1>7. ls = {l1, l2, l3}
  <2>1. ASSUME NEW l \in ls PROVE l \in {l1, l2, l3}
    <3>1. PICK i \in 1 .. 3 : l \in labels /\ ids[s][i] = l.id
      OBVIOUS
    <3>2. l.id = l1.id \/ l.id = l2.id \/ l.id = l3.id
      BY <1>4, <1>5, <1>6, <3>1
    <3> QED
      BY <3>1, <3>2 DEF LabelsOK
  <2>2. 1 \in 1 .. 3 /\ 2 \in 1 .. 3 /\ 3 \in 1 .. 3
    OBVIOUS
  <2>3. l1 \in ls /\ l2 \in ls /\ l3 \in ls
    BY <1>4, <1>5, <1>6, <2>2
  <2> QED
    BY <2>1, <2>3
<1>8. l1 # l2 /\ l1 # l3 /\ l2 # l3
  BY <1>2, <1>4, <1>5, <1>6
<1>9. Cardinality({l1, l2, l3}) = 3
  <2>1. IsFiniteSet({l1}) /\ Cardinality({l1}) = 1
    BY FS_Singleton
  <2>2. IsFiniteSet({l1} \cup {l2}) /\ Cardinality({l1} \cup {l2}) = 1 + 1
    <3>1. l2 \notin {l1}
      BY <1>8
    <3> QED
      BY <2>1, <3>1, WithOneMore
  <2>3. l3 \notin {l1} \cup {l2}
    BY <1>8
  <2>4. Cardinality(({l1} \cup {l2}) \cup {l3}) = 3
    <3>1. Cardinality(({l1} \cup {l2}) \cup {l3}) = (1 + 1) + 1
      BY <2>2, <2>3, WithOneMore
    <3> QED
      BY <3>1
  <2>5. {l1, l2, l3} = ({l1} \cup {l2}) \cup {l3}
    OBVIOUS
  <2> QED
    BY <2>4, <2>5, Zenon
<1>10. {l.name : l \in {l1, l2, l3}} = {N(i) : i \in 1 .. 3}
  <2>1. {l.name : l \in {l1, l2, l3}} = {N(1), N(2), N(3)}
    BY <1>4, <1>5, <1>6
  <2>2. \A i : i \in 1 .. 3 <=> i = 1 \/ i = 2 \/ i = 3
    OBVIOUS
  <2>3. {N(i) : i \in 1 .. 3} = {N(1), N(2), N(3)}
    BY <2>2
  <2> QED
    BY <2>1, <2>3
<1>11. Cardinality(ls) = 3 /\ {l.name : l \in ls} = {N(i) : i \in 1 .. 3}
  BY <1>7, <1>9, <1>10, Zenon
<1>12. WholeFor(s, ls)
  BY <1>11 DEF WholeFor, N
<1> QED
  BY <1>1, <1>12

LEMMA FeedbackStep == FeedIInv /\ [Feedback!Next]_(Feedback!vars) => FeedIInv'
<1> SUFFICES ASSUME FeedIInv, [Feedback!Next]_(Feedback!vars) PROVE FeedIInv'
  OBVIOUS
<1>0. FeedTypes /\ LabelsOK /\ \A s \in Submissions : SubmissionOK(s)
  BY DEF FeedIInv
<1>1. Len(issues) \in Nat /\ issues \in Seq(FeedIssues)
  BY <1>0, LenProperties DEF FeedTypes
\* An answer that files nothing and is not 200.
<1>2. ASSUME NEW s \in Submissions, NEW code \in Nat \ {200}, feedPc[s] # "answered", Feedback!Answer(s, code),
             type' = type, UNCHANGED <<existing, ids, number>>, LabelsOK', labels \subseteq labels',
             \/ issues' = issues
             \/ code = 500 /\ \E x \in FeedIssues : x.by = s /\ issues' = Append(issues, x)
      PROVE  FeedIInv'
  <2>1. feedPc' = [feedPc EXCEPT ![s] = "answered"] /\ feedStatus' = [feedStatus EXCEPT ![s] = code]
    BY <1>2 DEF Feedback!Answer
  <2>2. DomainsStay /\ \A k \in Submissions \ {s} : SameSubmission(k)
    BY <1>0, <1>2, <2>1 DEF FeedTypes, DomainsStay, SameSubmission
  <2>3. feedPc'[s] = "answered" /\ feedStatus'[s] = code
    BY <1>0, <2>1 DEF FeedTypes
  <2>4. SubmissionOK(s) /\ \A n \in 1 .. Len(issues) : issues[n].by # s
    BY <1>0, <1>2, FeedNone DEF SubmissionOK
  <2>5. \A n \in 1 .. Len(issues') : issues'[n].by = s => code = 500
    BY <1>1, <1>2, <2>4, AppendProperties
  <2>6. Feedback!LabelNames(s)' = Feedback!LabelNames(s)
    BY <1>2 DEF Feedback!LabelNames
  <2>7. SubmissionOK(s)'
    BY <1>2, <2>3, <2>4, <2>5, <2>6 DEF SubmissionOK
  <2> QED
    BY <1>2, <2>2, <2>7, OneSubmission
\* A request that leads on: the submission has no answer, hence no issue.
<1>3. ASSUME NEW s \in Submissions, UNCHANGED <<type, number, feedStatus, issues>>, LabelsOK', labels \subseteq labels',
             DomainsStay, \A k \in Submissions \ {s} : SameSubmission(k), feedPc[s] # "answered",
             existing'[s] \subseteq labels', ids'[s] \in Seq(Nat), Len(ids'[s]) <= 3,
             feedPc'[s] = "issue" => Len(ids'[s]) = 3,
             \A i \in 1 .. Len(ids'[s]) : \E l \in labels' : l.id = ids'[s][i] /\ l.name = Feedback!LabelNames(s)[i]
      PROVE  FeedIInv'
  <2>1. SubmissionOK(s) /\ feedStatus[s] = None /\ feedStatus'[s] = None
    BY <1>0, <1>3 DEF SubmissionOK
  <2>2. Feedback!LabelNames(s)' = Feedback!LabelNames(s)
    BY <1>3 DEF Feedback!LabelNames
  <2>3. SubmissionOK(s)'
    BY <1>3, <2>1, <2>2, FeedNone DEF SubmissionOK
  <2> QED
    BY <1>3, <2>3, OneSubmission
<1>4. ASSUME NEW s \in Submissions, Feedback!Submit(s) PROVE FeedIInv'
  <2>1. feedPc[s] = "idle" /\ UNCHANGED <<type, existing, ids, number, labels, issues>>
    BY <1>4 DEF Feedback!Submit, Feedback!config
  <2>2. LabelsOK' /\ labels \subseteq labels'
    BY <1>0, <2>1 DEF LabelsOK
  <2>3. CASE Feedback!Answer(s, 503) \/ Feedback!Answer(s, 403)
    BY <1>2, <2>1, <2>2, <2>3
  <2>4. CASE feedPc' = [feedPc EXCEPT ![s] = "list"] /\ UNCHANGED feedStatus
    <3>1. feedPc'[s] = "list" /\ DomainsStay /\ \A k \in Submissions \ {s} : SameSubmission(k)
      BY <1>0, <2>1, <2>4 DEF FeedTypes, DomainsStay, SameSubmission
    <3> QED
      BY <1>0, <1>3, <2>1, <2>2, <2>4, <3>1 DEF SubmissionOK
  <2> QED
    BY <1>4, <2>3, <2>4 DEF Feedback!Submit
<1>5. ASSUME NEW s \in Submissions, Feedback!ListLabels(s) PROVE FeedIInv'
  <2>1. feedPc[s] = "list" /\ UNCHANGED <<type, ids, number, labels, issues>>
    BY <1>5 DEF Feedback!ListLabels, Feedback!config
  <2>2. LabelsOK' /\ labels \subseteq labels'
    BY <1>0, <2>1 DEF LabelsOK
  <2>3. CASE Feedback!Answer(s, 500) /\ UNCHANGED existing
    BY <1>2, <2>1, <2>2, <2>3
  <2>4. ASSUME NEW shown \in SUBSET labels, existing' = [existing EXCEPT ![s] = shown],
               feedPc' = [feedPc EXCEPT ![s] = "labels"], UNCHANGED feedStatus
        PROVE  FeedIInv'
    <3>1. /\ feedPc'[s] = "labels" /\ existing'[s] = shown
          /\ DomainsStay /\ \A k \in Submissions \ {s} : SameSubmission(k)
      BY <1>0, <2>1, <2>4 DEF FeedTypes, DomainsStay, SameSubmission
    <3> QED
      BY <1>0, <1>3, <2>1, <2>2, <2>4, <3>1 DEF SubmissionOK
  <2> QED
    BY <1>5, <2>3, <2>4 DEF Feedback!ListLabels
\* The next id is that of a label of the name that is wanted next.
<1>6. ASSUME NEW s \in Submissions, NEW l \in labels', l.id \in Nat, l.name = Feedback!Wanted(s),
             feedPc[s] = "labels", Len(ids[s]) < 3, ids' = [ids EXCEPT ![s] = Append(@, l.id)],
             LabelsOK', labels \subseteq labels', UNCHANGED <<type, feedPc, existing, feedStatus, number, issues>>
      PROVE  FeedIInv'
  <2>1. SubmissionOK(s) /\ ids[s] \in Seq(Nat) /\ Len(ids[s]) \in Nat
    BY <1>0, LenProperties DEF SubmissionOK
  <2>2. ids'[s] = Append(ids[s], l.id) /\ DomainsStay /\ \A k \in Submissions \ {s} : SameSubmission(k)
    BY <1>0, <1>6 DEF FeedTypes, DomainsStay, SameSubmission
  <2>3. /\ ids'[s] \in Seq(Nat) /\ Len(ids'[s]) = Len(ids[s]) + 1
        /\ \A i \in 1 .. Len(ids[s]) : ids'[s][i] = ids[s][i]
        /\ ids'[s][Len(ids[s]) + 1] = l.id
    BY <1>6, <2>1, <2>2, AppendProperties
  <2>4. Len(ids'[s]) <= 3
    BY <1>6, <2>1, <2>3
  <2>5. ASSUME NEW i \in 1 .. Len(ids'[s])
        PROVE  \E m \in labels' : m.id = ids'[s][i] /\ m.name = Feedback!LabelNames(s)[i]
    <3>1. i \in 1 .. Len(ids[s]) \/ i = Len(ids[s]) + 1
      BY <2>1, <2>3
    <3>2. CASE i = Len(ids[s]) + 1
      BY <1>6, <2>3, <3>2 DEF Feedback!Wanted
    <3>3. CASE i \in 1 .. Len(ids[s])
      BY <1>6, <2>1, <2>3, <3>3 DEF SubmissionOK
    <3> QED
      BY <3>1, <3>2, <3>3
  <2>6. existing'[s] \subseteq labels' /\ feedPc'[s] # "issue" /\ feedPc[s] # "answered"
    BY <1>6, <2>1 DEF SubmissionOK
  <2> QED
    BY <1>3, <1>6, <2>2, <2>3, <2>4, <2>5, <2>6
<1>7. ASSUME NEW s \in Submissions, Feedback!UseLabel(s) PROVE FeedIInv'
  <2>1. /\ feedPc[s] = "labels" /\ Len(ids[s]) < 3
        /\ UNCHANGED <<type, feedPc, existing, feedStatus, number, labels, issues>>
    BY <1>7 DEF Feedback!UseLabel, Feedback!config
  <2>2. LabelsOK' /\ labels \subseteq labels'
    BY <1>0, <2>1 DEF LabelsOK
  <2>3. PICK l \in existing[s] : l.name = Feedback!Wanted(s) /\ ids' = [ids EXCEPT ![s] = Append(@, l.id)]
    BY <1>7 DEF Feedback!UseLabel, Feedback!Shown
  <2>4. l \in labels' /\ l.id \in Nat
    <3>1. l \in labels
      BY <1>0 DEF SubmissionOK
    <3> QED
      BY <1>0, <2>2, <3>1 DEF LabelsOK, FeedLabels
  <2> QED
    BY <1>6, <2>1, <2>2, <2>3, <2>4
<1>8. ASSUME NEW s \in Submissions, Feedback!CreateLabel(s) PROVE FeedIInv'
  <2>1. /\ feedPc[s] = "labels" /\ Len(ids[s]) < 3 /\ UNCHANGED <<type, existing, number, issues>>
    BY <1>8 DEF Feedback!CreateLabel, Feedback!config
  <2>2. PICK l : l = Feedback!Fresh(s)
    OBVIOUS
  <2>3. l.name = Feedback!Wanted(s) /\ l.id = Cardinality(labels) + 1 /\ l.id \in Nat /\ l \in FeedLabels
    <3>1. PICK nm, n : nm = Feedback!Wanted(s) /\ n = Cardinality(labels) + 1
      OBVIOUS
    <3>2. l = [name |-> nm, id |-> n]
      BY <2>2, <3>1, FeedCardinality DEF Feedback!Fresh
    <3>3. n \in Nat
      BY <1>0, <3>1, FS_CardinalityType DEF LabelsOK
    <3>4. nm \in FeedNames
      <4>1. Len(ids[s]) \in Nat
        BY <1>0, LenProperties DEF SubmissionOK
      <4>2. Len(ids[s]) + 1 = 1 \/ Len(ids[s]) + 1 = 2 \/ Len(ids[s]) + 1 = 3
        BY <2>1, <4>1
      <4>3. /\ Feedback!LabelNames(s)[1] \in FeedNames /\ Feedback!LabelNames(s)[2] \in FeedNames
            /\ Feedback!LabelNames(s)[3] \in FeedNames
        BY NamesOfLabels DEF FeedNames
      <4> QED
        BY <3>1, <4>2, <4>3 DEF Feedback!Wanted
    <3> QED
      BY <3>1, <3>2, <3>3, <3>4 DEF FeedLabels
  <2>4. CASE labels' = labels
    <3>1. LabelsOK' /\ labels \subseteq labels'
      BY <1>0, <2>4 DEF LabelsOK
    <3>2. CASE Feedback!Answer(s, 502) /\ UNCHANGED ids
      BY <1>2, <2>1, <3>1, <3>2
    <3>3. CASE Feedback!Answer(s, 500) /\ UNCHANGED ids
      BY <1>2, <2>1, <3>1, <3>3
    <3>4. CASE ids' = [ids EXCEPT ![s] = Append(@, l.id)] /\ UNCHANGED <<feedPc, feedStatus>> /\ l \in labels'
      BY <1>6, <2>1, <2>3, <3>1, <3>4
    <3> QED
      BY <1>8, <2>2, <2>4, <3>2, <3>3, <3>4 DEF Feedback!CreateLabel, Feedback!LabelRefused
  <2>5. CASE labels' = labels \cup {l}
    <3>1. LabelsOK' /\ labels \subseteq labels' /\ l \in labels'
      BY <1>0, <2>3, <2>5, LabelAdded
    <3>2. CASE Feedback!Answer(s, 502) /\ UNCHANGED ids
      BY <1>2, <2>1, <3>1, <3>2
    <3>3. CASE Feedback!Answer(s, 500) /\ UNCHANGED ids
      BY <1>2, <2>1, <3>1, <3>3
    <3>4. CASE ids' = [ids EXCEPT ![s] = Append(@, l.id)] /\ UNCHANGED <<feedPc, feedStatus>>
      BY <1>6, <2>1, <2>3, <3>1, <3>4
    <3> QED
      BY <1>8, <2>2, <2>5, <3>2, <3>3, <3>4 DEF Feedback!CreateLabel, Feedback!LabelRefused
  <2> QED
    BY <1>8, <2>2, <2>4, <2>5 DEF Feedback!CreateLabel, Feedback!LabelRefused
<1>9. ASSUME NEW s \in Submissions, Feedback!LabelsDone(s) PROVE FeedIInv'
  <2>1. /\ feedPc[s] = "labels" /\ Len(ids[s]) = 3 /\ feedPc' = [feedPc EXCEPT ![s] = "issue"]
        /\ UNCHANGED <<type, existing, ids, feedStatus, number, labels, issues>>
    BY <1>9 DEF Feedback!LabelsDone, Feedback!config
  <2>2. LabelsOK' /\ labels \subseteq labels'
    BY <1>0, <2>1 DEF LabelsOK
  <2>3. DomainsStay /\ \A k \in Submissions \ {s} : SameSubmission(k)
    BY <1>0, <2>1 DEF FeedTypes, DomainsStay, SameSubmission
  <2> QED
    BY <1>0, <1>3, <2>1, <2>2, <2>3 DEF SubmissionOK
<1>10. ASSUME NEW s \in Submissions, Feedback!FileIssue(s) PROVE FeedIInv'
  <2>1. feedPc[s] = "issue" /\ UNCHANGED <<type, existing, ids, labels>>
    BY <1>10 DEF Feedback!FileIssue, Feedback!config
  <2>2. LabelsOK' /\ labels \subseteq labels'
    BY <1>0, <2>1 DEF LabelsOK
  <2>3. SubmissionOK(s) /\ Len(ids[s]) = 3 /\ \A n \in 1 .. Len(issues) : issues[n].by # s
    BY <1>0, <2>1, FeedNone DEF SubmissionOK
  <2>4. PICK x : x = Feedback!Issue(s)
    OBVIOUS
  <2>5. x \in FeedIssues /\ x.by = s /\ WholeFor(s, x.labels)
    <3>1. x.labels \subseteq labels /\ WholeFor(s, x.labels)
      BY <1>0, <2>3, <2>4, ThreeLabels
    <3>2. PICK ls : x = [by |-> s, labels |-> ls]
      BY <2>4 DEF Feedback!Issue
    <3>3. x.labels = ls
      BY <3>2
    <3> QED
      BY <1>0, <3>1, <3>2, <3>3 DEF FeedIssues, LabelsOK
  <2>6. CASE issues' = Append(issues, x) /\ number' = [number EXCEPT ![s] = Len(issues) + 1] /\ Feedback!Answer(s, 200)
    <3>1. feedPc' = [feedPc EXCEPT ![s] = "answered"] /\ feedStatus' = [feedStatus EXCEPT ![s] = 200]
      BY <2>6 DEF Feedback!Answer
    <3>2. DomainsStay /\ \A k \in Submissions \ {s} : SameSubmission(k)
      BY <1>0, <2>1, <2>6, <3>1 DEF FeedTypes, DomainsStay, SameSubmission
    <3>3. feedPc'[s] = "answered" /\ feedStatus'[s] = 200 /\ number'[s] = Len(issues) + 1
      BY <1>0, <2>6, <3>1 DEF FeedTypes
    <3>4. Len(issues') = Len(issues) + 1 /\ issues'[Len(issues) + 1] = x
      BY <1>1, <2>5, <2>6, AppendProperties
    <3>5. number'[s] \in 1 .. Len(issues') /\ issues'[number'[s]] = x
      BY <1>1, <3>3, <3>4
    <3>6. Feedback!LabelNames(s)' = Feedback!LabelNames(s)
      BY <2>1 DEF Feedback!LabelNames
    <3>7. WholeFor(s, issues'[number'[s]].labels) <=> WholeFor(s, issues[number[s]].labels)'
      BY <3>6 DEF WholeFor
    <3>8. SubmissionOK(s)'
      BY <2>1, <2>3, <2>5, <3>3, <3>5, <3>6, <3>7 DEF SubmissionOK
    <3> QED
      BY <2>1, <2>2, <2>5, <2>6, <3>2, <3>8, OneSubmission
  <2>7. CASE Feedback!Answer(s, 502) /\ UNCHANGED <<issues, number>>
    BY <1>2, <2>1, <2>2, <2>7
  <2>8. CASE issues' \in {issues, Append(issues, x)} /\ Feedback!Answer(s, 500) /\ UNCHANGED number
    BY <1>2, <2>1, <2>2, <2>5, <2>8
  <2> QED
    BY <1>10, <2>4, <2>6, <2>7, <2>8 DEF Feedback!FileIssue
<1>11. CASE UNCHANGED Feedback!vars
  <2>1. LabelsOK' <=> LabelsOK
    BY <1>11 DEF Feedback!vars, LabelsOK
  <2>2. ASSUME NEW s \in Submissions PROVE SubmissionOK(s)' <=> SubmissionOK(s)
    BY <1>11 DEF Feedback!vars, Feedback!config, SubmissionOK, WholeFor, Feedback!LabelNames
  <2>3. FeedTypes' <=> FeedTypes
    BY <1>11 DEF Feedback!vars, FeedTypes
  <2> QED
    BY <1>0, <2>1, <2>2, <2>3 DEF FeedIInv
<1> QED
  BY <1>4, <1>5, <1>7, <1>8, <1>9, <1>10, <1>11 DEF Feedback!Next

LEMMA FeedbackIsTrue == FeedIInv => FeedbackIsWhole
<1> SUFFICES ASSUME FeedIInv, NEW s \in Submissions
             PROVE  /\ feedStatus[s] = 200 =>
                         /\ issues[number[s]].by = s
                         /\ Feedback!Cardinality(issues[number[s]].labels) = 3
                         /\ {l.name : l \in issues[number[s]].labels} = {Feedback!LabelNames(s)[i] : i \in 1 .. 3}
                    /\ feedStatus[s] \in {403, 502, 503} => \A n \in DOMAIN issues : issues[n].by # s
  BY DEF FeedbackIsWhole, Feedback!FeedbackIsWhole
<1>1. SubmissionOK(s) /\ DOMAIN issues = 1 .. Len(issues)
  BY LenProperties DEF FeedIInv, FeedTypes
<1>2. feedStatus[s] = 200 =>
                         /\ issues[number[s]].by = s
                         /\ Feedback!Cardinality(issues[number[s]].labels) = 3
                         /\ {l.name : l \in issues[number[s]].labels} = {Feedback!LabelNames(s)[i] : i \in 1 .. 3}
  BY <1>1, FeedCardinality DEF SubmissionOK, WholeFor
<1>3. feedStatus[s] \in {403, 502, 503} => \A n \in DOMAIN issues : issues[n].by # s
  BY <1>1 DEF SubmissionOK
<1> QED
  BY <1>2, <1>3

(* api/feedback.py, whatever submissions overlap and whichever request       *)
(* fails: a submission answered with a number has its own issue there with   *)
(* the three labels of its type; one that was refused has none.              *)
THEOREM IssuesAreWhole == Feedback!Spec => []FeedbackIsWhole
<1> QED
  BY FeedInitOK, FeedbackStep, FeedbackIsTrue, PTL DEF Feedback!Spec

-----------------------------------------------------------------------------
(* The radios.                                                               *)
Entries == [from : Radios, n : Nat]

LEMMA ClosedIsAnEntry == Radio!Closed \in Entries /\ Radio!Closed.n = 0
BY ClientsAssumption DEF Radio!Closed, Entries

(* A sequence without own packets.                                           *)
LEMMA NothingYet ==
  ASSUME NEW s, NEW n \in Nat
  PROVE  Radio!Whole(s, <<>> \o <<>>, n + 1, n)
<1>1. <<>> \o <<>> = <<>> /\ Radio!Own(s, <<>>) = {}
  BY DEF Radio!Own
<1>2. (n + 1) .. n = {}
  OBVIOUS
<1> QED
  BY <1>1, <1>2 DEF Radio!Whole

(* The next packet of the radio, at the end.                                 *)
LEMMA OwnArrives ==
  ASSUME NEW s \in Radios, NEW all \in Seq(Entries), NEW first \in Nat, NEW n \in Nat, first <= n + 1,
         Radio!Whole(s, all, first, n)
  PROVE  Radio!Whole(s, Append(all, [from |-> s, n |-> n + 1]), first, n + 1)
<1> DEFINE e == [from |-> s, n |-> n + 1]
           new == Append(all, e)
<1>1. /\ Len(all) \in Nat /\ Len(new) = Len(all) + 1 /\ new[Len(all) + 1] = e
      /\ \A i \in 1 .. Len(all) : new[i] = all[i]
      /\ DOMAIN all = 1 .. Len(all) /\ DOMAIN new = 1 .. Len(new)
  <2>1. e \in Entries
    BY DEF Entries
  <2>2. new \in Seq(Entries)
    BY <2>1, AppendProperties
  <2> QED
    BY <2>1, <2>2, AppendProperties, LenProperties
<1>2. e # Radio!Closed /\ e.from = s /\ e.n = n + 1
  BY ClosedIsAnEntry
<1>3. Radio!Own(s, new) = Radio!Own(s, all) \cup {Len(all) + 1}
  BY <1>1, <1>2 DEF Radio!Own
<1>4. \A i \in Radio!Own(s, all) : /\ i \in 1 .. Len(all) /\ new[i] = all[i] /\ all[i].n \in first .. n
  BY <1>1 DEF Radio!Own, Radio!Whole
<1> HIDE DEF e, new
<1>5. {new[i].n : i \in Radio!Own(s, new)} = first .. (n + 1)
  <2>1. {new[i].n : i \in Radio!Own(s, new)} = {all[i].n : i \in Radio!Own(s, all)} \cup {n + 1}
    BY <1>1, <1>2, <1>3, <1>4
  <2>2. {all[i].n : i \in Radio!Own(s, all)} = first .. n
    BY DEF Radio!Whole
  <2>3. first .. (n + 1) = (first .. n) \cup {n + 1}
    OBVIOUS
  <2> QED
    BY <2>1, <2>2, <2>3
<1>6. \A i, j \in Radio!Own(s, new) : i < j => new[i].n < new[j].n
  BY <1>1, <1>2, <1>3, <1>4 DEF Radio!Whole
<1> QED
  BY <1>5, <1>6 DEF Radio!Whole, e, new

(* Another one, or the end of the connection.                                *)
LEMMA OtherArrives ==
  ASSUME NEW s \in Radios, NEW all \in Seq(Entries), NEW first, NEW last,
         Radio!Whole(s, all, first, last), NEW e \in Entries, e = Radio!Closed \/ e.from # s
  PROVE  Radio!Whole(s, Append(all, e), first, last)
<1> DEFINE new == Append(all, e)
<1>1. /\ Len(all) \in Nat /\ Len(new) = Len(all) + 1 /\ new[Len(all) + 1] = e
      /\ \A i \in 1 .. Len(all) : new[i] = all[i]
      /\ DOMAIN all = 1 .. Len(all) /\ DOMAIN new = 1 .. Len(new)
  BY AppendProperties, LenProperties
<1>2. Radio!Own(s, new) = Radio!Own(s, all)
  BY <1>1 DEF Radio!Own
<1>3. \A i \in Radio!Own(s, all) : i \in 1 .. Len(all) /\ new[i] = all[i]
  BY <1>1 DEF Radio!Own
<1> HIDE DEF new
<1>4. {new[i].n : i \in Radio!Own(s, new)} = {all[i].n : i \in Radio!Own(s, all)}
  BY <1>2, <1>3
<1> QED
  BY <1>2, <1>3, <1>4 DEF Radio!Whole, new

(* Taking the end of the connection out of the queue.                        *)
LEMMA ClosedIsTaken ==
  ASSUME NEW s \in Radios, NEW y \in Seq(Entries), NEW q \in Seq(Entries), NEW first, NEW last,
         q # <<>>, Head(q) = Radio!Closed, Radio!Whole(s, y \o q, first, last)
  PROVE  Radio!Whole(s, y \o Tail(q), first, last)
<1> DEFINE all == y \o q
           new == y \o Tail(q)
           k == Len(y)
           At(i) == IF i <= k THEN i ELSE i + 1
<1>1. /\ k \in Nat /\ Len(q) \in Nat \ {0} /\ Tail(q) \in Seq(Entries) /\ Len(Tail(q)) = Len(q) - 1
      /\ q[1] = Radio!Closed /\ \A i \in 1 .. Len(Tail(q)) : Tail(q)[i] = q[i + 1]
  BY HeadTailProperties, EmptySeq, LenProperties
<1>2. /\ DOMAIN all = 1 .. (k + Len(q)) /\ DOMAIN new = 1 .. (k + Len(q) - 1)
      /\ \A i \in 1 .. (k + Len(q)) : all[i] = IF i <= k THEN y[i] ELSE q[i - k]
      /\ \A i \in 1 .. (k + Len(q) - 1) : new[i] = IF i <= k THEN y[i] ELSE Tail(q)[i - k]
  BY <1>1, ConcatProperties, LenProperties
<1>3. all[k + 1] = Radio!Closed
  BY <1>1, <1>2
<1>4. \A i \in DOMAIN new : At(i) \in DOMAIN all /\ new[i] = all[At(i)]
  <2> SUFFICES ASSUME NEW i \in DOMAIN new PROVE At(i) \in DOMAIN all /\ new[i] = all[At(i)]
    OBVIOUS
  <2>1. CASE i <= k
    BY <1>1, <1>2, <2>1
  <2>2. CASE i > k
    <3>1. i - k \in 1 .. Len(Tail(q)) /\ Tail(q)[i - k] = q[i - k + 1]
      BY <1>1, <1>2, <2>2
    <3>2. all[i + 1] = q[i + 1 - k] /\ i + 1 \in DOMAIN all
      BY <1>1, <1>2, <2>2
    <3>3. i + 1 - k = i - k + 1
      BY <1>1, <1>2
    <3> QED
      BY <1>1, <1>2, <2>2, <3>1, <3>2, <3>3
  <2> QED
    BY <1>1, <1>2, <2>1, <2>2
<1>5. \A i, j \in DOMAIN new : i < j => At(i) < At(j)
  BY <1>1, <1>2
<1>6. \A j \in DOMAIN all : j # k + 1 => \E i \in DOMAIN new : At(i) = j
  <2> SUFFICES ASSUME NEW j \in DOMAIN all, j # k + 1 PROVE \E i \in DOMAIN new : At(i) = j
    OBVIOUS
  <2>1. CASE j <= k
    BY <1>1, <1>2, <2>1
  <2>2. CASE j > k + 1
    <3>1. j - 1 \in DOMAIN new /\ At(j - 1) = j
      BY <1>1, <1>2, <2>2
    <3> QED
      BY <3>1
  <2> QED
    BY <1>1, <1>2, <2>1, <2>2
<1> HIDE DEF all, new, At, k
<1>7. \A i \in DOMAIN new : i \in Radio!Own(s, new) <=> At(i) \in Radio!Own(s, all)
  BY <1>4 DEF Radio!Own
<1>8. \A j \in Radio!Own(s, all) : \E i \in Radio!Own(s, new) : At(i) = j
  BY <1>3, <1>6, <1>7 DEF Radio!Own
<1>9. Radio!Own(s, new) \subseteq DOMAIN new
  BY DEF Radio!Own
<1>10. {new[i].n : i \in Radio!Own(s, new)} = {all[j].n : j \in Radio!Own(s, all)}
  BY <1>4, <1>7, <1>8, <1>9
<1>11. \A i, j \in Radio!Own(s, new) : i < j => new[i].n < new[j].n
  BY <1>4, <1>5, <1>7, <1>9 DEF Radio!Whole, all
<1> QED
  BY <1>10, <1>11 DEF Radio!Whole, all, new

LEMMA HeadMoves ==
  ASSUME NEW y \in Seq(Entries), NEW q \in Seq(Entries), q # <<>>
  PROVE  Append(y, Head(q)) \o Tail(q) = y \o q
<1>1. /\ Len(y) \in Nat /\ Len(q) \in Nat \ {0} /\ Tail(q) \in Seq(Entries) /\ Len(Tail(q)) = Len(q) - 1
      /\ Head(q) = q[1] /\ Head(q) \in Entries /\ \A i \in 1 .. Len(Tail(q)) : Tail(q)[i] = q[i + 1]
  BY HeadTailProperties, EmptySeq, LenProperties
<1>2. /\ Append(y, Head(q)) \in Seq(Entries) /\ Len(Append(y, Head(q))) = Len(y) + 1
      /\ \A i \in 1 .. (Len(y) + 1) : Append(y, Head(q))[i] = IF i <= Len(y) THEN y[i] ELSE q[1]
  BY <1>1, AppendProperties
<1> DEFINE l == Append(y, Head(q)) \o Tail(q)
           r == y \o q
<1>3. /\ l \in Seq(Entries) /\ r \in Seq(Entries)
      /\ Len(l) = Len(y) + Len(q) /\ Len(r) = Len(y) + Len(q)
      /\ \A i \in 1 .. Len(r) : r[i] = IF i <= Len(y) THEN y[i] ELSE q[i - Len(y)]
      /\ \A i \in 1 .. Len(r) : l[i] = IF i <= Len(y) + 1 THEN Append(y, Head(q))[i]
                                       ELSE Tail(q)[i - (Len(y) + 1)]
  BY <1>1, <1>2, ConcatProperties
<1>4. \A i \in 1 .. Len(r) : l[i] = r[i]
  <2> SUFFICES ASSUME NEW i \in 1 .. Len(r) PROVE l[i] = r[i]
    OBVIOUS
  <2> HIDE DEF l, r
  <2>1. CASE i <= Len(y) + 1
    <3>1. i \in 1 .. (Len(y) + 1) /\ l[i] = Append(y, Head(q))[i]
      BY <1>1, <1>3, <2>1
    <3>2. CASE i <= Len(y)
      BY <1>2, <1>3, <3>1, <3>2
    <3>3. CASE i = Len(y) + 1
      <4>1. i - Len(y) = 1 /\ ~(i <= Len(y))
        BY <1>1, <3>3
      <4> QED
        BY <1>2, <1>3, <3>1, <4>1
    <3> QED
      BY <1>1, <2>1, <3>2, <3>3
  <2>2. CASE i > Len(y) + 1
    <3>1. i - (Len(y) + 1) \in 1 .. Len(Tail(q)) /\ i - (Len(y) + 1) + 1 = i - Len(y)
      BY <1>1, <1>3, <2>2
    <3> QED
      BY <1>1, <1>3, <2>2, <3>1
  <2> QED
    BY <1>1, <1>3, <2>1, <2>2
<1> HIDE DEF l, r
<1>5. l = r
  BY <1>3, <1>4, SeqEqual
<1> QED
  BY <1>5 DEF l, r

LEMMA AppendAtTheEnd ==
  ASSUME NEW y \in Seq(Entries), NEW q \in Seq(Entries), NEW e \in Entries
  PROVE  y \o Append(q, e) = Append(y \o q, e) /\ y \o q \in Seq(Entries)
<1>1. /\ Append(q, e) \in Seq(Entries) /\ Len(Append(q, e)) = Len(q) + 1 /\ Len(q) \in Nat /\ Len(y) \in Nat
      /\ \A i \in 1 .. (Len(q) + 1) : Append(q, e)[i] = IF i <= Len(q) THEN q[i] ELSE e
  BY AppendProperties, LenProperties
<1> DEFINE l == y \o Append(q, e)
           r == Append(y \o q, e)
<1>2. /\ y \o q \in Seq(Entries) /\ Len(y \o q) = Len(y) + Len(q)
      /\ \A i \in 1 .. (Len(y) + Len(q)) : (y \o q)[i] = IF i <= Len(y) THEN y[i] ELSE q[i - Len(y)]
  BY <1>1, ConcatProperties
<1>3. /\ l \in Seq(Entries) /\ Len(l) = Len(y) + Len(q) + 1
      /\ \A i \in 1 .. Len(l) : l[i] = IF i <= Len(y) THEN y[i] ELSE Append(q, e)[i - Len(y)]
  BY <1>1, ConcatProperties
<1>4. /\ r \in Seq(Entries) /\ Len(r) = Len(y) + Len(q) + 1
      /\ \A i \in 1 .. Len(r) : r[i] = IF i <= Len(y) + Len(q) THEN (y \o q)[i] ELSE e
  <2> DEFINE both == y \o q
  <2> HIDE DEF both
  <2>1. both \in Seq(Entries) /\ Len(both) = Len(y) + Len(q)
    BY <1>2 DEF both
  <2>2. /\ Append(both, e) \in Seq(Entries) /\ Len(Append(both, e)) = Len(both) + 1
        /\ \A i \in 1 .. Len(both) : Append(both, e)[i] = both[i]
        /\ Append(both, e)[Len(both) + 1] = e
    BY <2>1, AppendProperties
  <2> QED
    BY <1>1, <2>1, <2>2 DEF both
<1>5. \A i \in 1 .. Len(l) : l[i] = r[i]
  <2> HIDE DEF l, r
  <2> SUFFICES ASSUME NEW i \in 1 .. Len(l) PROVE l[i] = r[i]
    OBVIOUS
  <2>1. CASE i <= Len(y)
    BY <1>1, <1>2, <1>3, <1>4, <2>1
  <2>2. CASE i > Len(y)
    <3>1. i - Len(y) \in 1 .. (Len(q) + 1) /\ (i - Len(y) <= Len(q) <=> i <= Len(y) + Len(q))
      BY <1>1, <1>3, <2>2
    <3>2. l[i] = IF i - Len(y) <= Len(q) THEN q[i - Len(y)] ELSE e
      BY <1>1, <1>3, <2>2, <3>1
    <3>3. i <= Len(y) + Len(q) => (y \o q)[i] = q[i - Len(y)]
      BY <1>1, <1>2, <1>3, <2>2
    <3> QED
      BY <1>3, <1>4, <3>1, <3>2, <3>3
  <2> QED
    BY <1>1, <1>3, <2>1, <2>2
<1> HIDE DEF l, r
<1>6. l = r
  BY <1>3, <1>4, <1>5, SeqEqual
<1> QED
  BY <1>2, <1>6 DEF l, r

(* Of each stream, where its generator is: before its listeners it has got   *)
(* nothing, after them it has none; while it is subscribed, what it has      *)
(* yielded and what is queued are the packets of its radio.                  *)
StreamOK(s) ==
  /\ radioPc[s] \in {"connecting", "abandoned"} =>
       s \notin receiving \cup watching /\ radioQueue[s] = <<>> /\ yielded[s] = <<>>
  /\ radioPc[s] \in {"unsubscribed", "ended"} => s \notin receiving \cup watching
  /\ radioPc[s] = "ended" => radio[s] = "closed"
  /\ s \in receiving =>
       /\ missed[s] <= radioSent[s]
       /\ Radio!Whole(s, yielded[s] \o radioQueue[s], missed[s] + 1, radioSent[s])

RadioTypes ==
  /\ DOMAIN radioPc = Radios /\ DOMAIN radio = Radios /\ receiving \subseteq Radios
  /\ radioSent \in [Radios -> Nat] /\ missed \in [Radios -> Nat]
  /\ radioQueue \in [Radios -> Seq(Entries)] /\ yielded \in [Radios -> Seq(Entries)]

RadioIInv == RadioTypes /\ \A s \in Radios : StreamOK(s)

LEMMA RadioInitOK == Radio!Init => RadioIInv
<1> SUFFICES ASSUME Radio!Init PROVE RadioIInv
  OBVIOUS
<1>1. <<>> \in Seq(Entries)
  OBVIOUS
<1> QED
  BY <1>1 DEF Radio!Init, RadioIInv, RadioTypes, StreamOK

(* For s the entry is its radio's next packet, which it hears when it is     *)
(* subscribed, or none of its packets.                                       *)
Arrival(s, e, listeners) ==
  \/ /\ e = Radio!Closed \/ e.from # s
     /\ radioSent'[s] = radioSent[s]
  \/ /\ e = [from |-> s, n |-> radioSent[s] + 1] /\ radioSent'[s] = radioSent[s] + 1
     /\ s \in receiving => s \in listeners

(* What a listener's call leaves true of a stream t, when the queue of each  *)
(* listening stream gets an entry.                                           *)
LEMMA EntryArrives ==
  ASSUME RadioIInv, NEW listeners \in SUBSET Radios, NEW e \in Entries, listeners \subseteq receiving \cup watching,
         radioQueue' = [s \in Radios |-> IF s \in listeners THEN Append(radioQueue[s], e) ELSE radioQueue[s]],
         UNCHANGED <<radioPc, receiving, watching, missed, yielded>>,
         DOMAIN radio' = Radios, radioSent' \in [Radios -> Nat],
         \A s \in Radios : radio[s] = "closed" => radio'[s] = "closed",
         \A s \in Radios : Arrival(s, e, listeners)
  PROVE  RadioIInv'
<1>1. RadioTypes'
  BY AppendProperties DEF RadioIInv, RadioTypes
<1>2. ASSUME NEW s \in Radios PROVE StreamOK(s)'
  <2>1. StreamOK(s) /\ radioQueue[s] \in Seq(Entries) /\ yielded[s] \in Seq(Entries)
        /\ missed[s] \in Nat /\ radioSent[s] \in Nat
    BY DEF RadioIInv, RadioTypes
  <2>2. radioPc[s] \in {"connecting", "abandoned"} => radioQueue'[s] = radioQueue[s]
    BY <2>1 DEF StreamOK
  <2>3. ASSUME s \in receiving
        PROVE  /\ missed[s] <= radioSent'[s]
               /\ Radio!Whole(s, yielded[s] \o radioQueue'[s], missed[s] + 1, radioSent'[s])
    <3> DEFINE all == yielded[s] \o radioQueue[s]
    <3>1. all \in Seq(Entries) /\ yielded[s] \o Append(radioQueue[s], e) = Append(all, e)
      BY <2>1, AppendAtTheEnd
    <3>2. missed[s] <= radioSent[s] /\ Radio!Whole(s, all, missed[s] + 1, radioSent[s])
      BY <2>1, <2>3 DEF StreamOK
    <3> HIDE DEF all
    <3>3. CASE (e = Radio!Closed \/ e.from # s) /\ radioSent'[s] = radioSent[s]
      <4>1. Radio!Whole(s, Append(all, e), missed[s] + 1, radioSent[s])
        BY <3>1, <3>2, <3>3, OtherArrives
      <4>2. radioQueue'[s] = radioQueue[s] \/ radioQueue'[s] = Append(radioQueue[s], e)
        OBVIOUS
      <4> QED
        BY <3>1, <3>2, <3>3, <4>1, <4>2 DEF all
    <3>4. CASE e = [from |-> s, n |-> radioSent[s] + 1] /\ radioSent'[s] = radioSent[s] + 1 /\ s \in listeners
      <4>1. missed[s] + 1 \in Nat /\ missed[s] + 1 <= radioSent[s] + 1
        BY <2>1, <3>2
      <4>2. Radio!Whole(s, Append(all, e), missed[s] + 1, radioSent[s] + 1)
        BY <2>1, <3>1, <3>2, <3>4, <4>1, OwnArrives
      <4>3. radioQueue'[s] = Append(radioQueue[s], e)
        BY <3>4
      <4>4. missed[s] <= radioSent[s] + 1
        BY <2>1, <3>2
      <4> QED
        BY <3>1, <3>4, <4>2, <4>3, <4>4
    <3> QED
      BY <2>3, <3>3, <3>4 DEF Arrival
  <2> QED
    BY <2>1, <2>2, <2>3 DEF StreamOK
<1> QED
  BY <1>1, <1>2 DEF RadioIInv

LEMMA RadioStep == RadioIInv /\ [Radio!Next]_(Radio!vars) => RadioIInv'
<1> SUFFICES ASSUME RadioIInv, [Radio!Next]_(Radio!vars) PROVE RadioIInv'
  OBVIOUS
<1>0. RadioTypes /\ \A s \in Radios : StreamOK(s)
  BY DEF RadioIInv
<1>1. ASSUME NEW s \in Radios, Radio!MakeInterface(s) PROVE RadioIInv'
  BY <1>0, <1>1 DEF Radio!MakeInterface, RadioIInv, RadioTypes, StreamOK
<1>2. ASSUME NEW s \in Radios, Radio!SubscribeReceive(s) PROVE RadioIInv'
  <2>1. RadioTypes'
    BY <1>0, <1>2 DEF Radio!SubscribeReceive, RadioTypes
  <2>2. StreamOK(s)'
    <3>1. /\ radioPc'[s] = "subscribing" /\ missed'[s] = radioSent[s] /\ radioSent'[s] = radioSent[s]
          /\ radioSent[s] \in Nat
      BY <1>0, <1>2 DEF Radio!SubscribeReceive, RadioTypes
    <3>2. yielded'[s] \o radioQueue'[s] = <<>> \o <<>>
      BY <1>0, <1>2 DEF Radio!SubscribeReceive, StreamOK
    <3>3. Radio!Whole(s, yielded'[s] \o radioQueue'[s], radioSent[s] + 1, radioSent[s])
      BY <3>1, <3>2, NothingYet
    <3> QED
      BY <3>1, <3>3 DEF StreamOK
  <2>3. ASSUME NEW t \in Radios \ {s} PROVE StreamOK(t)'
    BY <1>0, <1>2 DEF Radio!SubscribeReceive, StreamOK, RadioTypes
  <2> QED
    BY <2>1, <2>2, <2>3 DEF RadioIInv
<1>3. ASSUME NEW s \in Radios, Radio!SubscribeLost(s) PROVE RadioIInv'
  BY <1>0, <1>3 DEF Radio!SubscribeLost, RadioIInv, RadioTypes, StreamOK
<1>4. ASSUME NEW s \in Radios, Radio!Get(s) PROVE RadioIInv'
  <2>0. /\ radioPc[s] = "running" /\ radioQueue[s] # <<>> /\ radioQueue[s] \in Seq(Entries)
        /\ yielded[s] \in Seq(Entries) /\ StreamOK(s)
        /\ radioQueue' = [radioQueue EXCEPT ![s] = Tail(@)] /\ radioQueue'[s] = Tail(radioQueue[s])
        /\ UNCHANGED <<radio, radioSent, receiving, watching, missed>>
    BY <1>0, <1>4 DEF Radio!Get, RadioTypes
  <2>1. Head(radioQueue[s]) \in Entries /\ Tail(radioQueue[s]) \in Seq(Entries)
    BY <2>0, HeadTailProperties
  <2>2. /\ DOMAIN radioPc' = Radios /\ radioPc'[s] \in {"running", "closing"}
        /\ \A t \in Radios \ {s} : radioPc'[t] = radioPc[t]
    BY <1>0, <1>4, <2>0 DEF Radio!Get, RadioTypes
  <2>3. /\ yielded' \in [Radios -> Seq(Entries)]
        /\ \A t \in Radios \ {s} : yielded'[t] = yielded[t] /\ radioQueue'[t] = radioQueue[t]
    <3>1. Append(yielded[s], Head(radioQueue[s])) \in Seq(Entries)
      BY <2>0, <2>1, AppendProperties
    <3> QED
      BY <1>0, <1>4, <2>0, <3>1 DEF Radio!Get, RadioTypes
  <2>4. RadioTypes'
    BY <1>0, <2>0, <2>1, <2>2, <2>3 DEF RadioTypes
  <2>5. ASSUME s \in receiving, NEW first, NEW last, Radio!Whole(s, yielded[s] \o radioQueue[s], first, last)
        PROVE  Radio!Whole(s, yielded'[s] \o radioQueue'[s], first, last)
    <3>1. CASE Head(radioQueue[s]) = Radio!Closed
      <4>1. yielded'[s] = yielded[s]
        BY <1>4, <3>1 DEF Radio!Get
      <4> QED
        BY <2>0, <2>5, <3>1, <4>1, ClosedIsTaken
    <3>2. CASE Head(radioQueue[s]) # Radio!Closed
      <4>1. yielded'[s] = Append(yielded[s], Head(radioQueue[s]))
        BY <1>0, <1>4, <3>2 DEF Radio!Get, RadioTypes
      <4>2. yielded'[s] \o radioQueue'[s] = yielded[s] \o radioQueue[s]
        BY <2>0, <4>1, HeadMoves
      <4> QED
        BY <2>5, <4>2
    <3> QED
      BY <3>1, <3>2
  <2>6. StreamOK(s)'
    BY <2>0, <2>2, <2>5 DEF StreamOK
  <2>7. \A t \in Radios \ {s} : StreamOK(t)'
    BY <1>0, <2>0, <2>2, <2>3 DEF StreamOK
  <2> QED
    BY <2>4, <2>6, <2>7 DEF RadioIInv
<1>5. ASSUME NEW s \in Radios, Radio!Cancel(s) PROVE RadioIInv'
  BY <1>0, <1>5 DEF Radio!Cancel, RadioIInv, RadioTypes, StreamOK
<1>6. ASSUME NEW s \in Radios, Radio!Unsubscribe(s) PROVE RadioIInv'
  BY <1>0, <1>6 DEF Radio!Unsubscribe, RadioIInv, RadioTypes, StreamOK
<1>7. ASSUME NEW s \in Radios, Radio!Close(s) PROVE RadioIInv'
  BY <1>0, <1>7 DEF Radio!Close, RadioIInv, RadioTypes, StreamOK
<1>8. ASSUME NEW s \in Radios, Radio!OnReceive(s) PROVE RadioIInv'
  <2> DEFINE e == [from |-> s, n |-> radioSent[s] + 1]
  <2>1. radioSent[s] \in Nat /\ radioSent' = [radioSent EXCEPT ![s] = @ + 1] /\ radioSent'[s] = radioSent[s] + 1
    BY <1>0, <1>8 DEF Radio!OnReceive, RadioTypes
  <2>2. e \in Entries /\ \A t \in Radios \ {s} : e.from # t
    BY <2>1 DEF Entries
  <2>3. radioQueue' = [t \in Radios |-> IF t \in receiving THEN Append(radioQueue[t], e) ELSE radioQueue[t]]
    BY <1>8, <2>1 DEF Radio!OnReceive, Radio!Put
  <2>4. /\ UNCHANGED <<radioPc, radio, receiving, watching, missed, yielded>>
        /\ radioSent' \in [Radios -> Nat]
        /\ \A t \in Radios \ {s} : radioSent'[t] = radioSent[t]
    BY <1>0, <1>8, <2>1 DEF Radio!OnReceive, RadioTypes
  <2> HIDE DEF e
  <2>5. \A t \in Radios : Arrival(t, e, receiving)
    BY <2>1, <2>2, <2>4 DEF e, Arrival
  <2>6. /\ DOMAIN radio' = Radios /\ receiving \in SUBSET Radios /\ receiving \subseteq receiving \cup watching
        /\ \A t \in Radios : radio[t] = "closed" => radio'[t] = "closed"
    BY <1>0, <2>4 DEF RadioTypes
  <2> QED
    BY <2>2, <2>3, <2>4, <2>5, <2>6, EntryArrives
<1>9. ASSUME NEW s \in Radios, Radio!OnConnectionClosed(s) PROVE RadioIInv'
  <2> DEFINE heard == watching \cap Radios
  <2>1. radioQueue' = [t \in Radios |-> IF t \in heard THEN Append(radioQueue[t], Radio!Closed)
                                        ELSE radioQueue[t]]
    BY <1>9 DEF Radio!OnConnectionClosed, Radio!Put
  <2>2. /\ UNCHANGED <<radioPc, radioSent, receiving, watching, missed, yielded>>
        /\ DOMAIN radio' = Radios /\ radioSent' \in [Radios -> Nat]
        /\ \A t \in Radios : radio[t] = "closed" => radio'[t] = "closed"
    BY <1>0, <1>9 DEF Radio!OnConnectionClosed, RadioTypes
  <2>3. \A t \in Radios : Arrival(t, Radio!Closed, heard)
    BY <2>2 DEF Arrival
  <2>4. heard \in SUBSET Radios /\ heard \subseteq receiving \cup watching
    OBVIOUS
  <2> HIDE DEF heard
  <2> QED
    BY <2>1, <2>2, <2>3, <2>4, ClosedIsAnEntry, EntryArrives
<1>10. CASE UNCHANGED Radio!vars
  BY <1>0, <1>10 DEF Radio!vars, RadioIInv, RadioTypes, StreamOK
<1> QED
  BY <1>1, <1>2, <1>3, <1>4, <1>5, <1>6, <1>7, <1>8, <1>9, <1>10 DEF Radio!Next

LEMMA RadiosHold == RadioIInv => Radio!InOrder /\ Radio!NothingLeftBehind
<1> SUFFICES ASSUME RadioIInv PROVE Radio!InOrder /\ Radio!NothingLeftBehind
  OBVIOUS
<1> QED
  BY DEF RadioIInv, RadioTypes, StreamOK, Radio!InOrder, Radio!Items, Radio!NothingLeftBehind

-----------------------------------------------------------------------------
(* MQTT. What a live connection is not subscribed to yet is to be done.      *)
MqttIInv ==
  /\ mqttPc \in {"subscribe", "receive"} /\ connected => known \subseteq subs \cup todo
  /\ mqttPc = "receive" /\ connected => todo = {}

LEMMA MqttStep == MqttIInv /\ [Mqtt!Next]_(Mqtt!vars) => MqttIInv'
<1> SUFFICES ASSUME MqttIInv, [Mqtt!Next]_(Mqtt!vars) PROVE MqttIInv'
  OBVIOUS
<1> USE DEF MqttIInv, Mqtt!client, Mqtt!use
<1>1. CASE Mqtt!Import \/ Mqtt!Connect \/ Mqtt!Dispatch \/ Mqtt!ReceiveFails \/ Mqtt!Retry
  BY <1>1 DEF Mqtt!Import, Mqtt!Connect, Mqtt!Dispatch, Mqtt!ReceiveFails, Mqtt!Retry
<1>2. CASE Mqtt!Subscribe
  BY <1>2 DEF Mqtt!Subscribe
<1>3. CASE Mqtt!Run \/ Mqtt!Cancel \/ Mqtt!Drop \/ Mqtt!Recover
  BY <1>3 DEF Mqtt!Run, Mqtt!Cancel, Mqtt!Disconnect, Mqtt!Drop, Mqtt!Recover
<1>4. CASE Mqtt!Packets \/ Mqtt!Leave \/ Mqtt!Left
  BY <1>4 DEF Mqtt!Packets, Mqtt!Leave, Mqtt!Left
<1>5. CASE \E k \in Patterns : Mqtt!Register(k) \/ Mqtt!Publish(k)
  BY <1>5 DEF Mqtt!Register, Mqtt!Publish
<1>6. CASE UNCHANGED Mqtt!vars
  BY <1>6 DEF Mqtt!vars
<1> QED
  BY <1>1, <1>2, <1>3, <1>4, <1>5, <1>6 DEF Mqtt!Next, Mqtt!Client

LEMMA MqttInitOK == Mqtt!Init => MqttIInv
BY DEF Mqtt!Init, MqttIInv

LEMMA MqttHolds == MqttIInv => Mqtt!EveryConnectionSubscribes
BY DEF MqttIInv, Mqtt!EveryConnectionSubscribes

-----------------------------------------------------------------------------
(* The memory client. A call that is in flight may add one to the failures,  *)
(* and one can only be sent while there are fewer than the limit.            *)
InFlight == {k \in Calls : pc[k] = "sent"}
MemoryIInv ==
  /\ available \in BOOLEAN /\ fails \in Nat /\ DOMAIN pc = Calls
  /\ available => fails < MaxFailures
  /\ fails + Cardinality(InFlight) <= MaxFailures - 1 + Cardinality(Calls)

LEMMA MemoryConstants ==
  IsFiniteSet(Calls) /\ MaxFailures \in Nat \ {0} /\ Cardinality(Calls) \in Nat
<1>1. IsFiniteSet(Calls) /\ MaxFailures \in Nat \ {0}
  BY ClientsAssumption DEF Flaky!ConstantsOK, Flaky!IsFiniteSet, IsFiniteSet
<1> QED
  BY <1>1, FS_CardinalityType

LEMMA InFlightCounts ==
  /\ IsFiniteSet(InFlight) /\ Cardinality(InFlight) \in Nat /\ Cardinality(InFlight) <= Cardinality(Calls)
<1>1. InFlight \subseteq Calls
  BY DEF InFlight
<1> QED
  BY <1>1, MemoryConstants, FS_Subset, FS_CardinalityType

(* The steps of both clients, flaky and healthy, by what they do here.       *)
MemoryMoves(k, from, to) == k \in Calls /\ pc[k] = from /\ pc' = [pc EXCEPT ![k] = to]
MemoryStep ==
  /\ available' \in BOOLEAN
  /\ \/ pc' = pc /\ (fails' = 0 \/ (fails' = fails /\ (available' => available)))
     \/ \E k \in Calls :
          \/ MemoryMoves(k, "idle", "sent") /\ available /\ fails' = fails
          \/ MemoryMoves(k, "idle", "health") /\ (available' => available) /\ fails' = fails
          \/ MemoryMoves(k, "health", "sent") /\ fails' = 0
          \/ MemoryMoves(k, "health", "idle") /\ (available' => available) /\ fails' = fails
          \/ MemoryMoves(k, "sent", "idle") /\ fails' = 0
          \/ MemoryMoves(k, "sent", "idle") /\ fails' = fails + 1 /\ (available' => fails + 1 < MaxFailures)

LEMMA FlakyMoves == Flaky!Next /\ available \in BOOLEAN => MemoryStep
<1> SUFFICES ASSUME Flaky!Next, available \in BOOLEAN PROVE MemoryStep
  OBVIOUS
<1> USE DEF MemoryStep, Flaky!HealthOk, Flaky!HealthBad, Flaky!OnCallSuccess, Flaky!OnCallError
<1>1. CASE Flaky!Connect \/ Flaky!CooldownElapses
  BY <1>1 DEF Flaky!Connect, Flaky!CooldownElapses
<1>8. CASE Flaky!Close
  <2>1. pc' = pc /\ fails' = fails /\ available' = FALSE
    BY <1>8 DEF Flaky!Close
  <2> QED
    BY <2>1
<1>2. CASE Flaky!Connected
  BY <1>2 DEF Flaky!Connected
<1>3. ASSUME NEW k \in Calls, Flaky!CallSent(k) PROVE MemoryStep
  BY <1>3 DEF Flaky!CallSent, Flaky!MayStart, MemoryMoves
<1>4. ASSUME NEW k \in Calls, Flaky!CallReconnects(k) PROVE MemoryStep
  BY <1>4 DEF Flaky!CallReconnects, Flaky!MayStart, MemoryMoves
<1>5. ASSUME NEW k \in Calls, Flaky!ReconnectOk(k) \/ Flaky!ReconnectBad(k) PROVE MemoryStep
  BY <1>5 DEF Flaky!ReconnectOk, Flaky!ReconnectBad, MemoryMoves
<1>6. ASSUME NEW k \in Calls, Flaky!CallSucceeds(k) PROVE MemoryStep
  BY <1>6 DEF Flaky!CallSucceeds, MemoryMoves
<1>7. ASSUME NEW k \in Calls, Flaky!CallFails(k) PROVE MemoryStep
  BY <1>7 DEF Flaky!CallFails, MemoryMoves
<1> QED
  BY <1>1, <1>2, <1>3, <1>4, <1>5, <1>6, <1>7, <1>8 DEF Flaky!Next

LEMMA HealthyMoves == Healthy!Next /\ available \in BOOLEAN => MemoryStep
<1> SUFFICES ASSUME Healthy!Next, available \in BOOLEAN PROVE MemoryStep
  OBVIOUS
<1> USE DEF MemoryStep, Healthy!HealthOk, Healthy!HealthBad, Healthy!OnCallSuccess, Healthy!OnCallError
<1>1. CASE Healthy!Connect \/ Healthy!CooldownElapses
  BY <1>1 DEF Healthy!Connect, Healthy!CooldownElapses
<1>8. CASE Healthy!Close
  <2>1. pc' = pc /\ fails' = fails /\ available' = FALSE
    BY <1>8 DEF Healthy!Close
  <2> QED
    BY <2>1
<1>2. CASE Healthy!Connected
  BY <1>2 DEF Healthy!Connected
<1>3. ASSUME NEW k \in Calls, Healthy!CallSent(k) PROVE MemoryStep
  BY <1>3 DEF Healthy!CallSent, Healthy!MayStart, MemoryMoves
<1>4. ASSUME NEW k \in Calls, Healthy!CallReconnects(k) PROVE MemoryStep
  BY <1>4 DEF Healthy!CallReconnects, Healthy!MayStart, MemoryMoves
<1>5. ASSUME NEW k \in Calls, Healthy!ReconnectOk(k) \/ Healthy!ReconnectBad(k) PROVE MemoryStep
  BY <1>5 DEF Healthy!ReconnectOk, Healthy!ReconnectBad, MemoryMoves
<1>6. ASSUME NEW k \in Calls, Healthy!CallSucceeds(k) PROVE MemoryStep
  BY <1>6 DEF Healthy!CallSucceeds, MemoryMoves
<1>7. ASSUME NEW k \in Calls, Healthy!CallFails(k) PROVE MemoryStep
  BY <1>7 DEF Healthy!CallFails, MemoryMoves
<1> QED
  BY <1>1, <1>2, <1>3, <1>4, <1>5, <1>6, <1>7, <1>8 DEF Healthy!Next

LEMMA MemoryKeepsIInv == MemoryIInv /\ MemoryStep => MemoryIInv'
<1> SUFFICES ASSUME MemoryIInv, MemoryStep PROVE MemoryIInv'
  OBVIOUS
<1>0. /\ IsFiniteSet(InFlight) /\ Cardinality(InFlight) \in Nat /\ Cardinality(InFlight) <= Cardinality(Calls)
      /\ MaxFailures \in Nat \ {0} /\ Cardinality(Calls) \in Nat
  BY InFlightCounts, MemoryConstants
<1>1. ASSUME pc' = pc PROVE InFlight' = InFlight
  BY <1>1 DEF InFlight
<1>2. ASSUME NEW k, MemoryMoves(k, "idle", "sent") \/ MemoryMoves(k, "health", "sent")
      PROVE  InFlight' \subseteq Calls /\ Cardinality(InFlight') \in Nat /\ Cardinality(InFlight') <= Cardinality(Calls)
  BY InFlightCounts, MemoryConstants, FS_Subset, FS_CardinalityType DEF InFlight
<1>3. ASSUME NEW k, MemoryMoves(k, "idle", "health") \/ MemoryMoves(k, "health", "idle")
      PROVE  InFlight' = InFlight
  BY <1>3 DEF InFlight, MemoryMoves, MemoryIInv
<1>4. ASSUME NEW k, MemoryMoves(k, "sent", "idle")
      PROVE  Cardinality(InFlight') = Cardinality(InFlight) - 1
  <2>1. InFlight' = InFlight \ {k} /\ k \in InFlight
    BY <1>4 DEF InFlight, MemoryMoves, MemoryIInv
  <2> QED
    BY <1>0, <2>1, FS_RemoveElement
<1>5. DOMAIN pc' = Calls
  BY DEF MemoryStep, MemoryMoves, MemoryIInv
<1>6. available' \in BOOLEAN /\ fails' \in Nat /\ (available' => fails' < MaxFailures)
  <2>1. fails' = 0 \/ (fails' = fails /\ (available' => available)) \/ (fails' = fails /\ available)
        \/ (fails' = fails + 1 /\ (available' => fails + 1 < MaxFailures))
    BY DEF MemoryStep
  <2>2. available' \in BOOLEAN
    BY DEF MemoryStep
  <2> QED
    BY <1>0, <2>1, <2>2 DEF MemoryIInv
<1>7. fails' + Cardinality(InFlight') <= MaxFailures - 1 + Cardinality(Calls)
  <2>1. CASE pc' = pc /\ (fails' = fails \/ fails' = 0)
    BY <1>0, <1>1, <2>1 DEF MemoryIInv
  <2>2. ASSUME NEW k \in Calls, MemoryMoves(k, "idle", "sent"), available, fails' = fails
        PROVE  fails' + Cardinality(InFlight') <= MaxFailures - 1 + Cardinality(Calls)
    BY <1>0, <1>2, <2>2 DEF MemoryIInv
  <2>3. ASSUME NEW k \in Calls, MemoryMoves(k, "health", "sent"), fails' = 0
        PROVE  fails' + Cardinality(InFlight') <= MaxFailures - 1 + Cardinality(Calls)
    BY <1>0, <1>2, <2>3 DEF MemoryIInv
  <2>4. ASSUME NEW k \in Calls, MemoryMoves(k, "idle", "health") \/ MemoryMoves(k, "health", "idle"), fails' = fails
        PROVE  fails' + Cardinality(InFlight') <= MaxFailures - 1 + Cardinality(Calls)
    BY <1>0, <1>3, <2>4 DEF MemoryIInv
  <2>5. ASSUME NEW k \in Calls, MemoryMoves(k, "sent", "idle"), fails' = 0 \/ fails' = fails + 1
        PROVE  fails' + Cardinality(InFlight') <= MaxFailures - 1 + Cardinality(Calls)
    BY <1>0, <1>4, <2>5 DEF MemoryIInv
  <2> QED
    BY <2>1, <2>2, <2>3, <2>4, <2>5 DEF MemoryStep
<1> QED
  BY <1>5, <1>6, <1>7 DEF MemoryIInv

LEMMA MemoryClientStep == MemoryIInv /\ [Flaky!Next \/ Healthy!Next]_memoryVars => MemoryIInv'
<1> SUFFICES ASSUME MemoryIInv, [Flaky!Next \/ Healthy!Next]_memoryVars PROVE MemoryIInv'
  OBVIOUS
<1>1. available \in BOOLEAN
  BY DEF MemoryIInv
<1>2. CASE Flaky!Next \/ Healthy!Next
  BY <1>1, <1>2, FlakyMoves, HealthyMoves, MemoryKeepsIInv
<1>3. CASE UNCHANGED memoryVars
  BY <1>3 DEF memoryVars, MemoryIInv, InFlight
<1> QED
  BY <1>2, <1>3

LEMMA MemoryInitOK == Flaky!Init => MemoryIInv
<1> SUFFICES ASSUME Flaky!Init PROVE MemoryIInv
  OBVIOUS
<1>1. InFlight = {}
  BY DEF Flaky!Init, InFlight
<1>2. Cardinality(InFlight) = 0
  BY <1>1, FS_EmptySet
<1> QED
  <2>1. available = FALSE /\ fails = 0 /\ DOMAIN pc = Calls
    BY DEF Flaky!Init
  <2>2. 0 + 0 <= MaxFailures - 1 + Cardinality(Calls)
    BY MemoryConstants
  <2> QED
    BY <1>2, <2>1, <2>2 DEF MemoryIInv

LEMMA MemoryHolds == MemoryIInv => Flaky!FailuresDisable
<1> SUFFICES ASSUME MemoryIInv PROVE Flaky!FailuresDisable
  OBVIOUS
<1>1. Flaky!Cardinality(Calls) = Cardinality(Calls)
  BY DEF Flaky!Cardinality, Cardinality
<1> QED
  BY <1>1, InFlightCounts, MemoryConstants DEF MemoryIInv, Flaky!FailuresDisable

(* mqtt/meshtastic/serial_backend.py: a subscribed stream has its radio's    *)
(* packets once each and in order, whatever other radios and losses of the   *)
(* connection put into its queue; one that has ended has no listener.        *)
THEOREM PacketsArriveInOrder == Radio!Spec => [](Radio!InOrder /\ Radio!NothingLeftBehind)
BY RadioInitOK, RadioStep, RadiosHold, PTL DEF Radio!Spec

(* mqtt/client.py: however many connections were lost, the present one is    *)
(* subscribed to all that was registered when it was made.                   *)
THEOREM ConnectionsSubscribe == Mqtt!Spec => []Mqtt!EveryConnectionSubscribes
BY MqttInitOK, MqttStep, MqttHolds, PTL DEF Mqtt!Spec

(* memory/client.py: _MAX_FAILURES failures in a row disable the client,     *)
(* whatever overlaps; only calls already in flight are counted after it.     *)
THEOREM FailuresAreBounded ==
  /\ Flaky!Spec => []Flaky!FailuresDisable
  /\ Healthy!Spec => []Flaky!FailuresDisable
<1>1. Healthy!Init => MemoryIInv
  BY MemoryInitOK DEF Healthy!Init, Flaky!Init
<1>2. MemoryIInv /\ [Flaky!Next]_(Flaky!vars) => MemoryIInv'
  BY MemoryClientStep DEF Flaky!vars, memoryVars
<1>3. MemoryIInv /\ [Healthy!Next]_(Healthy!vars) => MemoryIInv'
  BY MemoryClientStep DEF Healthy!vars, memoryVars
<1>4. Flaky!Spec => []Flaky!FailuresDisable
  BY <1>2, MemoryInitOK, MemoryHolds, PTL DEF Flaky!Spec
<1>5. Healthy!Spec => []Flaky!FailuresDisable
  BY <1>1, <1>3, MemoryHolds, PTL DEF Healthy!Spec
<1> QED
  BY <1>4, <1>5

-----------------------------------------------------------------------------
(* The parts share nothing: a step of the bench is a step of one of them and *)
(* leaves what belongs to the others unchanged.                              *)
LEMMA ClientsAreTheirParts ==
  [Next]_vars => /\ [Router!Next]_(Router!vars) /\ [Bus!Next]_(Bus!vars)
                 /\ [Federation!Next]_(Federation!vars) /\ [Feedback!Next]_(Feedback!vars)
                 /\ [Radio!Next]_(Radio!vars) /\ [Mqtt!Next]_(Mqtt!vars)
                 /\ [Flaky!Next \/ Healthy!Next]_memoryVars
<1> SUFFICES ASSUME [Next]_vars
             PROVE  /\ [Router!Next]_(Router!vars) /\ [Bus!Next]_(Bus!vars)
                    /\ [Federation!Next]_(Federation!vars) /\ [Feedback!Next]_(Feedback!vars)
                    /\ [Radio!Next]_(Radio!vars) /\ [Mqtt!Next]_(Mqtt!vars)
                    /\ [Flaky!Next \/ Healthy!Next]_memoryVars
  OBVIOUS
<1> USE DEF routerVars, busVars, fedVars, feedVars, Router!vars, Bus!vars, Federation!vars,
        Feedback!vars, Feedback!config, radioVars, mqttVars, memoryVars, Radio!vars,
        Mqtt!vars, Mqtt!use, Mqtt!client
<1>1. CASE RouterSteps
  BY <1>1 DEF RouterSteps, notRouter
<1>2. CASE FlakySteps \/ HealthySteps
  BY <1>2 DEF FlakySteps, HealthySteps, notMemory
<1>3. CASE RadioSteps
  BY <1>3 DEF RadioSteps, notRadio
<1>4. CASE MqttSteps
  BY <1>4 DEF MqttSteps, notMqtt
<1>5. CASE BusSteps
  BY <1>5 DEF BusSteps, notBus
<1>6. CASE FederationSteps
  BY <1>6 DEF FederationSteps, notFed
<1>7. CASE FeedbackSteps
  BY <1>7 DEF FeedbackSteps, notFeed
<1>8. CASE UNCHANGED vars
  BY <1>8 DEF vars
<1> QED
  BY <1>1, <1>2, <1>3, <1>4, <1>5, <1>6, <1>7, <1>8 DEF Next

(* The clients that a product holds on to keep their promises, whichever     *)
(* part runs.                                                                *)
THEOREM ClientsAreSafe ==
  Spec => []( /\ LeasesGivenBack /\ ReliableIsNotBypassed
              /\ DeliveriesAreTrue /\ FeedbackIsWhole /\ LinksHold )
<1> DEFINE IInv == RouterIInv /\ BusIInv /\ FedIInv /\ FeedIInv /\ RadioIInv /\ MqttIInv /\ MemoryIInv
<1>1. Init => IInv
  BY RouterInitOK, BusInitOK, FedInitOK, FeedInitOK, RadioInitOK, MqttInitOK, MemoryInitOK DEF Init
<1>2. IInv /\ [Next]_vars => IInv'
  BY ClientsAreTheirParts, RouterStep, BusStep, FederationStep, FeedbackStep,
     RadioStep, MqttStep, MemoryClientStep
<1>3. IInv => /\ LeasesGivenBack /\ ReliableIsNotBypassed
              /\ DeliveriesAreTrue /\ FeedbackIsWhole /\ LinksHold
  BY RouterIsTrue, BusIsOrdered, FederationIsTrue, FeedbackIsTrue,
     RadiosHold, MqttHolds, MemoryHolds DEF LinksHold
<1> HIDE DEF IInv
<1>4. Spec => Init /\ [][Next]_vars
  BY DEF Spec
<1> QED
  BY <1>1, <1>2, <1>3, <1>4, PTL
=============================================================================
