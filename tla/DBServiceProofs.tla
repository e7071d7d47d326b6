-------------------------- MODULE DBServiceProofs --------------------------
(* Machine-checked properties of the queues, for any number of processes,   *)
(* threads and workers, and queues of any length.                           *)
EXTENDS DBService, SequenceTheorems, FiniteSetTheorems, TLAPS

(***************************************************************************)
(* Sequences: what the queue operations leave in a queue.                  *)
(***************************************************************************)
LEMMA Appended ==
  ASSUME NEW S, NEW s \in Seq(S), NEW e \in S
  PROVE  /\ Append(s, e) \in Seq(S) /\ Len(Append(s, e)) = Len(s) + 1
         /\ ToSet(Append(s, e)) = ToSet(s) \cup {e}
         /\ \A i \in DOMAIN s : Append(s, e)[i] = s[i]
         /\ DOMAIN Append(s, e) = DOMAIN s \cup {Len(s) + 1} /\ Append(s, e)[Len(s) + 1] = e
<1>1. /\ Append(s, e) \in Seq(S) /\ Len(Append(s, e)) = Len(s) + 1
      /\ \A i \in DOMAIN s : Append(s, e)[i] = s[i]
      /\ DOMAIN Append(s, e) = DOMAIN s \cup {Len(s) + 1} /\ Append(s, e)[Len(s) + 1] = e
  OBVIOUS
<1> DEFINE a == Append(s, e)
<1>2. ToSet(a) = ToSet(s) \cup {e}
  <2>1. DOMAIN a = DOMAIN s \cup {Len(s) + 1} /\ a[Len(s) + 1] = e /\ \A i \in DOMAIN s : a[i] = s[i]
    BY <1>1
  <2> HIDE DEF a
  <2> QED BY <2>1 DEF ToSet
<1> QED BY <1>1, <1>2

LEMMA Taken ==
  ASSUME NEW S, NEW s \in Seq(S), s # <<>>
  PROVE  /\ Head(s) \in S /\ Tail(s) \in Seq(S) /\ Len(Tail(s)) = Len(s) - 1
         /\ Head(s) \in ToSet(s) /\ Head(s) = s[1] /\ 1 \in DOMAIN s
         /\ \A i \in DOMAIN Tail(s) : i + 1 \in DOMAIN s /\ i + 1 # 1 /\ Tail(s)[i] = s[i + 1]
         /\ ToSet(Tail(s)) \subseteq ToSet(s)
<1>1. /\ Head(s) \in S /\ Tail(s) \in Seq(S) /\ Len(Tail(s)) = Len(s) - 1
      /\ Head(s) = s[1] /\ 1 \in DOMAIN s
      /\ \A i \in DOMAIN Tail(s) : i + 1 \in DOMAIN s /\ i + 1 # 1 /\ Tail(s)[i] = s[i + 1]
  OBVIOUS
<1>2. Head(s) \in ToSet(s)
  BY <1>1 DEF ToSet
<1>3. ToSet(Tail(s)) \subseteq ToSet(s)
  BY <1>1 DEF ToSet
<1> QED BY <1>1, <1>2, <1>3

\* Nothing but the head is gone.
LEMMA TakenIs ==
  ASSUME NEW S, NEW s \in Seq(S), s # <<>>
  PROVE  ToSet(s) \subseteq ToSet(Tail(s)) \cup {Head(s)}
<1> DEFINE t == Tail(s)
<1>1. \A i \in DOMAIN s : i # 1 => i - 1 \in DOMAIN t /\ t[i - 1] = s[i]
  OBVIOUS
<1>2. 1 \in DOMAIN s /\ Head(s) = s[1]
  OBVIOUS
<1> HIDE DEF t
<1>3. ToSet(s) \subseteq ToSet(t) \cup {Head(s)}
  BY <1>1, <1>2 DEF ToSet
<1> QED BY <1>3 DEF t

LEMMA Removed ==
  ASSUME NEW S, NEW s \in Seq(S), NEW k \in DOMAIN s
  PROVE  /\ RemoveAt(s, k) \in Seq(S) /\ Len(RemoveAt(s, k)) = Len(s) - 1
         /\ ToSet(RemoveAt(s, k)) \subseteq ToSet(s)
<1> DEFINE a == SubSeq(s, 1, k - 1)
           b == SubSeq(s, k + 1, Len(s))
<1>0. k \in 1 .. Len(s) /\ Len(s) \in Nat
  OBVIOUS
<1>1. a \in Seq(S) /\ Len(a) = k - 1 /\ \A i \in 1 .. k - 1 : a[i] = s[i]
  BY <1>0
<1>2. b \in Seq(S) /\ Len(b) = Len(s) - k /\ \A i \in 1 .. Len(s) - k : b[i] = s[i + k]
  BY <1>0
<1>3. RemoveAt(s, k) = a \o b
  BY DEF RemoveAt
<1> HIDE DEF a, b
<1>4. /\ a \o b \in Seq(S) /\ Len(a \o b) = Len(s) - 1
      /\ \A i \in 1 .. Len(s) - 1 : (a \o b)[i] = IF i <= k - 1 THEN a[i] ELSE b[i - (k - 1)]
  BY <1>0, <1>1, <1>2, ConcatProperties
<1>5. ASSUME NEW i \in 1 .. Len(s) - 1 PROVE (a \o b)[i] \in ToSet(s)
  <2>0. k \in Int /\ Len(s) \in Int /\ i \in Int /\ 1 <= i /\ i <= Len(s) - 1 /\ 1 <= k /\ k <= Len(s)
    BY <1>0, <1>5
  <2>1. CASE i <= k - 1
    <3>1. (a \o b)[i] = s[i] /\ i \in DOMAIN s
      BY <1>1, <1>4, <1>5, <2>0, <2>1
    <3> QED BY <3>1 DEF ToSet
  <2>2. CASE ~(i <= k - 1)
    <3> DEFINE j == i - (k - 1)
    <3>1. j \in Int /\ 1 <= j /\ j <= Len(s) - k /\ j + k = i + 1
      BY <2>0, <2>2
    <3>2. (a \o b)[i] = b[j]
      BY <1>4, <1>5, <2>2
    <3> HIDE DEF j
    <3>a. j \in 1 .. Len(s) - k
      BY <2>0, <3>1
    <3>b. b[j] = s[j + k]
      BY <1>2, <3>a
    <3>3. (a \o b)[i] = s[i + 1]
      BY <3>1, <3>2, <3>b
    <3>4. i + 1 \in DOMAIN s
      BY <2>0
    <3> QED BY <3>3, <3>4 DEF ToSet
  <2> QED BY <2>1, <2>2
<1>6. DOMAIN (a \o b) = 1 .. Len(s) - 1
  BY <1>4
<1> HIDE DEF a, b
<1>7. ToSet(a \o b) \subseteq ToSet(s)
  BY <1>5, <1>6 DEF ToSet
<1> QED BY <1>3, <1>4, <1>7

\* What is left keeps its order, and nothing else is gone.
After(i, k) == IF i < k THEN i ELSE i + 1
LEMMA RemovedIs ==
  ASSUME NEW S, NEW s \in Seq(S), NEW k \in DOMAIN s
  PROVE  /\ \A i \in DOMAIN RemoveAt(s, k) : After(i, k) \in DOMAIN s /\ RemoveAt(s, k)[i] = s[After(i, k)]
         /\ \A i, j \in DOMAIN RemoveAt(s, k) : i # j => After(i, k) # After(j, k)
         /\ ToSet(s) \subseteq ToSet(RemoveAt(s, k)) \cup {s[k]}
<1> DEFINE a == SubSeq(s, 1, k - 1)
           b == SubSeq(s, k + 1, Len(s))
<1>0. k \in 1 .. Len(s) /\ Len(s) \in Nat /\ k \in Int /\ Len(s) \in Int /\ 1 <= k /\ k <= Len(s)
  OBVIOUS
<1>1. a \in Seq(S) /\ Len(a) = k - 1 /\ \A i \in 1 .. k - 1 : a[i] = s[i]
  BY <1>0
<1>2. b \in Seq(S) /\ Len(b) = Len(s) - k /\ \A i \in 1 .. Len(s) - k : b[i] = s[i + k]
  BY <1>0
<1>3. RemoveAt(s, k) = a \o b
  BY DEF RemoveAt
<1> HIDE DEF a, b
<1>4. /\ a \o b \in Seq(S) /\ Len(a \o b) = Len(s) - 1
      /\ \A i \in 1 .. Len(s) - 1 : (a \o b)[i] = IF i <= k - 1 THEN a[i] ELSE b[i - (k - 1)]
  BY <1>0, <1>1, <1>2, ConcatProperties
<1>5. ASSUME NEW i \in 1 .. Len(s) - 1
      PROVE  After(i, k) \in DOMAIN s /\ (a \o b)[i] = s[After(i, k)]
  <2>0. i \in Int /\ 1 <= i /\ i <= Len(s) - 1
    BY <1>0, <1>5
  <2>1. CASE i < k
    <3>1. i <= k - 1 /\ i \in 1 .. k - 1
      BY <1>0, <2>0, <2>1
    <3>2. (a \o b)[i] = s[i]
      BY <1>1, <1>4, <1>5, <3>1
    <3> QED BY <1>0, <2>0, <2>1, <3>2 DEF After
  <2>2. CASE ~(i < k)
    <3> DEFINE j == i - (k - 1)
    <3>1. ~(i <= k - 1) /\ j \in 1 .. Len(s) - k /\ j + k = i + 1
      BY <1>0, <2>0, <2>2
    <3>2. (a \o b)[i] = b[j]
      BY <1>4, <1>5, <3>1
    <3> HIDE DEF j
    <3>3. (a \o b)[i] = s[i + 1]
      BY <1>2, <3>1, <3>2
    <3>4. After(i, k) = i + 1
      BY <2>2 DEF After
    <3>5. i + 1 \in DOMAIN s
      BY <1>0, <2>0
    <3> QED BY <3>3, <3>4, <3>5
  <2> QED BY <2>1, <2>2
<1>6. DOMAIN (a \o b) = 1 .. Len(s) - 1
  BY <1>4
<1>7. \A i, j \in 1 .. Len(s) - 1 : i # j => After(i, k) # After(j, k)
  BY <1>0 DEF After
<1>8. ASSUME NEW n \in DOMAIN s, n # k PROVE s[n] \in ToSet(a \o b)
  <2>0. n \in Int /\ 1 <= n /\ n <= Len(s)
    BY <1>0, <1>8
  <2>1. PICK i \in 1 .. Len(s) - 1 : After(i, k) = n
    <3>1. CASE n < k
      <4>1. n \in 1 .. Len(s) - 1 /\ After(n, k) = n
        BY <1>0, <2>0, <3>1 DEF After
      <4> QED BY <4>1
    <3>2. CASE ~(n < k)
      <4>1. n - 1 \in 1 .. Len(s) - 1 /\ After(n - 1, k) = n
        BY <1>0, <1>8, <2>0, <3>2 DEF After
      <4> QED BY <4>1
    <3> QED BY <3>1, <3>2
  <2> QED BY <1>5, <1>6, <2>1 DEF ToSet
<1>9. ToSet(s) \subseteq ToSet(a \o b) \cup {s[k]}
  BY <1>8 DEF ToSet
<1> QED BY <1>3, <1>5, <1>6, <1>7, <1>9

LEMMA Product == ASSUME NEW a \in Nat, NEW b \in Nat PROVE a * b \in Nat
OBVIOUS

-----------------------------------------------------------------------------
(***************************************************************************)
(* The shape of the state.  The bound on the calls of all threads bounds   *)
(* each thread's and each process's count.                                 *)
(***************************************************************************)
Counted ==
  /\ \A th \in Threads : serial[th] <= made /\ (phase[th] # "idle" => serial[th] >= 1)
  /\ \A p \in Processes : counter[p] <= made
Types == TypeOK /\ Counted

LEMMA TypesInit == Init => Types
<1> SUFFICES ASSUME Init PROVE Types
  OBVIOUS
<1>1. Handed = {}
  BY DEF Init, Handed
<1>2. requests \in Seq(Message) /\ replies \in Seq(Message) /\ Len(requests) = 0 /\ Len(replies) = 0
  BY DEF Init
<1> QED BY <1>1, <1>2, ServiceAssumption DEF Init, Types, TypeOK, Counted

\* A call in progress has a name.
LEMMA NamedCall ==
  ASSUME Types, NEW th \in Threads, phase[th] # "idle"
  PROVE  Call(th) \in Calls /\ [id |-> id[th], call |-> Call(th)] \in Message
<1>1. serial[th] \in 1 .. MaxCalls
  <2>1. serial[th] \in 0 .. MaxCalls /\ serial[th] >= 1
    BY DEF Types, TypeOK, Counted
  <2> QED BY <2>1, ServiceAssumption
<1>2. Call(th) \in Calls
  BY <1>1 DEF Call, Calls
<1>3. id[th] \in Nat
  BY DEF Types, TypeOK
<1> QED BY <1>2, <1>3 DEF Message

\* What workers hold.
LEMMA HandedIs ==
  /\ \A w \in Workers : stage[w] # "idle" => hand[w] \in Handed
  /\ \A m \in Handed : \E w \in Workers : stage[w] # "idle" /\ hand[w] = m
BY DEF Handed

\* The steps that only move a thread's phase on.
LEMMA PhaseStep ==
  ASSUME Types, UNCHANGED <<process, id, serial, requests, replies, stage, hand, executed>>,
         phase' \in [Threads -> {"idle", "sending", "waiting"}],
         \A th \in Threads : phase'[th] # "idle" => phase[th] # "idle",
         faults' \in 0 .. MaxFaults
  PROVE  Types'
<1>1. Handed' = Handed
  BY DEF Handed
<1>2. TypeOK'
  BY <1>1 DEF Types, TypeOK, process
<1>3. Counted'
  BY DEF Types, Counted, process
<1> QED BY <1>2, <1>3 DEF Types

\* The steps of the workers.
LEMMA WorkerStep ==
  ASSUME Types, UNCHANGED <<process, phase, id, serial>>,
         requests' \in Seq(Message), Len(requests') <= RequestSlots,
         replies' \in Seq(Message), Len(replies') <= ReplySlots,
         stage' \in [Workers -> {"idle", "executing", "replying"}],
         hand' \in [Workers -> Message \cup {NoMessage}],
         \A w \in Workers : stage'[w] # "idle" => hand'[w] \in Message,
         executed' \in [Calls -> Nat], faults' \in 0 .. MaxFaults
  PROVE  Types'
<1>1. Handed' \subseteq Message
  BY DEF Handed
<1>2. TypeOK'
  BY <1>1 DEF Types, TypeOK, process
<1>3. Counted'
  BY DEF Types, Counted, process
<1> QED BY <1>2, <1>3 DEF Types

LEMMA TypesNext == Types /\ [Next]_vars => Types'
<1> SUFFICES ASSUME Types, [Next]_vars PROVE Types'
  OBVIOUS
<1>0. \A w \in Workers : stage[w] # "idle" => hand[w] \in Message
  BY HandedIs DEF Types, TypeOK
<1>a. Fault => faults' \in 0 .. MaxFaults
  BY ServiceAssumption DEF Fault, Types, TypeOK
<1>1. ASSUME NEW th \in Threads, Begin(th) PROVE Types'
  <2> DEFINE p == ProcessOf[th]
  <2>0. p \in Processes
    BY ServiceAssumption
  <2>1. /\ made' = made + 1 /\ made' \in 0 .. MaxCalls /\ made \in Nat
    BY <1>1, ServiceAssumption DEF Begin, Types, TypeOK
  <2>2. /\ counter' = [counter EXCEPT ![p] = @ + 1] /\ serial' = [serial EXCEPT ![th] = @ + 1]
        /\ phase' = [phase EXCEPT ![th] = "sending"] /\ id' = [id EXCEPT ![th] = pid[p] * IdBase + counter'[p]]
        /\ UNCHANGED <<pid, spare, requests, replies, stage, hand, executed, faults>>
    BY <1>1 DEF Begin, engine
  <2>3. Handed' = Handed
    BY <2>2 DEF Handed
  <2>4. counter' \in [Processes -> Nat] /\ \A q \in Processes : counter'[q] <= made'
    <3>1. counter \in [Processes -> Nat] /\ \A q \in Processes : counter[q] <= made
      BY DEF Types, TypeOK, Counted
    <3>2. \A q \in Processes : counter'[q] = IF q = p THEN counter[q] + 1 ELSE counter[q]
      BY <2>2, <3>1
    <3>3. \A q \in Processes : counter'[q] \in Nat /\ counter'[q] <= made'
      BY <2>1, <3>1, <3>2
    <3>4. counter' = [q \in Processes |-> counter'[q]]
      BY <2>2, <3>1
    <3> QED BY <3>3, <3>4
  <2>5. pid[p] * IdBase + counter'[p] \in Nat
    <3>1. pid[p] \in Nat /\ counter'[p] \in Nat /\ IdBase \in Nat
      BY <2>0, <2>4, ServiceAssumption DEF Types, TypeOK
    <3> QED BY <3>1, Product
  <2>6. serial' \in [Threads -> 0 .. MaxCalls] /\ \A u \in Threads : serial'[u] <= made' /\ serial'[u] >= serial[u]
    <3>1. \A u \in Threads : serial'[u] = IF u = th THEN serial[u] + 1 ELSE serial[u]
      BY <2>2 DEF Types, TypeOK
    <3>2. \A u \in Threads : serial[u] \in Nat /\ serial[u] <= made
      BY ServiceAssumption DEF Types, TypeOK, Counted
    <3>3. \A u \in Threads : serial'[u] \in Nat /\ serial'[u] <= made' /\ serial'[u] >= serial[u]
      BY <2>1, <3>1, <3>2
    <3>4. \A u \in Threads : serial'[u] \in 0 .. MaxCalls
      BY <2>1, <3>3, ServiceAssumption
    <3>5. DOMAIN serial' = Threads /\ serial' = [u \in Threads |-> serial'[u]]
      BY <2>2 DEF Types, TypeOK
    <3> QED BY <3>3, <3>4, <3>5
  <2>7. \A u \in Threads : phase'[u] # "idle" => serial'[u] >= 1
    <3>1. serial'[th] >= 1
      BY <2>2 DEF Types, TypeOK
    <3>2. ASSUME NEW u \in Threads, u # th, phase'[u] # "idle" PROVE serial'[u] >= 1
      <4>1. serial'[u] = serial[u] /\ phase[u] # "idle"
        BY <2>2, <3>2 DEF Types, TypeOK
      <4> QED BY <4>1 DEF Types, Counted
    <3> QED BY <3>1, <3>2
  <2>8. phase' \in [Threads -> {"idle", "sending", "waiting"}] /\ id' \in [Threads -> Nat]
    BY <2>2, <2>5 DEF Types, TypeOK
  <2>9. TypeOK'
    BY <2>1, <2>2, <2>3, <2>4, <2>6, <2>8 DEF Types, TypeOK
  <2> QED BY <2>4, <2>6, <2>7, <2>9 DEF Types, Counted
<1>2. ASSUME NEW th \in Threads, SendRequest(th) PROVE Types'
  <2>1. /\ phase[th] = "sending" /\ Len(requests) < RequestSlots
        /\ requests' = Append(requests, [id |-> id[th], call |-> Call(th)])
        /\ phase' = [phase EXCEPT ![th] = "waiting"]
        /\ UNCHANGED <<process, id, serial, replies, stage, hand, executed, faults>>
    BY <1>2 DEF SendRequest, engine
  <2>2. requests' \in Seq(Message) /\ Len(requests') = Len(requests) + 1
    BY <2>1, NamedCall, Appended DEF Types, TypeOK
  <2>3. Len(requests') <= RequestSlots
    BY <2>1, <2>2, ServiceAssumption DEF Types, TypeOK
  <2>4. Handed' = Handed
    BY <2>1 DEF Handed
  <2>5. TypeOK'
    BY <2>1, <2>2, <2>3, <2>4 DEF Types, TypeOK, process
  <2>6. Counted'
    BY <2>1 DEF Types, TypeOK, Counted, process
  <2> QED BY <2>5, <2>6 DEF Types
<1>3. ASSUME NEW th \in Threads, TakeReply(th) PROVE Types'
  <2>1. PICK k \in Mine(th) : replies' = RemoveAt(replies, k)
    BY <1>3 DEF TakeReply
  <2>2. /\ phase' = [phase EXCEPT ![th] = "idle"]
        /\ UNCHANGED <<process, id, serial, requests, stage, hand, executed, faults>>
    BY <1>3 DEF TakeReply, engine
  <2>3. k \in DOMAIN replies
    BY DEF Mine
  <2>4. replies' \in Seq(Message) /\ Len(replies') <= ReplySlots
    BY <2>1, <2>3, Removed, ServiceAssumption DEF Types, TypeOK
  <2>5. Handed' = Handed
    BY <2>2 DEF Handed
  <2>6. TypeOK'
    BY <2>2, <2>4, <2>5 DEF Types, TypeOK, process
  <2>7. Counted'
    BY <2>2 DEF Types, TypeOK, Counted, process
  <2> QED BY <2>6, <2>7 DEF Types
<1>4. ASSUME NEW th \in Threads, CallFails(th) PROVE Types'
  <2>1. phase' = [phase EXCEPT ![th] = "idle"] /\ UNCHANGED <<process, id, serial, requests, replies, stage, hand, executed>>
    BY <1>4 DEF CallFails
  <2>2. /\ phase' \in [Threads -> {"idle", "sending", "waiting"}]
        /\ \A u \in Threads : phase'[u] # "idle" => phase[u] # "idle"
    BY <2>1 DEF Types, TypeOK
  <2> QED BY <1>4, <1>a, <2>1, <2>2, PhaseStep DEF CallFails
<1>5. ASSUME NEW p \in Processes, ClientRestarts(p) PROVE Types'
  <2>1. PICK n \in spare : pid' = [pid EXCEPT ![p] = n] /\ spare' = spare \ {n}
    BY <1>5 DEF ClientRestarts
  <2>2. /\ counter' = [counter EXCEPT ![p] = 0]
        /\ phase' = [th \in Threads |-> IF ProcessOf[th] = p THEN "idle" ELSE phase[th]]
        /\ UNCHANGED <<id, serial, made, requests, replies, stage, hand, executed, faults>>
    BY <1>5 DEF ClientRestarts, engine
  <2>3. Handed' = Handed
    BY <2>2 DEF Handed
  <2>4. pid' \in [Processes -> Nat] /\ spare' \subseteq SparePids
    BY <2>1, ServiceAssumption DEF Types, TypeOK
  <2>5. counter' \in [Processes -> Nat] /\ \A q \in Processes : counter'[q] <= made'
    BY <2>2, ServiceAssumption DEF Types, TypeOK, Counted
  <2>6. phase' \in [Threads -> {"idle", "sending", "waiting"}] /\ \A u \in Threads : phase'[u] # "idle" => phase[u] # "idle"
    BY <2>2 DEF Types, TypeOK
  <2>7. TypeOK'
    BY <2>2, <2>3, <2>4, <2>5, <2>6 DEF Types, TypeOK
  <2> QED BY <2>2, <2>5, <2>6, <2>7 DEF Types, Counted
<1>6. ASSUME NEW w \in Workers, TakeRequest(w) PROVE Types'
  <2>1. /\ requests # <<>> /\ hand' = [hand EXCEPT ![w] = Head(requests)] /\ requests' = Tail(requests)
        /\ stage' = [stage EXCEPT ![w] = "executing"]
        /\ UNCHANGED <<process, phase, id, serial, replies, executed, faults>>
    BY <1>6 DEF TakeRequest
  <2>2. Head(requests) \in Message /\ requests' \in Seq(Message) /\ Len(requests') = Len(requests) - 1
    BY <2>1, Taken DEF Types, TypeOK
  <2>3. Len(requests') <= RequestSlots
    BY <2>2, ServiceAssumption DEF Types, TypeOK
  <2>4. /\ stage' \in [Workers -> {"idle", "executing", "replying"}]
        /\ hand' \in [Workers -> Message \cup {NoMessage}]
        /\ \A v \in Workers : stage'[v] # "idle" => hand'[v] \in Message
    BY <1>0, <2>1, <2>2 DEF Types, TypeOK
  <2> QED BY <2>1, <2>2, <2>3, <2>4, WorkerStep DEF Types, TypeOK
<1>7. ASSUME NEW w \in Workers, Execute(w) PROVE Types'
  <2>1. /\ stage[w] = "executing" /\ executed' = [executed EXCEPT ![hand[w].call] = @ + 1]
        /\ stage' = [stage EXCEPT ![w] = "replying"]
        /\ UNCHANGED <<process, phase, id, serial, requests, replies, hand, faults>>
    BY <1>7 DEF Execute
  <2>2. executed' \in [Calls -> Nat]
    <3> DEFINE c == hand[w].call
    <3>1. executed' = [executed EXCEPT ![c] = @ + 1] /\ executed \in [Calls -> Nat]
      BY <2>1 DEF Types, TypeOK
    <3> HIDE DEF c
    <3>2. executed' = [d \in Calls |-> IF d = c THEN executed[d] + 1 ELSE executed[d]]
      BY <3>1
    <3>3. \A d \in Calls : executed[d] \in Nat
      BY <3>1
    <3>4. \A d \in Calls : executed'[d] \in Nat
      BY <3>2, <3>3
    <3> QED BY <3>2, <3>4
  <2>3. /\ stage' \in [Workers -> {"idle", "executing", "replying"}]
        /\ \A v \in Workers : stage'[v] # "idle" => hand'[v] \in Message
    BY <1>0, <2>1 DEF Types, TypeOK
  <2> QED BY <2>1, <2>2, <2>3, WorkerStep DEF Types, TypeOK
<1>8. ASSUME NEW w \in Workers, SendReply(w) PROVE Types'
  <2>1. /\ stage[w] = "replying" /\ Len(replies) < ReplySlots /\ replies' = Append(replies, hand[w])
        /\ hand' = [hand EXCEPT ![w] = NoMessage] /\ stage' = [stage EXCEPT ![w] = "idle"]
        /\ UNCHANGED <<process, phase, id, serial, requests, executed, faults>>
    BY <1>8 DEF SendReply
  <2>2. replies' \in Seq(Message) /\ Len(replies') = Len(replies) + 1
    BY <1>0, <2>1, Appended DEF Types, TypeOK
  <2>3. Len(replies') <= ReplySlots
    BY <2>1, <2>2, ServiceAssumption DEF Types, TypeOK
  <2>4. /\ stage' \in [Workers -> {"idle", "executing", "replying"}]
        /\ hand' \in [Workers -> Message \cup {NoMessage}]
        /\ \A v \in Workers : stage'[v] # "idle" => hand'[v] \in Message
    BY <1>0, <2>1 DEF Types, TypeOK
  <2> QED BY <2>1, <2>2, <2>3, <2>4, WorkerStep DEF Types, TypeOK
<1>9. ASSUME NEW w \in Workers, ReplyFails(w) PROVE Types'
  <2>1. /\ hand' = [hand EXCEPT ![w] = NoMessage] /\ stage' = [stage EXCEPT ![w] = "idle"]
        /\ UNCHANGED <<process, phase, id, serial, requests, replies, executed>> /\ faults' \in 0 .. MaxFaults
    BY <1>9, <1>a DEF ReplyFails
  <2>4. /\ stage' \in [Workers -> {"idle", "executing", "replying"}]
        /\ hand' \in [Workers -> Message \cup {NoMessage}]
        /\ \A v \in Workers : stage'[v] # "idle" => hand'[v] \in Message
    BY <1>0, <2>1 DEF Types, TypeOK
  <2> QED BY <2>1, <2>4, WorkerStep DEF Types, TypeOK
<1>10. CASE EngineRestarts
  <2>1. /\ hand' = [w \in Workers |-> NoMessage] /\ stage' = [w \in Workers |-> "idle"]
        /\ UNCHANGED <<process, phase, id, serial, requests, replies, executed>> /\ faults' \in 0 .. MaxFaults
    BY <1>10, <1>a DEF EngineRestarts
  <2> QED BY <2>1, WorkerStep DEF Types, TypeOK
<1>11. CASE UNCHANGED vars
  <2>1. UNCHANGED <<process, phase, id, serial, requests, replies, stage, hand, executed, faults>>
    BY <1>11 DEF vars, process
  <2> QED BY <2>1, PhaseStep DEF Types, TypeOK
<1> QED BY <1>1, <1>2, <1>3, <1>4, <1>5, <1>6, <1>7, <1>8, <1>9, <1>10, <1>11 DEF Next

\* The queues stay within their bounds, and hold requests of calls that were made.
THEOREM QueuesBounded == Spec => []TypeOK
<1>1. Types => TypeOK
  BY DEF Types
<1> QED BY TypesInit, TypesNext, <1>1, PTL DEF Spec

-----------------------------------------------------------------------------
(***************************************************************************)
(* Ids.  An id is a pid and a count; while no process makes more than      *)
(* IdBase calls, the two can be read off it.  An id was given out if its   *)
(* pid is no longer to be had and its count not ahead of the process's.    *)
(***************************************************************************)
Past(i, free, pids, counts) == \E n \in Nat, k \in 1 .. IdBase :
  /\ i = n * IdBase + k /\ n \notin free
  /\ \A p \in Processes : pids[p] = n => k <= counts[p]
Pids == /\ \A p, q \in Processes : p # q => pid[p] # pid[q]
        /\ \A p \in Processes : pid[p] \notin spare
IdsInv ==
  /\ Pids
  /\ \A th \in Threads : phase[th] # "idle" => Past(id[th], spare, pid, counter)
  /\ \A m \in InFlight : Past(m.id, spare, pid, counter)
  /\ \A th, u \in Threads : th # u /\ phase[th] # "idle" /\ phase[u] # "idle" => id[th] # id[u]
  /\ \A th \in Threads, m \in InFlight : phase[th] # "idle" /\ m.id = id[th] => m.call = Call(th)

LEMMA SmallerPid ==
  ASSUME NEW b \in Nat, NEW n \in Nat, NEW m \in Nat, NEW k \in 1 .. b, NEW j \in 1 .. b, n < m
  PROVE  n * b + k < m * b + j
<1>1. PICK d \in Nat : m = n + 1 + d
  <2>1. m - n - 1 \in Nat /\ m = n + 1 + (m - n - 1)
    OBVIOUS
  <2> QED BY <2>1
<1>2. d * b \in Nat /\ n * b \in Nat
  BY Product
<1>3. m * b = n * b + b + d * b
  BY <1>1
<1>4. k <= b /\ j >= 1
  OBVIOUS
<1> QED BY <1>2, <1>3, <1>4

LEMMA SplitId ==
  ASSUME NEW n \in Nat, NEW m \in Nat, NEW k \in 1 .. IdBase, NEW j \in 1 .. IdBase,
         n * IdBase + k = m * IdBase + j
  PROVE  n = m /\ k = j
<1>0. IdBase \in Nat
  BY ServiceAssumption
<1>1. ~(n < m)
  <2>1. n < m => n * IdBase + k < m * IdBase + j
    BY <1>0, SmallerPid
  <2>2. n * IdBase \in Nat /\ m * IdBase \in Nat
    BY <1>0, Product
  <2> QED BY <2>1, <2>2
<1>2. ~(m < n)
  <2>1. m < n => m * IdBase + j < n * IdBase + k
    BY <1>0, SmallerPid
  <2>2. n * IdBase \in Nat /\ m * IdBase \in Nat
    BY <1>0, Product
  <2> QED BY <2>1, <2>2
<1>3. n = m
  BY <1>1, <1>2
<1>4. n * IdBase \in Nat
  BY <1>0, Product
<1> QED BY <1>3, <1>4

LEMMA PastStays ==
  ASSUME Types, spare' \subseteq spare,
         \A p \in Processes : pid'[p] \in spare \/ (pid'[p] = pid[p] /\ counter'[p] \in Nat /\ counter'[p] >= counter[p]),
         NEW i, Past(i, spare, pid, counter)
  PROVE  Past(i, spare', pid', counter')
<1>1. PICK n \in Nat, k \in 1 .. IdBase :
        /\ i = n * IdBase + k /\ n \notin spare
        /\ \A p \in Processes : pid[p] = n => k <= counter[p]
  BY DEF Past
<1>2. ASSUME NEW p \in Processes, pid'[p] = n PROVE k <= counter'[p]
  <2>1. pid[p] = n /\ counter'[p] \in Nat /\ counter'[p] >= counter[p]
    BY <1>1, <1>2
  <2>2. counter[p] \in Nat /\ k \in Int /\ k <= counter[p]
    BY <1>1, <2>1 DEF Types, TypeOK
  <2> QED BY <2>1, <2>2
<1> QED BY <1>1, <1>2 DEF Past

\* The steps other than Begin.
LEMMA IdsStep ==
  ASSUME Types, IdsInv, id' = id, serial' = serial, spare' \subseteq spare, Pids',
         \A p \in Processes : pid'[p] \in spare \/ (pid'[p] = pid[p] /\ counter'[p] = counter[p]),
         \A th \in Threads : phase'[th] # "idle" => phase[th] # "idle",
         \A m \in InFlight' : \/ m \in InFlight
                              \/ \E th \in Threads : phase[th] # "idle" /\ m = [id |-> id[th], call |-> Call(th)]
  PROVE  IdsInv'
<1>1. ASSUME NEW i, Past(i, spare, pid, counter) PROVE Past(i, spare', pid', counter')
  <2>1. \A p \in Processes : counter[p] \in Nat /\ counter[p] >= counter[p]
    BY DEF Types, TypeOK
  <2> QED BY <1>1, <2>1, PastStays
<1>2. \A th \in Threads : phase'[th] # "idle" => Past(id'[th], spare', pid', counter')
  BY <1>1 DEF IdsInv
<1>3. ASSUME NEW m \in InFlight' PROVE Past(m.id, spare, pid, counter)
  BY <1>3 DEF IdsInv
<1>4. ASSUME NEW th \in Threads, NEW m \in InFlight', phase'[th] # "idle", m.id = id'[th] PROVE m.call = Call(th)'
  <2>1. phase[th] # "idle" /\ m.id = id[th] /\ Call(th)' = Call(th)
    BY <1>4 DEF Call
  <2>2. CASE m \in InFlight
    BY <2>1, <2>2 DEF IdsInv
  <2>3. ASSUME NEW u \in Threads, phase[u] # "idle", m = [id |-> id[u], call |-> Call(u)] PROVE m.call = Call(th)'
    BY <2>1, <2>3 DEF IdsInv
  <2> QED BY <2>2, <2>3
<1> QED BY <1>1, <1>2, <1>3, <1>4 DEF IdsInv

LEMMA BeginIds ==
  ASSUME Types, MaxCalls <= IdBase, IdsInv, NEW th \in Threads, Begin(th)
  PROVE  IdsInv'
<1> DEFINE p == ProcessOf[th]
           k == counter[p] + 1
<1>0. p \in Processes
  BY ServiceAssumption
<1>1. /\ counter' = [counter EXCEPT ![p] = @ + 1] /\ serial' = [serial EXCEPT ![th] = @ + 1]
      /\ phase' = [phase EXCEPT ![th] = "sending"] /\ id' = [id EXCEPT ![th] = pid[p] * IdBase + counter'[p]]
      /\ phase[th] = "idle" /\ made < MaxCalls
      /\ UNCHANGED <<pid, spare, requests, replies, stage, hand>>
  BY DEF Begin, engine
<1>2. k \in 1 .. IdBase /\ counter'[p] = k
  <2>1. counter[p] \in Nat /\ counter[p] <= made /\ made \in Nat /\ MaxCalls \in Nat /\ IdBase \in Nat
    BY <1>0, ServiceAssumption DEF Types, TypeOK, Counted
  <2>2. counter'[p] = k
    BY <1>0, <1>1 DEF Types, TypeOK
  <2> QED BY <1>1, <2>1, <2>2
<1>3. pid[p] \in Nat /\ pid[p] \notin spare
  BY <1>0 DEF Types, TypeOK, IdsInv, Pids
<1>4. id'[th] = pid[p] * IdBase + k /\ \A u \in Threads \ {th} : id'[u] = id[u] /\ phase'[u] = phase[u] /\ Call(u)' = Call(u)
  BY <1>1, <1>2 DEF Types, TypeOK, Call
<1>5. InFlight' = InFlight
  BY <1>1 DEF InFlight, Handed
<1>6. ASSUME NEW i, Past(i, spare, pid, counter) PROVE Past(i, spare', pid', counter') /\ i # id'[th]
  <2>1. Past(i, spare', pid', counter')
    <3>1. \A q \in Processes : counter'[q] \in Nat /\ counter'[q] >= counter[q]
      <4>1. \A q \in Processes : counter[q] \in Nat /\ counter'[q] = IF q = p THEN counter[q] + 1 ELSE counter[q]
        BY <1>1 DEF Types, TypeOK
      <4> QED BY <4>1
    <3> QED BY <1>1, <1>6, <3>1, PastStays
  <2>2. ASSUME i = id'[th] PROVE FALSE
    <3>1. PICK n \in Nat, j \in 1 .. IdBase :
            i = n * IdBase + j /\ \A q \in Processes : pid[q] = n => j <= counter[q]
      BY <1>6 DEF Past
    <3>2. n = pid[p] /\ j = k
      BY <1>2, <1>3, <1>4, <2>2, <3>1, SplitId
    <3>3. k <= counter[p] /\ counter[p] \in Nat
      BY <1>0, <3>1, <3>2 DEF Types, TypeOK
    <3> QED BY <3>3
  <2> QED BY <2>1, <2>2
<1>7. Past(id'[th], spare', pid', counter')
  <2>1. ASSUME NEW q \in Processes, pid'[q] = pid[p] PROVE k <= counter'[q]
    <3>1. q = p
      BY <1>0, <1>1, <2>1 DEF IdsInv, Pids
    <3> QED BY <1>2, <3>1
  <2> QED BY <1>1, <1>2, <1>3, <1>4, <2>1 DEF Past
<1>8. \A u \in Threads \ {th} : phase'[u] # "idle" => Past(id[u], spare, pid, counter) /\ Past(id'[u], spare', pid', counter') /\ id'[u] # id'[th]
  BY <1>4, <1>6 DEF IdsInv
<1>9. \A m \in InFlight' : Past(m.id, spare', pid', counter') /\ m.id # id'[th]
  BY <1>5, <1>6 DEF IdsInv
<1>10. Pids'
  BY <1>1 DEF IdsInv, Pids
<1>11. \A u, v \in Threads : u # v /\ phase'[u] # "idle" /\ phase'[v] # "idle" => id'[u] # id'[v]
  BY <1>4, <1>8 DEF IdsInv
<1>12. \A u \in Threads, m \in InFlight' : phase'[u] # "idle" /\ m.id = id'[u] => m.call = Call(u)'
  BY <1>4, <1>5, <1>9 DEF IdsInv
<1>13. \A u \in Threads : phase'[u] # "idle" => Past(id'[u], spare', pid', counter')
  BY <1>7, <1>8
<1> QED BY <1>9, <1>10, <1>11, <1>12, <1>13 DEF IdsInv

\* What a step of the others puts in flight: nothing new, or the request of a
\* thread that has a call to make.
Started == {[id |-> id[th], call |-> Call(th)] : th \in {u \in Threads : phase[u] # "idle"}}

LEMMA Carried ==
  ASSUME Types, Next, \A th \in Threads : ~Begin(th)
  PROVE  /\ id' = id /\ serial' = serial /\ InFlight' \subseteq InFlight \cup Started
         /\ \A th \in Threads : phase'[th] # "idle" => phase[th] # "idle"
<1>1. ASSUME NEW th \in Threads, SendRequest(th)
      PROVE  ToSet(requests') = ToSet(requests) \cup {[id |-> id[th], call |-> Call(th)]} /\ phase[th] # "idle"
  <2>1. phase[th] = "sending" /\ requests' = Append(requests, [id |-> id[th], call |-> Call(th)])
    BY <1>1 DEF SendRequest
  <2> QED BY <2>1, NamedCall, Appended DEF Types, TypeOK
<1>2. ASSUME NEW th \in Threads, TakeReply(th) PROVE ToSet(replies') \subseteq ToSet(replies)
  <2>1. PICK k \in DOMAIN replies : replies' = RemoveAt(replies, k)
    BY <1>2 DEF TakeReply, Mine
  <2> QED BY <2>1, Removed DEF Types, TypeOK
<1>3. ASSUME NEW w \in Workers, TakeRequest(w)
      PROVE  ToSet(requests') \subseteq ToSet(requests) /\ Handed' \subseteq Handed \cup ToSet(requests)
  <2>1. /\ requests # <<>> /\ hand' = [hand EXCEPT ![w] = Head(requests)] /\ requests' = Tail(requests)
        /\ stage' = [stage EXCEPT ![w] = "executing"]
    BY <1>3 DEF TakeRequest
  <2>2. Head(requests) \in ToSet(requests) /\ ToSet(requests') \subseteq ToSet(requests)
    BY <2>1, Taken DEF Types, TypeOK
  <2>3. /\ hand'[w] = Head(requests)
        /\ \A v \in Workers \ {w} : hand'[v] = hand[v] /\ stage'[v] = stage[v]
    BY <2>1 DEF Types, TypeOK
  <2> QED BY <2>2, <2>3 DEF Handed
<1>4. ASSUME NEW w \in Workers, SendReply(w)
      PROVE  ToSet(replies') \subseteq ToSet(replies) \cup Handed
  <2>1. stage[w] = "replying" /\ replies' = Append(replies, hand[w])
    BY <1>4 DEF SendReply
  <2>2. hand[w] \in Handed /\ hand[w] \in Message
    BY <2>1, HandedIs DEF Types, TypeOK
  <2> QED BY <2>1, <2>2, Appended DEF Types, TypeOK
<1>5. ASSUME NEW w \in Workers, Execute(w) \/ SendReply(w) \/ ReplyFails(w) PROVE Handed' \subseteq Handed
  <2>1. \A v \in Workers : stage'[v] # "idle" => stage[v] # "idle" /\ hand'[v] = hand[v]
    BY <1>5 DEF Execute, SendReply, ReplyFails, Types, TypeOK
  <2> QED BY <2>1 DEF Handed
<1>6. EngineRestarts => Handed' = {}
  BY DEF EngineRestarts, Handed
<1>7. UNCHANGED <<stage, hand>> => Handed' = Handed
  BY DEF Handed
<1>a. \A S : InFlight' \subseteq InFlight \cup S <=> ToSet(requests') \cup Handed' \cup ToSet(replies') \subseteq InFlight \cup S
  BY DEF InFlight
<1>8. ASSUME NEW th \in Threads, SendRequest(th) \/ TakeReply(th) \/ CallFails(th)
      PROVE  /\ id' = id /\ serial' = serial /\ InFlight' \subseteq InFlight \cup Started
             /\ \A u \in Threads : phase'[u] # "idle" => phase[u] # "idle"
  <2>1. UNCHANGED <<id, serial, stage, hand>>
    BY <1>8 DEF SendRequest, TakeReply, CallFails, engine
  <2>2. \A u \in Threads : phase'[u] # "idle" => phase[u] # "idle"
    BY <1>8 DEF SendRequest, TakeReply, CallFails, Types, TypeOK
  <2>3. CASE SendRequest(th)
    <3>1. replies' = replies
      BY <2>3 DEF SendRequest
    <3>2. [id |-> id[th], call |-> Call(th)] \in Started
      BY <1>1, <2>3 DEF Started
    <3> QED BY <1>1, <1>7, <2>1, <2>2, <2>3, <3>1, <3>2 DEF InFlight
  <2>4. CASE TakeReply(th)
    <3>1. requests' = requests
      BY <2>4 DEF TakeReply
    <3> QED BY <1>2, <1>7, <2>1, <2>2, <2>4, <3>1 DEF InFlight
  <2>5. CASE CallFails(th)
    <3>1. requests' = requests /\ replies' = replies
      BY <2>5 DEF CallFails
    <3> QED BY <1>7, <2>1, <2>2, <3>1 DEF InFlight
  <2> QED BY <1>8, <2>3, <2>4, <2>5
<1>9. ASSUME NEW p \in Processes, ClientRestarts(p)
      PROVE  /\ id' = id /\ serial' = serial /\ InFlight' = InFlight
             /\ \A u \in Threads : phase'[u] # "idle" => phase[u] # "idle"
  <2>1. UNCHANGED <<id, serial, requests, replies, stage, hand>>
    BY <1>9 DEF ClientRestarts, engine
  <2>2. \A u \in Threads : phase'[u] # "idle" => phase[u] # "idle"
    BY <1>9 DEF ClientRestarts
  <2> QED BY <1>7, <2>1, <2>2 DEF InFlight
<1>10. ASSUME NEW w \in Workers, TakeRequest(w) \/ Execute(w) \/ SendReply(w) \/ ReplyFails(w)
       PROVE  UNCHANGED <<id, serial, phase>> /\ InFlight' \subseteq InFlight
  <2>1. UNCHANGED <<id, serial, phase>>
    BY <1>10 DEF TakeRequest, Execute, SendReply, ReplyFails
  <2>2. CASE TakeRequest(w)
    <3>1. replies' = replies
      BY <2>2 DEF TakeRequest
    <3> QED BY <1>3, <2>1, <2>2, <3>1 DEF InFlight
  <2>3. CASE Execute(w) \/ ReplyFails(w)
    <3>1. requests' = requests /\ replies' = replies
      BY <2>3 DEF Execute, ReplyFails
    <3> QED BY <1>5, <2>1, <2>3, <3>1 DEF InFlight
  <2>4. CASE SendReply(w)
    <3>1. requests' = requests
      BY <2>4 DEF SendReply
    <3> QED BY <1>4, <1>5, <2>1, <2>4, <3>1 DEF InFlight
  <2> QED BY <1>10, <2>2, <2>3, <2>4
<1>11. CASE EngineRestarts
  <2>1. UNCHANGED <<id, serial, phase, requests, replies>>
    BY <1>11 DEF EngineRestarts
  <2> QED BY <1>6, <1>11, <2>1 DEF InFlight
<1> QED BY <1>8, <1>9, <1>10, <1>11, Zenon DEF Next

LEMMA IdsNext == ASSUME MaxCalls <= IdBase, Types, IdsInv, [Next]_vars PROVE IdsInv'
<1>1. CASE \E th \in Threads : Begin(th)
  BY <1>1, BeginIds
<1>2. CASE Next /\ \A th \in Threads : ~Begin(th)
  <2>1. /\ id' = id /\ serial' = serial /\ InFlight' \subseteq InFlight \cup Started
        /\ \A th \in Threads : phase'[th] # "idle" => phase[th] # "idle"
    BY <1>2, Carried
  <2>2. \A m \in InFlight' : \/ m \in InFlight
                             \/ \E th \in Threads : phase[th] # "idle" /\ m = [id |-> id[th], call |-> Call(th)]
    BY <2>1 DEF Started
  <2>3. CASE \E p \in Processes : ClientRestarts(p)
    <3>1. PICK p \in Processes : ClientRestarts(p)
      BY <2>3
    <3>2. PICK n \in spare : pid' = [pid EXCEPT ![p] = n] /\ spare' = spare \ {n}
      BY <3>1 DEF ClientRestarts
    <3>3. counter' = [counter EXCEPT ![p] = 0]
      BY <3>1 DEF ClientRestarts
    <3>4. pid'[p] = n /\ \A q \in Processes \ {p} : pid'[q] = pid[q] /\ counter'[q] = counter[q]
      BY <3>2, <3>3 DEF Types, TypeOK
    <3>5. Pids'
      BY <3>2, <3>4 DEF IdsInv, Pids
    <3> QED BY <2>1, <2>2, <3>2, <3>4, <3>5, IdsStep
  <2>4. CASE \A p \in Processes : ~ClientRestarts(p)
    <3>1. UNCHANGED <<pid, spare, counter>>
      BY <1>2, <2>4 DEF Next, SendRequest, TakeReply, CallFails, TakeRequest, Execute, SendReply, ReplyFails,
         EngineRestarts, process
    <3>2. Pids'
      BY <3>1 DEF IdsInv, Pids
    <3> QED BY <2>1, <2>2, <3>1, <3>2, IdsStep
  <2> QED BY <2>3, <2>4
<1>3. CASE UNCHANGED vars
  <2>1. InFlight' = InFlight /\ UNCHANGED <<pid, spare, counter, id, serial, phase>>
    BY <1>3 DEF vars, InFlight, Handed
  <2> QED BY <2>1 DEF IdsInv, Pids, Call
<1> QED BY <1>1, <1>2, <1>3

LEMMA IdsInit == Init => IdsInv
<1> SUFFICES ASSUME Init PROVE IdsInv
  OBVIOUS
<1>1. Pids
  BY ServiceAssumption DEF Init, Pids
<1>2. InFlight = {}
  <2>1. Handed = {}
    BY DEF Init, Handed
  <2>2. ToSet(requests) = {} /\ ToSet(replies) = {}
    BY DEF Init, ToSet
  <2> QED BY <2>1, <2>2 DEF InFlight
<1>3. \A th \in Threads : phase[th] = "idle"
  BY DEF Init
<1> QED BY <1>1, <1>2, <1>3 DEF IdsInv

\* While no process makes more calls than there are ids for a pid, the answer a
\* thread waits for is the answer to its own call: not to one of another thread
\* or process, nor to one it gave up, nor to one of a process that died.
THEOREM AnswersOwnCalls == ASSUME MaxCalls <= IdBase PROVE Spec => []OwnReply
<1>1. Types /\ IdsInv /\ [Next]_vars => IdsInv'
  BY IdsNext
<1>2. IdsInv => OwnReply
  BY DEF IdsInv, OwnReply
<1> QED BY TypesInit, TypesNext, IdsInit, <1>1, <1>2, PTL DEF Spec

-----------------------------------------------------------------------------
(***************************************************************************)
(* Executions.  A call is on its way once: no two requests of the queue    *)
(* and the workers name one call, and none that was executed.              *)
(***************************************************************************)
Unsent(th, k, made_by, at) == k > made_by[th] \/ (k = made_by[th] /\ at[th] = "sending")
Executing(w) == stage[w] = "executing"
OnceInv ==
  /\ \A th \in Threads, k \in 1 .. MaxCalls : Unsent(th, k, serial, phase) =>
       executed[<<th, k>>] = 0 /\ \A m \in InFlight : m.call # <<th, k>>
  /\ \A c \in Calls : executed[c] \in {0, 1}
  /\ \A m \in ToSet(requests) : executed[m.call] = 0
  /\ \A j, k \in DOMAIN requests : j # k => requests[j].call # requests[k].call
  /\ \A w \in Workers : Executing(w) =>
       /\ executed[hand[w].call] = 0
       /\ \A m \in ToSet(requests) : m.call # hand[w].call
       /\ \A v \in Workers : Executing(v) /\ v # w => hand[v].call # hand[w].call
  /\ \A w \in Workers : stage[w] = "replying" => executed[hand[w].call] = 1
  /\ \A m \in ToSet(replies) : executed[m.call] = 1

\* The steps that execute nothing and send no request.
LEMMA OnceStep ==
  ASSUME Types, OnceInv, executed' = executed, InFlight' \subseteq InFlight,
         \A th \in Threads, k \in 1 .. MaxCalls : Unsent(th, k, serial', phase') => Unsent(th, k, serial, phase),
         \A m \in ToSet(requests') : m \in ToSet(requests),
         \A j, k \in DOMAIN requests' : j # k => requests'[j].call # requests'[k].call,
         \A w \in Workers : Executing(w)' =>
           /\ executed[hand'[w].call] = 0
           /\ \A m \in ToSet(requests') : m.call # hand'[w].call
           /\ \A v \in Workers : Executing(v)' /\ v # w => hand'[v].call # hand'[w].call,
         \A w \in Workers : stage'[w] = "replying" => executed[hand'[w].call] = 1,
         \A m \in ToSet(replies') : executed[m.call] = 1
  PROVE  OnceInv'
BY DEF OnceInv, Executing

\* The same for those that leave the requests and the workers alone.
LEMMA ClientStep ==
  ASSUME Types, OnceInv, UNCHANGED <<executed, requests, stage, hand>>, ToSet(replies') \subseteq ToSet(replies),
         \A th \in Threads, k \in 1 .. MaxCalls : Unsent(th, k, serial', phase') => Unsent(th, k, serial, phase)
  PROVE  OnceInv'
<1>1. Handed' = Handed
  BY DEF Handed
<1>2. InFlight' \subseteq InFlight
  BY <1>1 DEF InFlight
<1>3. \A w \in Workers : Executing(w)' <=> Executing(w)
  BY DEF Executing
<1> QED BY <1>2, <1>3, OnceStep DEF OnceInv

\* The same for those by which workers at most let go of what they hold.
LEMMA DropStep ==
  ASSUME Types, OnceInv, UNCHANGED <<executed, serial, phase, requests>>, InFlight' \subseteq InFlight,
         \A w \in Workers : stage'[w] = "idle" \/ (stage'[w] = stage[w] /\ hand'[w] = hand[w]),
         \A m \in ToSet(replies') : executed[m.call] = 1
  PROVE  OnceInv'
<1>1. \A w \in Workers : Executing(w)' => Executing(w) /\ hand'[w] = hand[w]
  BY DEF Executing
<1>2. \A w \in Workers : stage'[w] = "replying" => executed[hand'[w].call] = 1
  BY DEF OnceInv
<1> QED BY <1>1, <1>2, OnceStep DEF OnceInv

LEMMA OnceNext == ASSUME Types, OnceInv, [Next]_vars PROVE OnceInv'
<1>0. /\ requests \in Seq(Message) /\ replies \in Seq(Message) /\ serial \in [Threads -> Nat]
      /\ stage \in [Workers -> {"idle", "executing", "replying"}] /\ phase \in [Threads -> {"idle", "sending", "waiting"}]
      /\ DOMAIN hand = Workers
  BY ServiceAssumption DEF Types, TypeOK
<1>a. \A w \in Workers : stage[w] # "idle" => hand[w] \in InFlight /\ hand[w] \in Message
  BY HandedIs DEF InFlight, Types, TypeOK
<1>1. ASSUME NEW th \in Threads, Begin(th) PROVE OnceInv'
  <2>1. /\ serial' = [serial EXCEPT ![th] = @ + 1] /\ phase' = [phase EXCEPT ![th] = "sending"]
        /\ UNCHANGED <<executed, requests, stage, hand, replies>>
    BY <1>1 DEF Begin, engine
  <2>2. ASSUME NEW u \in Threads, NEW k \in 1 .. MaxCalls, Unsent(u, k, serial', phase')
        PROVE  Unsent(u, k, serial, phase)
    <3>1. CASE u = th
      <4>1. k \in Int /\ serial[th] \in Nat /\ serial'[th] = serial[th] + 1
        BY <1>0, <2>1
      <4>2. k > serial[th]
        BY <2>2, <3>1, <4>1 DEF Unsent
      <4> QED BY <3>1, <4>2 DEF Unsent
    <3>2. CASE u # th
      BY <1>0, <2>1, <2>2, <3>2 DEF Unsent
    <3> QED BY <3>1, <3>2
  <2> QED BY <2>1, <2>2, ClientStep
<1>2. ASSUME NEW th \in Threads, SendRequest(th) PROVE OnceInv'
  <2> DEFINE m0 == [id |-> id[th], call |-> Call(th)]
             n == serial[th]
  <2>1. /\ phase[th] = "sending" /\ requests' = Append(requests, m0) /\ phase' = [phase EXCEPT ![th] = "waiting"]
        /\ UNCHANGED <<executed, serial, stage, hand, replies>>
    BY <1>2 DEF SendRequest, engine
  <2>2. m0 \in Message /\ Call(th) \in Calls /\ m0.call = Call(th)
    BY <2>1, NamedCall
  <2>3. n \in 1 .. MaxCalls /\ Call(th) = <<th, n>>
    <3>1. n \in 0 .. MaxCalls /\ n >= 1
      BY <2>1 DEF Types, TypeOK, Counted
    <3> QED BY <3>1, ServiceAssumption DEF Call
  <2>4. Unsent(th, n, serial, phase)
    BY <2>1 DEF Unsent
  <2>5. executed[Call(th)] = 0 /\ \A m \in InFlight : m.call # Call(th)
    BY <2>3, <2>4 DEF OnceInv
  <2> HIDE DEF m0, n
  <2>6. /\ ToSet(requests') = ToSet(requests) \cup {m0}
        /\ DOMAIN requests' = DOMAIN requests \cup {Len(requests) + 1} /\ requests'[Len(requests) + 1] = m0
        /\ \A j \in DOMAIN requests : requests'[j] = requests[j] /\ requests[j] \in ToSet(requests)
    <3>1. \A j \in DOMAIN requests : requests[j] \in ToSet(requests)
      BY DEF ToSet
    <3> QED BY <1>0, <2>1, <2>2, <3>1, Appended
  <2>7. InFlight' = InFlight \cup {m0} /\ ToSet(requests) \subseteq InFlight
    <3>1. Handed' = Handed
      BY <2>1 DEF Handed
    <3> QED BY <2>1, <2>6, <3>1 DEF InFlight
  <2>8. ASSUME NEW u \in Threads, NEW k \in 1 .. MaxCalls, Unsent(u, k, serial', phase')
        PROVE  Unsent(u, k, serial, phase) /\ <<u, k>> # Call(th)
    <3>1. Unsent(u, k, serial, phase)
      BY <1>0, <2>1, <2>8 DEF Unsent
    <3>2. CASE u = th
      <4>1. phase'[th] = "waiting" /\ serial'[th] = n /\ n \in Int /\ k \in Int
        BY <1>0, <2>1, <2>3 DEF n
      <4>2. k # n
        BY <2>8, <3>2, <4>1 DEF Unsent
      <4> QED BY <2>3, <3>1, <4>2
    <3> QED BY <2>3, <3>1, <3>2
  <2>9. \A u \in Threads, k \in 1 .. MaxCalls : Unsent(u, k, serial', phase') =>
          executed'[<<u, k>>] = 0 /\ \A m \in InFlight' : m.call # <<u, k>>
    BY <2>1, <2>2, <2>7, <2>8 DEF OnceInv
  <2>10. \A m \in ToSet(requests') : executed'[m.call] = 0
    BY <2>1, <2>2, <2>5, <2>6 DEF OnceInv
  <2>11. \A j, k \in DOMAIN requests' : j # k => requests'[j].call # requests'[k].call
    BY <2>2, <2>5, <2>6, <2>7 DEF OnceInv
  <2>12. ASSUME NEW w \in Workers, Executing(w)
         PROVE  \A m \in ToSet(requests') : m.call # hand[w].call
    <3>1. hand[w].call # Call(th)
      BY <1>a, <2>5, <2>12 DEF Executing
    <3> QED BY <2>2, <2>6, <2>12, <3>1 DEF OnceInv
  <2>13. \A w \in Workers : Executing(w)' <=> Executing(w)
    BY <2>1 DEF Executing
  <2> QED BY <2>1, <2>9, <2>10, <2>11, <2>12, <2>13 DEF OnceInv
<1>3. ASSUME NEW th \in Threads, TakeReply(th) \/ CallFails(th) PROVE OnceInv'
  <2>1. phase' = [phase EXCEPT ![th] = "idle"] /\ UNCHANGED <<executed, serial, requests, stage, hand>>
    BY <1>3 DEF TakeReply, CallFails, engine
  <2>2. ToSet(replies') \subseteq ToSet(replies)
    <3>1. CASE TakeReply(th)
      <4>1. PICK k \in DOMAIN replies : replies' = RemoveAt(replies, k)
        BY <3>1 DEF TakeReply, Mine
      <4> QED BY <1>0, <4>1, Removed
    <3>2. CASE CallFails(th)
      BY <3>2 DEF CallFails
    <3> QED BY <1>3, <3>1, <3>2
  <2>3. \A u \in Threads, k \in 1 .. MaxCalls : Unsent(u, k, serial', phase') => Unsent(u, k, serial, phase)
    BY <1>0, <2>1 DEF Unsent
  <2> QED BY <2>1, <2>2, <2>3, ClientStep
<1>4. ASSUME NEW p \in Processes, ClientRestarts(p) PROVE OnceInv'
  <2>1. /\ phase' = [th \in Threads |-> IF ProcessOf[th] = p THEN "idle" ELSE phase[th]]
        /\ UNCHANGED <<executed, serial, requests, replies, stage, hand>>
    BY <1>4 DEF ClientRestarts, engine
  <2>2. \A u \in Threads, k \in 1 .. MaxCalls : Unsent(u, k, serial', phase') => Unsent(u, k, serial, phase)
    BY <2>1 DEF Unsent
  <2> QED BY <2>1, <2>2, ClientStep
<1>5. ASSUME NEW w \in Workers, TakeRequest(w) PROVE OnceInv'
  <2> DEFINE m0 == Head(requests)
  <2>1. /\ stage[w] = "idle" /\ requests # <<>> /\ hand' = [hand EXCEPT ![w] = m0] /\ requests' = Tail(requests)
        /\ stage' = [stage EXCEPT ![w] = "executing"]
        /\ UNCHANGED <<executed, phase, serial, replies>>
    BY <1>5 DEF TakeRequest
  <2>2. /\ m0 \in ToSet(requests) /\ m0 = requests[1] /\ 1 \in DOMAIN requests
        /\ \A i \in DOMAIN requests' : i + 1 \in DOMAIN requests /\ i + 1 # 1 /\ requests'[i] = requests[i + 1]
        /\ ToSet(requests') \subseteq ToSet(requests) /\ requests' \in Seq(Message)
    BY <1>0, <2>1, Taken
  <2>3. /\ hand'[w] = m0 /\ stage'[w] = "executing"
        /\ \A v \in Workers \ {w} : hand'[v] = hand[v] /\ stage'[v] = stage[v]
    BY <1>0, <2>1
  <2> HIDE DEF m0
  <2>4. InFlight' \subseteq InFlight
    <3>1. Handed' \subseteq Handed \cup {m0}
      BY <2>3 DEF Handed
    <3> QED BY <2>1, <2>2, <3>1 DEF InFlight
  <2>5. \A j, k \in DOMAIN requests' : j # k => requests'[j].call # requests'[k].call
    <3> SUFFICES ASSUME NEW j \in DOMAIN requests', NEW k \in DOMAIN requests', j # k
                 PROVE  requests'[j].call # requests'[k].call
      OBVIOUS
    <3>1. j \in Int /\ k \in Int
      BY <2>2
    <3>2. j + 1 # k + 1
      BY <3>1
    <3> QED BY <2>2, <3>2 DEF OnceInv
  <2>6. ASSUME NEW m \in ToSet(requests') PROVE m.call # m0.call
    <3>1. PICK i \in DOMAIN requests' : m = requests'[i]
      BY <2>6 DEF ToSet
    <3> QED BY <2>2, <3>1 DEF OnceInv
  <2>7. \A v \in Workers : Executing(v)' <=> v = w \/ Executing(v)
    BY <2>3 DEF Executing
  <2>8. ~Executing(w) /\ \A v \in Workers : Executing(v) => m0.call # hand[v].call /\ executed[hand[v].call] = 0
    BY <2>1, <2>2 DEF OnceInv, Executing
  <2>9. executed[m0.call] = 0
    BY <2>2 DEF OnceInv
  <2>10. ASSUME NEW v \in Workers, Executing(v)'
         PROVE  /\ executed[hand'[v].call] = 0
                /\ \A m \in ToSet(requests') : m.call # hand'[v].call
                /\ \A x \in Workers : Executing(x)' /\ x # v => hand'[x].call # hand'[v].call
    <3>1. CASE v = w
      BY <2>3, <2>6, <2>7, <2>8, <2>9, <3>1
    <3>2. CASE v # w
      <4>1. Executing(v) /\ hand'[v] = hand[v]
        BY <2>3, <2>7, <2>10, <3>2
      <4>2. \A m \in ToSet(requests') : m.call # hand[v].call
        BY <2>2, <4>1 DEF OnceInv
      <4>3. ASSUME NEW x \in Workers, Executing(x)', x # v PROVE hand'[x].call # hand[v].call
        <5>1. CASE x = w
          BY <2>3, <2>8, <4>1, <5>1
        <5>2. CASE x # w
          <6>1. Executing(x) /\ hand'[x] = hand[x]
            BY <2>3, <2>7, <4>3, <5>2
          <6> QED BY <4>1, <4>3, <6>1 DEF OnceInv
        <5> QED BY <5>1, <5>2
      <4> QED BY <2>8, <4>1, <4>2, <4>3
    <3> QED BY <3>1, <3>2
  <2>11. \A v \in Workers : stage'[v] = "replying" => executed[hand'[v].call] = 1
    BY <2>3 DEF OnceInv
  <2>12. \A m \in ToSet(replies') : executed[m.call] = 1
    BY <2>1 DEF OnceInv
  <2>13. \A u \in Threads, k \in 1 .. MaxCalls : Unsent(u, k, serial', phase') => Unsent(u, k, serial, phase)
    BY <2>1
  <2> QED BY <2>1, <2>2, <2>4, <2>5, <2>10, <2>11, <2>12, <2>13, OnceStep
<1>6. ASSUME NEW w \in Workers, Execute(w) PROVE OnceInv'
  <2> DEFINE c == hand[w].call
  <2>1. /\ stage[w] = "executing" /\ executed' = [executed EXCEPT ![c] = @ + 1]
        /\ stage' = [stage EXCEPT ![w] = "replying"]
        /\ UNCHANGED <<phase, serial, requests, replies, hand>>
    BY <1>6 DEF Execute
  <2>2. c \in Calls /\ hand[w] \in InFlight
    BY <1>a, <2>1 DEF Message
  <2>3. Executing(w) /\ executed[c] = 0
    BY <2>1 DEF OnceInv, Executing
  <2>4. executed'[c] = 1 /\ \A d : d # c => executed'[d] = executed[d]
    <3>1. executed \in [Calls -> Nat]
      BY DEF Types, TypeOK
    <3> HIDE DEF c
    <3> QED BY <2>1, <2>2, <2>3, <3>1
  <2>5. stage'[w] = "replying" /\ \A v \in Workers \ {w} : stage'[v] = stage[v]
    BY <1>0, <2>1
  <2>6. InFlight' = InFlight
    <3>1. \A v \in Workers : stage'[v] # "idle" <=> stage[v] # "idle"
      BY <2>1, <2>5
    <3>2. Handed' = Handed
      BY <2>1, <3>1 DEF Handed
    <3> QED BY <2>1, <3>2 DEF InFlight
  <2>7. \A v \in Workers : Executing(v)' <=> Executing(v) /\ v # w
    BY <2>5 DEF Executing
  <2>8. \A v \in Workers : Executing(v) /\ v # w => hand[v].call # c
    BY <2>3 DEF OnceInv
  <2>9. \A m \in ToSet(requests) : m.call # c
    BY <2>3 DEF OnceInv
  <2>10. \A u \in Threads, k \in 1 .. MaxCalls : Unsent(u, k, serial, phase) => <<u, k>> # c
    BY <2>2 DEF OnceInv
  <2> HIDE DEF c
  <2>11. \A u \in Threads, k \in 1 .. MaxCalls : Unsent(u, k, serial', phase') =>
           executed'[<<u, k>>] = 0 /\ \A m \in InFlight' : m.call # <<u, k>>
    BY <2>1, <2>4, <2>6, <2>10 DEF OnceInv
  <2>12. \A d \in Calls : executed'[d] \in {0, 1}
    BY <2>4 DEF OnceInv
  <2>13. \A m \in ToSet(requests') : executed'[m.call] = 0
    BY <2>1, <2>4, <2>9 DEF OnceInv
  <2>14. \A v \in Workers : Executing(v)' => executed'[hand'[v].call] = 0
    BY <2>1, <2>4, <2>7, <2>8 DEF OnceInv
  <2>15. \A v \in Workers : stage'[v] = "replying" => executed'[hand'[v].call] = 1
    BY <2>1, <2>4, <2>5 DEF OnceInv, c
  <2>16. \A m \in ToSet(replies') : executed'[m.call] = 1
    BY <2>1, <2>4 DEF OnceInv
  <2> QED BY <2>1, <2>7, <2>11, <2>12, <2>13, <2>14, <2>15, <2>16 DEF OnceInv
<1>7. ASSUME NEW w \in Workers, SendReply(w) \/ ReplyFails(w) PROVE OnceInv'
  <2>1. /\ stage[w] = "replying" /\ stage' = [stage EXCEPT ![w] = "idle"] /\ hand' = [hand EXCEPT ![w] = NoMessage]
        /\ UNCHANGED <<executed, phase, serial, requests>>
        /\ replies' = replies \/ replies' = Append(replies, hand[w])
    BY <1>7 DEF SendReply, ReplyFails
  <2>2. \A v \in Workers : stage'[v] = "idle" \/ (stage'[v] = stage[v] /\ hand'[v] = hand[v])
    BY <1>0, <2>1
  <2>3. ToSet(replies') \subseteq ToSet(replies) \cup {hand[w]}
    <3>1. hand[w] \in Message
      BY <1>a, <2>1
    <3>2. CASE replies' = replies
      BY <3>2
    <3>3. CASE replies' = Append(replies, hand[w])
      <4>1. ToSet(Append(replies, hand[w])) = ToSet(replies) \cup {hand[w]}
        BY <1>0, <3>1, Appended
      <4> QED BY <3>3, <4>1
    <3> QED BY <2>1, <3>2, <3>3
  <2>4. InFlight' \subseteq InFlight
    <3>1. Handed' \subseteq Handed
      BY <2>2 DEF Handed
    <3> QED BY <1>a, <2>1, <2>3, <3>1 DEF InFlight
  <2>5. \A m \in ToSet(replies') : executed[m.call] = 1
    BY <2>1, <2>3 DEF OnceInv
  <2> QED BY <2>1, <2>2, <2>4, <2>5, DropStep
<1>8. CASE EngineRestarts
  <2>1. /\ stage' = [w \in Workers |-> "idle"] /\ UNCHANGED <<executed, phase, serial, requests, replies>>
    BY <1>8 DEF EngineRestarts
  <2>2. Handed' = {}
    BY <2>1 DEF Handed
  <2>3. InFlight' \subseteq InFlight
    BY <2>1, <2>2 DEF InFlight
  <2> QED BY <2>1, <2>3, DropStep DEF OnceInv
<1>9. CASE UNCHANGED vars
  <2>1. UNCHANGED <<executed, phase, serial, requests, replies, stage, hand>>
    BY <1>9 DEF vars
  <2> QED BY <2>1, ClientStep
<1> QED BY <1>1, <1>2, <1>3, <1>4, <1>5, <1>6, <1>7, <1>8, <1>9 DEF Next

LEMMA OnceInit == Init => OnceInv
<1> SUFFICES ASSUME Init PROVE OnceInv
  OBVIOUS
<1>1. Handed = {} /\ ToSet(requests) = {} /\ ToSet(replies) = {} /\ DOMAIN requests = {}
  BY DEF Init, Handed, ToSet
<1>2. InFlight = {}
  BY <1>1 DEF InFlight
<1>3. \A th \in Threads, k \in 1 .. MaxCalls : executed[<<th, k>>] = 0
  BY DEF Init, Calls
<1>4. (\A c \in Calls : executed[c] = 0) /\ \A w \in Workers : stage[w] = "idle"
  BY DEF Init
<1> QED BY <1>1, <1>2, <1>3, <1>4 DEF OnceInv, Executing

\* No call is executed twice, and a reply stands for an execution, whichever
\* queue call fails and whichever process is killed.
THEOREM ExecutedAtMostOnce == Spec => []AtMostOnce
<1>1. Types /\ OnceInv /\ [Next]_vars => OnceInv'
  BY OnceNext
<1>2. OnceInv => AtMostOnce
  BY DEF OnceInv, AtMostOnce
<1> QED BY TypesInit, TypesNext, OnceInit, <1>1, <1>2, PTL DEF Spec
-----------------------------------------------------------------------------
(***************************************************************************)
(* Nothing lost.  A call that was executed is on its way once too, in the  *)
(* hands of one worker or in the reply queue; and while nothing fails and  *)
(* no engine is killed, the only message to leave the queues is the reply  *)
(* its caller takes.                                                       *)
(***************************************************************************)
Replying(w) == stage[w] = "replying"
ReplyOnce ==
  /\ \A w \in Workers : Replying(w) =>
       /\ \A m \in ToSet(replies) : m.call # hand[w].call
       /\ \A v \in Workers : Replying(v) /\ v # w => hand[v].call # hand[w].call
  /\ \A j, k \in DOMAIN replies : j # k => replies[j].call # replies[k].call
MessageOf(th) == [id |-> id[th], call |-> Call(th)]
OnItsWay ==
  faults = 0 => \A th \in Threads : phase[th] = "waiting" => MessageOf(th) \in InFlight
LossInv == ReplyOnce /\ OnItsWay

\* The steps by which workers at most let go of what they hold.
LEMMA ReplyStep ==
  ASSUME ReplyOnce, replies' = replies,
         \A w \in Workers : Replying(w)' => Replying(w) /\ hand'[w] = hand[w]
  PROVE  ReplyOnce'
BY DEF ReplyOnce

LEMMA ReplyOnceNext == ASSUME Types, OnceInv, ReplyOnce, [Next]_vars PROVE ReplyOnce'
<1>0. /\ replies \in Seq(Message) /\ DOMAIN hand = Workers
      /\ stage \in [Workers -> {"idle", "executing", "replying"}]
  BY DEF Types, TypeOK
<1>1. ASSUME NEW th \in Threads, Begin(th) \/ SendRequest(th) \/ CallFails(th) PROVE ReplyOnce'
  <2>1. UNCHANGED <<replies, stage, hand>>
    BY <1>1 DEF Begin, SendRequest, CallFails, engine
  <2> QED BY <2>1, ReplyStep DEF Replying
<1>2. ASSUME NEW th \in Threads, TakeReply(th) PROVE ReplyOnce'
  <2>1. PICK k \in DOMAIN replies : replies' = RemoveAt(replies, k)
    BY <1>2 DEF TakeReply, Mine
  <2>2. UNCHANGED <<stage, hand>>
    BY <1>2 DEF TakeReply, engine
  <2>3. ToSet(replies') \subseteq ToSet(replies)
    BY <1>0, <2>1, Removed
  <2>4. /\ \A i \in DOMAIN replies' : After(i, k) \in DOMAIN replies /\ replies'[i] = replies[After(i, k)]
        /\ \A i, j \in DOMAIN replies' : i # j => After(i, k) # After(j, k)
    BY <1>0, <2>1, RemovedIs
  <2>5. \A i, j \in DOMAIN replies' : i # j => replies'[i].call # replies'[j].call
    BY <2>4 DEF ReplyOnce
  <2>6. \A w \in Workers : Replying(w)' <=> Replying(w)
    BY <2>2 DEF Replying
  <2> QED BY <2>2, <2>3, <2>5, <2>6 DEF ReplyOnce
<1>3. ASSUME NEW p \in Processes, ClientRestarts(p) PROVE ReplyOnce'
  <2>1. UNCHANGED <<replies, stage, hand>>
    BY <1>3 DEF ClientRestarts, engine
  <2> QED BY <2>1, ReplyStep DEF Replying
<1>4. ASSUME NEW w \in Workers, TakeRequest(w) PROVE ReplyOnce'
  <2>1. /\ replies' = replies /\ stage' = [stage EXCEPT ![w] = "executing"]
        /\ hand' = [hand EXCEPT ![w] = Head(requests)]
    BY <1>4 DEF TakeRequest
  <2>2. \A v \in Workers : Replying(v)' => Replying(v) /\ hand'[v] = hand[v]
    BY <1>0, <2>1 DEF Replying
  <2> QED BY <2>1, <2>2, ReplyStep
<1>5. ASSUME NEW w \in Workers, Execute(w) PROVE ReplyOnce'
  <2>1. stage[w] = "executing" /\ stage' = [stage EXCEPT ![w] = "replying"] /\ UNCHANGED <<replies, hand>>
    BY <1>5 DEF Execute
  <2>2. executed[hand[w].call] = 0
    BY <2>1 DEF OnceInv, Executing
  <2>3. \A m \in ToSet(replies) : m.call # hand[w].call
    BY <2>2 DEF OnceInv
  <2>4. \A v \in Workers : Replying(v) => hand[v].call # hand[w].call
    BY <2>2 DEF OnceInv, Replying
  <2>5. \A v \in Workers : Replying(v)' <=> v = w \/ Replying(v)
    BY <1>0, <2>1 DEF Replying
  <2> QED BY <2>1, <2>3, <2>4, <2>5 DEF ReplyOnce
<1>6. ASSUME NEW w \in Workers, SendReply(w) PROVE ReplyOnce'
  <2>1. /\ Replying(w) /\ stage' = [stage EXCEPT ![w] = "idle"] /\ hand' = [hand EXCEPT ![w] = NoMessage]
        /\ replies' = Append(replies, hand[w])
    BY <1>6 DEF SendReply, Replying
  <2>2. hand[w] \in Message
    BY <2>1, HandedIs DEF Replying, Types, TypeOK
  <2>3. /\ ToSet(replies') = ToSet(replies) \cup {hand[w]}
        /\ \A i \in DOMAIN replies : replies'[i] = replies[i]
        /\ DOMAIN replies' = DOMAIN replies \cup {Len(replies) + 1} /\ replies'[Len(replies) + 1] = hand[w]
    BY <1>0, <2>1, <2>2, Appended
  <2>4. \A v \in Workers : Replying(v)' => Replying(v) /\ v # w /\ hand'[v] = hand[v]
    BY <1>0, <2>1 DEF Replying
  <2>5. \A i \in DOMAIN replies : replies[i].call # hand[w].call
    BY <2>1 DEF ReplyOnce, ToSet
  <2>6. \A i, j \in DOMAIN replies' : i # j => replies'[i].call # replies'[j].call
    BY <2>3, <2>5 DEF ReplyOnce
  <2>7. \A v \in Workers : Replying(v) /\ v # w => hand[w].call # hand[v].call
    BY <2>1 DEF ReplyOnce
  <2> QED BY <2>3, <2>4, <2>6, <2>7 DEF ReplyOnce
<1>7. ASSUME NEW w \in Workers, ReplyFails(w) PROVE ReplyOnce'
  <2>1. /\ replies' = replies /\ stage' = [stage EXCEPT ![w] = "idle"]
        /\ hand' = [hand EXCEPT ![w] = NoMessage]
    BY <1>7 DEF ReplyFails
  <2>2. \A v \in Workers : Replying(v)' => Replying(v) /\ hand'[v] = hand[v]
    BY <1>0, <2>1 DEF Replying
  <2> QED BY <2>1, <2>2, ReplyStep
<1>8. CASE EngineRestarts
  <2>1. replies' = replies /\ stage' = [w \in Workers |-> "idle"]
    BY <1>8 DEF EngineRestarts
  <2> QED BY <2>1, ReplyStep DEF Replying
<1>9. CASE UNCHANGED vars
  <2>1. UNCHANGED <<replies, stage, hand>>
    BY <1>9 DEF vars
  <2> QED BY <2>1, ReplyStep DEF Replying
<1> QED BY <1>1, <1>2, <1>3, <1>4, <1>5, <1>6, <1>7, <1>8, <1>9 DEF Next

\* Whoever waits after a step that takes no reply waited before it, or has just
\* put its request in the queue.
LEMMA WaitStep ==
  ASSUME OnItsWay, faults' = 0 => faults = 0 /\ InFlight \subseteq InFlight',
         \A th \in Threads : phase'[th] = "waiting" =>
           MessageOf(th)' \in InFlight' \/ (phase[th] = "waiting" /\ MessageOf(th)' = MessageOf(th))
  PROVE  OnItsWay'
BY DEF OnItsWay

LEMMA OnItsWayNext == ASSUME Types, IdsInv, OnItsWay, [Next]_vars PROVE OnItsWay'
<1>0. /\ requests \in Seq(Message) /\ replies \in Seq(Message) /\ DOMAIN hand = Workers
      /\ stage \in [Workers -> {"idle", "executing", "replying"}] /\ DOMAIN phase = Threads
      /\ DOMAIN id = Threads /\ DOMAIN serial = Threads /\ faults \in Nat
  BY ServiceAssumption DEF Types, TypeOK
<1>a. \A w \in Workers : stage[w] # "idle" => hand[w] \in Handed /\ hand[w] \in Message
  BY HandedIs DEF Types, TypeOK
<1>f. Fault => faults' # 0
  BY <1>0 DEF Fault
<1>1. ASSUME NEW th \in Threads, Begin(th) PROVE OnItsWay'
  <2>1. /\ phase' = [phase EXCEPT ![th] = "sending"] /\ \A u \in Threads \ {th} : id'[u] = id[u] /\ serial'[u] = serial[u]
        /\ UNCHANGED <<requests, replies, stage, hand, faults>>
    BY <1>0, <1>1 DEF Begin, engine
  <2>2. InFlight' = InFlight
    BY <2>1 DEF InFlight, Handed
  <2>3. \A u \in Threads : phase'[u] = "waiting" => phase[u] = "waiting" /\ MessageOf(u)' = MessageOf(u)
    BY <1>0, <2>1 DEF MessageOf, Call
  <2> QED BY <2>1, <2>2, <2>3, WaitStep
<1>2. ASSUME NEW th \in Threads, SendRequest(th) PROVE OnItsWay'
  <2>1. /\ phase[th] = "sending" /\ phase' = [phase EXCEPT ![th] = "waiting"]
        /\ requests' = Append(requests, MessageOf(th))
        /\ UNCHANGED <<id, serial, replies, stage, hand, faults>>
    BY <1>2 DEF SendRequest, engine, MessageOf
  <2>2. MessageOf(th) \in Message
    BY <2>1, NamedCall DEF MessageOf
  <2>3. ToSet(requests') = ToSet(requests) \cup {MessageOf(th)}
    BY <1>0, <2>1, <2>2, Appended
  <2>4. Handed' = Handed
    BY <2>1 DEF Handed
  <2>5. InFlight \subseteq InFlight' /\ MessageOf(th) \in InFlight'
    BY <2>1, <2>3, <2>4 DEF InFlight
  <2>6. \A u \in Threads : MessageOf(u)' = MessageOf(u)
    BY <2>1 DEF MessageOf, Call
  <2>7. \A u \in Threads : phase'[u] = "waiting" => u = th \/ phase[u] = "waiting"
    BY <1>0, <2>1
  <2> QED BY <2>1, <2>5, <2>6, <2>7, WaitStep
<1>3. ASSUME NEW th \in Threads, TakeReply(th) PROVE OnItsWay'
  <2>1. PICK k \in DOMAIN replies : replies' = RemoveAt(replies, k) /\ replies[k].id = id[th]
    BY <1>3 DEF TakeReply, Mine
  <2>2. /\ phase[th] = "waiting" /\ phase' = [phase EXCEPT ![th] = "idle"]
        /\ UNCHANGED <<id, serial, requests, stage, hand, faults>>
    BY <1>3 DEF TakeReply, engine
  <2>3. ToSet(replies) \subseteq ToSet(replies') \cup {replies[k]}
    BY <1>0, <2>1, RemovedIs
  <2>4. Handed' = Handed
    BY <2>2 DEF Handed
  <2>5. InFlight \subseteq InFlight' \cup {replies[k]}
    BY <2>2, <2>3, <2>4 DEF InFlight
  <2>6. ASSUME NEW u \in Threads, phase'[u] = "waiting"
        PROVE  phase[u] = "waiting" /\ MessageOf(u)' = MessageOf(u) /\ MessageOf(u) # replies[k]
    <3>1. u # th /\ phase[u] = "waiting"
      BY <1>0, <2>2, <2>6
    <3>2. id[u] # id[th]
      BY <2>2, <3>1 DEF IdsInv
    <3>3. MessageOf(u).id = id[u]
      BY DEF MessageOf
    <3>4. MessageOf(u)' = MessageOf(u)
      BY <2>2 DEF MessageOf, Call
    <3> QED BY <2>1, <3>1, <3>2, <3>3, <3>4
  <2> QED BY <2>2, <2>5, <2>6 DEF OnItsWay
<1>4. ASSUME NEW th \in Threads, CallFails(th) PROVE OnItsWay'
  <2>1. faults' # 0
    BY <1>4, <1>f DEF CallFails
  <2> QED BY <2>1 DEF OnItsWay
<1>5. ASSUME NEW p \in Processes, ClientRestarts(p) PROVE OnItsWay'
  <2>1. /\ phase' = [u \in Threads |-> IF ProcessOf[u] = p THEN "idle" ELSE phase[u]]
        /\ UNCHANGED <<id, serial, requests, replies, stage, hand, faults>>
    BY <1>5 DEF ClientRestarts, engine
  <2>2. InFlight' = InFlight
    BY <2>1 DEF InFlight, Handed
  <2>3. \A u \in Threads : phase'[u] = "waiting" => phase[u] = "waiting" /\ MessageOf(u)' = MessageOf(u)
    BY <2>1 DEF MessageOf, Call
  <2> QED BY <2>1, <2>2, <2>3, WaitStep
<1>6. ASSUME NEW w \in Workers, TakeRequest(w) PROVE OnItsWay'
  <2>1. /\ stage[w] = "idle" /\ requests # <<>> /\ hand' = [hand EXCEPT ![w] = Head(requests)]
        /\ requests' = Tail(requests) /\ stage' = [stage EXCEPT ![w] = "executing"]
        /\ UNCHANGED <<phase, id, serial, replies, faults>>
    BY <1>6 DEF TakeRequest
  <2>2. ToSet(requests) \subseteq ToSet(requests') \cup {Head(requests)}
    BY <1>0, <2>1, TakenIs
  <2>3. /\ hand'[w] = Head(requests) /\ stage'[w] # "idle"
        /\ \A v \in Workers : stage[v] # "idle" => stage'[v] # "idle" /\ hand'[v] = hand[v]
    BY <1>0, <2>1
  <2>4. Handed \cup {Head(requests)} \subseteq Handed'
    BY <2>3 DEF Handed
  <2>5. InFlight \subseteq InFlight'
    BY <2>1, <2>2, <2>4 DEF InFlight
  <2>6. \A u \in Threads : MessageOf(u)' = MessageOf(u)
    BY <2>1 DEF MessageOf, Call
  <2> QED BY <2>1, <2>5, <2>6, WaitStep
<1>7. ASSUME NEW w \in Workers, Execute(w) PROVE OnItsWay'
  <2>1. /\ stage' = [stage EXCEPT ![w] = "replying"] /\ stage[w] = "executing"
        /\ UNCHANGED <<phase, id, serial, requests, replies, hand, faults>>
    BY <1>7 DEF Execute
  <2>2. \A v \in Workers : stage[v] # "idle" => stage'[v] # "idle"
    BY <1>0, <2>1
  <2>3. Handed \subseteq Handed'
    BY <2>1, <2>2 DEF Handed
  <2>4. InFlight \subseteq InFlight'
    BY <2>1, <2>3 DEF InFlight
  <2>5. \A u \in Threads : MessageOf(u)' = MessageOf(u)
    BY <2>1 DEF MessageOf, Call
  <2> QED BY <2>1, <2>4, <2>5, WaitStep
<1>8. ASSUME NEW w \in Workers, SendReply(w) PROVE OnItsWay'
  <2>1. /\ stage[w] = "replying" /\ stage' = [stage EXCEPT ![w] = "idle"]
        /\ hand' = [hand EXCEPT ![w] = NoMessage] /\ replies' = Append(replies, hand[w])
        /\ UNCHANGED <<phase, id, serial, requests, faults>>
    BY <1>8 DEF SendReply
  <2>2. ToSet(replies') = ToSet(replies) \cup {hand[w]}
    BY <1>0, <1>a, <2>1, Appended
  <2>3. \A v \in Workers \ {w} : stage'[v] = stage[v] /\ hand'[v] = hand[v]
    BY <1>0, <2>1
  <2>4. Handed \subseteq Handed' \cup {hand[w]}
    BY <2>3 DEF Handed
  <2>5. InFlight \subseteq InFlight'
    BY <2>1, <2>2, <2>4 DEF InFlight
  <2>6. \A u \in Threads : MessageOf(u)' = MessageOf(u)
    BY <2>1 DEF MessageOf, Call
  <2> QED BY <2>1, <2>5, <2>6, WaitStep
<1>9. ASSUME (\E w \in Workers : ReplyFails(w)) \/ EngineRestarts PROVE OnItsWay'
  <2>1. faults' # 0
    BY <1>9, <1>f DEF ReplyFails, EngineRestarts
  <2> QED BY <2>1 DEF OnItsWay
<1>10. CASE UNCHANGED vars
  <2>1. UNCHANGED <<phase, id, serial, requests, replies, stage, hand, faults>>
    BY <1>10 DEF vars
  <2>2. InFlight' = InFlight /\ \A u \in Threads : MessageOf(u)' = MessageOf(u)
    BY <2>1 DEF InFlight, Handed, MessageOf, Call
  <2> QED BY <2>1, <2>2, WaitStep
<1> QED BY <1>1, <1>2, <1>3, <1>4, <1>5, <1>6, <1>7, <1>8, <1>9, <1>10 DEF Next

LEMMA LossInit == Init => LossInv
<1> SUFFICES ASSUME Init PROVE LossInv
  OBVIOUS
<1>1. /\ ToSet(replies) = {} /\ DOMAIN replies = {} /\ \A th \in Threads : phase[th] = "idle"
      /\ \A w \in Workers : stage[w] = "idle"
  BY DEF Init, ToSet
<1> QED BY <1>1 DEF LossInv, ReplyOnce, OnItsWay, Replying

\* A message that is on its way is in one place of one queue, or in the hands
\* of one worker.
LEMMA OnlyCopy ==
  ASSUME Types, OnceInv, ReplyOnce, NEW m \in InFlight
  PROVE  Copies(m) = 1
<1> DEFINE Q == {k \in DOMAIN requests : requests[k] = m}
           H == {w \in Workers : stage[w] # "idle" /\ hand[w] = m}
           R == {k \in DOMAIN replies : replies[k] = m}
<1>0. Copies(m) = Cardinality(Q) + Cardinality(H) + Cardinality(R)
  BY DEF Copies
<1>s. /\ \A w \in Workers : stage[w] # "idle" => Executing(w) \/ Replying(w)
      /\ \A w \in Workers : ~(Executing(w) /\ Replying(w))
  BY DEF Types, TypeOK, Executing, Replying
<1>q. \A k \in DOMAIN requests : requests[k] \in ToSet(requests)
  BY DEF ToSet
<1>r. \A k \in DOMAIN replies : replies[k] \in ToSet(replies)
  BY DEF ToSet
<1>e. Cardinality({}) = 0
  BY FS_EmptySet
<1>1. CASE m \in ToSet(requests)
  <2>1. PICK k \in DOMAIN requests : requests[k] = m
    BY <1>1 DEF ToSet
  <2>2. Q = {k}
    BY <2>1 DEF OnceInv
  <2>3. executed[m.call] = 0
    BY <1>1 DEF OnceInv
  <2>4. H = {}
    BY <1>1, <1>s, <2>3 DEF OnceInv, Replying
  <2>5. R = {}
    BY <1>r, <2>3 DEF OnceInv
  <2>6. Cardinality({k}) = 1
    BY FS_Singleton
  <2> HIDE DEF Q, H, R
  <2> QED BY <1>0, <1>e, <2>2, <2>4, <2>5, <2>6
<1>2. CASE m \in Handed
  <2>1. PICK w \in Workers : stage[w] # "idle" /\ hand[w] = m
    BY <1>2, HandedIs
  <2>2. H = {w}
    <3>1. ASSUME NEW v \in Workers, v # w, stage[v] # "idle", hand[v] = m PROVE FALSE
      BY <1>s, <2>1, <3>1 DEF OnceInv, ReplyOnce, Replying
    <3> QED BY <2>1, <3>1
  <2>3. Q = {}
    <3>1. CASE Executing(w)
      BY <1>q, <2>1, <3>1 DEF OnceInv
    <3>2. CASE Replying(w)
      <4>1. executed[m.call] = 1
        BY <2>1, <3>2 DEF OnceInv, Replying
      <4> QED BY <1>q, <4>1 DEF OnceInv
    <3> QED BY <1>s, <2>1, <3>1, <3>2
  <2>4. R = {}
    <3>1. CASE Executing(w)
      <4>1. executed[m.call] = 0
        BY <2>1, <3>1 DEF OnceInv
      <4> QED BY <1>r, <4>1 DEF OnceInv
    <3>2. CASE Replying(w)
      BY <1>r, <2>1, <3>2 DEF ReplyOnce
    <3> QED BY <1>s, <2>1, <3>1, <3>2
  <2>5. Cardinality({w}) = 1
    BY FS_Singleton
  <2> HIDE DEF Q, H, R
  <2> QED BY <1>0, <1>e, <2>2, <2>3, <2>4, <2>5
<1>3. CASE m \in ToSet(replies)
  <2>1. PICK k \in DOMAIN replies : replies[k] = m
    BY <1>3 DEF ToSet
  <2>2. R = {k}
    BY <2>1 DEF ReplyOnce
  <2>3. executed[m.call] = 1
    BY <1>3 DEF OnceInv
  <2>4. Q = {}
    BY <1>q, <2>3 DEF OnceInv
  <2>5. H = {}
    <3>1. \A w \in Workers : Executing(w) => hand[w] # m
      BY <2>3 DEF OnceInv
    <3>2. \A w \in Workers : Replying(w) => hand[w] # m
      BY <1>3 DEF ReplyOnce
    <3> QED BY <1>s, <3>1, <3>2
  <2>6. Cardinality({k}) = 1
    BY FS_Singleton
  <2> HIDE DEF Q, H, R
  <2> QED BY <1>0, <1>e, <2>2, <2>4, <2>5, <2>6
<1> QED BY <1>1, <1>2, <1>3 DEF InFlight

\* While no queue operation fails and the engine is not killed, a call that is
\* waited for is in exactly one place, whichever clients die meanwhile; ids are
\* to be had for every call, else a caller could take another's reply.
THEOREM NoCallLost == ASSUME MaxCalls <= IdBase PROVE Spec => []NothingLost
<1>1. Types /\ IdsInv /\ [Next]_vars => IdsInv'
  BY IdsNext
<1>2. Types /\ OnceInv /\ [Next]_vars => OnceInv'
  BY OnceNext
<1>3. Types /\ IdsInv /\ OnceInv /\ LossInv /\ [Next]_vars => LossInv'
  BY ReplyOnceNext, OnItsWayNext DEF LossInv
<1>4. Types /\ OnceInv /\ LossInv => NothingLost
  BY OnlyCopy DEF LossInv, OnItsWay, NothingLost, MessageOf
<1> QED BY TypesInit, TypesNext, IdsInit, OnceInit, LossInit, <1>1, <1>2, <1>3, <1>4, PTL DEF Spec
-----------------------------------------------------------------------------
(***************************************************************************)
(* The calls as their users see them (DBCalls).  A step of the queues      *)
(* between two others that show is a stutter; the proof owes one thing to  *)
(* each invariant: that an answer belongs to the call it ends (IdsInv) and *)
(* comes after its effect, and that the effect is the first (OnceInv).     *)
(***************************************************************************)
CallInv == Types /\ IdsInv /\ OnceInv

LEMMA CallInvInit == Init => CallInv
BY TypesInit, IdsInit, OnceInit DEF CallInv

LEMMA CallInvNext == ASSUME MaxCalls <= IdBase, CallInv, [Next]_vars PROVE CallInv'
BY TypesNext, IdsNext, OnceNext DEF CallInv

\* Which threads are inside a call, after a step that moves one thread on.
LEMMA StaysBusy ==
  ASSUME Types, NEW th \in Threads, phase[th] = "sending", phase' = [phase EXCEPT ![th] = "waiting"]
  PROVE  busyBar' = busyBar
<1>1. \A u \in Threads : phase'[u] # "idle" <=> phase[u] # "idle"
  BY DEF Types, TypeOK
<1> QED BY <1>1 DEF busyBar

LEMMA GetsBusy ==
  ASSUME Types, NEW th \in Threads, phase[th] = "idle", phase' = [phase EXCEPT ![th] = "sending"]
  PROVE  busyBar' = busyBar \cup {th} /\ th \notin busyBar
<1>1. \A u \in Threads : phase'[u] # "idle" <=> phase[u] # "idle" \/ u = th
  BY DEF Types, TypeOK
<1> QED BY <1>1 DEF busyBar

LEMMA GetsFree ==
  ASSUME Types, NEW th \in Threads, phase[th] # "idle", phase' = [phase EXCEPT ![th] = "idle"]
  PROVE  busyBar' = busyBar \ {th} /\ th \in busyBar
<1>1. \A u \in Threads : phase'[u] # "idle" <=> phase[u] # "idle" /\ u # th
  BY DEF Types, TypeOK
<1> QED BY <1>1 DEF busyBar

LEMMA ClientCalls ==
  ASSUME CallInv, CallInv', NEW th \in Threads
  PROVE  /\ Begin(th) => Promise!Begin(th)
         /\ SendRequest(th) => UNCHANGED Promise!callVars
         /\ TakeReply(th) => Promise!Return(th)
         /\ CallFails(th) => Promise!Fault
<1>0. Types /\ IdsInv /\ OnceInv /\ Types'
  BY DEF CallInv
<1>1. ASSUME Begin(th) PROVE Promise!Begin(th)
  <2>1. /\ phase[th] = "idle" /\ serial' = [serial EXCEPT ![th] = @ + 1]
        /\ phase' = [phase EXCEPT ![th] = "sending"] /\ UNCHANGED <<pid, executed, faults>>
    BY <1>1 DEF Begin, engine
  <2>2. busyBar' = busyBar \cup {th} /\ th \notin busyBar
    BY <1>0, <2>1, GetsBusy
  <2>3. serial[th] \in 0 .. MaxCalls /\ serial'[th] \in 0 .. MaxCalls /\ serial'[th] = serial[th] + 1
    BY <1>0, <2>1 DEF Types, TypeOK
  <2>4. serial[th] < MaxCalls /\ serial[th] + 1 \in 1 .. MaxCalls /\ serial[th] + 1 > serial[th]
    BY <2>3, ServiceAssumption
  <2>5. executed[<<th, serial[th] + 1>>] = 0
    BY <1>0, <2>4 DEF OnceInv, Unsent
  <2> QED BY <2>1, <2>2, <2>4, <2>5 DEF Promise!Begin
<1>2. ASSUME SendRequest(th) PROVE UNCHANGED Promise!callVars
  <2>1. /\ phase[th] = "sending" /\ phase' = [phase EXCEPT ![th] = "waiting"]
        /\ UNCHANGED <<pid, serial, executed, faults>>
    BY <1>2 DEF SendRequest, process, engine
  <2>2. busyBar' = busyBar
    BY <1>0, <2>1, StaysBusy
  <2> QED BY <2>1, <2>2 DEF Promise!callVars
<1>3. ASSUME TakeReply(th) PROVE Promise!Return(th)
  <2>1. /\ phase[th] = "waiting" /\ phase' = [phase EXCEPT ![th] = "idle"]
        /\ UNCHANGED <<pid, serial, executed, faults>>
    BY <1>3 DEF TakeReply, process, engine
  <2>2. busyBar' = busyBar \ {th} /\ th \in busyBar
    BY <1>0, <2>1, GetsFree
  <2>3. PICK k \in Mine(th) : TRUE
    BY <1>3 DEF TakeReply
  <2>4. replies[k] \in ToSet(replies) /\ replies[k].id = id[th]
    BY <2>3 DEF Mine, ToSet
  <2>5. replies[k].call = Call(th)
    BY <1>0, <2>1, <2>4 DEF IdsInv, InFlight
  <2>6. executed[Call(th)] = 1
    BY <1>0, <2>4, <2>5 DEF OnceInv
  <2> QED BY <2>1, <2>2, <2>6 DEF Promise!Return, Call
<1>4. ASSUME CallFails(th) PROVE Promise!Fault
  <2>1. /\ phase[th] # "idle" /\ phase' = [phase EXCEPT ![th] = "idle"] /\ faults' = faults + 1
        /\ UNCHANGED <<pid, serial, executed>>
    BY <1>4 DEF CallFails, Fault, process
  <2>2. busyBar' = busyBar \ {th} /\ th \in busyBar
    BY <1>0, <2>1, GetsFree
  <2> QED BY <2>1, <2>2 DEF Promise!Fault
<1> QED BY <1>1, <1>2, <1>3, <1>4

LEMMA DeathCalls ==
  ASSUME CallInv, NEW p \in Processes, ClientRestarts(p)
  PROVE  Promise!Die(p)
<1>0. Types /\ Pids
  BY DEF CallInv, IdsInv
<1>1. PICK n \in spare : pid' = [pid EXCEPT ![p] = n]
  BY DEF ClientRestarts
<1>2. n \in {FirstPid[q] : q \in Processes} \cup SparePids /\ n # pid[p]
  BY <1>0, <1>1 DEF Types, TypeOK, Pids
<1>3. busyBar' = {th \in busyBar : ProcessOf[th] # p}
  <2>1. \A th \in Threads : phase'[th] = IF ProcessOf[th] = p THEN "idle" ELSE phase[th]
    BY DEF ClientRestarts
  <2> QED BY <2>1 DEF busyBar
<1>4. UNCHANGED <<serial, executed, faults>>
  BY DEF ClientRestarts, engine
<1> QED BY <1>1, <1>2, <1>3, <1>4 DEF Promise!Die

LEMMA WorkerCalls ==
  ASSUME CallInv, NEW w \in Workers
  PROVE  /\ TakeRequest(w) \/ SendReply(w) => UNCHANGED Promise!callVars
         /\ ReplyFails(w) => Promise!Fault
         /\ Execute(w) => \E th \in Threads, n \in 1 .. MaxCalls : Promise!Execute(th, n)
<1>1. ASSUME TakeRequest(w) \/ SendReply(w) PROVE UNCHANGED Promise!callVars
  BY <1>1 DEF TakeRequest, SendReply, process, Promise!callVars, busyBar
<1>2. ASSUME ReplyFails(w) PROVE Promise!Fault
  BY <1>2 DEF ReplyFails, Fault, process, Promise!Fault, busyBar
<1>3. ASSUME Execute(w) PROVE \E th \in Threads, n \in 1 .. MaxCalls : Promise!Execute(th, n)
  <2>0. Types /\ OnceInv
    BY DEF CallInv
  <2>1. /\ stage[w] = "executing" /\ executed' = [executed EXCEPT ![hand[w].call] = @ + 1]
        /\ UNCHANGED <<pid, phase, serial, faults>>
    BY <1>3 DEF Execute, process
  <2>2. hand[w] \in Message /\ hand[w] \in InFlight
    BY <2>0, <2>1, HandedIs DEF Types, TypeOK, InFlight
  <2>3. PICK th \in Threads, n \in 1 .. MaxCalls : hand[w].call = <<th, n>>
    BY <2>2 DEF Message, Calls
  <2>4. executed[<<th, n>>] = 0
    BY <2>0, <2>1, <2>3 DEF OnceInv, Executing
  <2>5. n \in 1 .. serial[th]
    <3>1. ~Unsent(th, n, serial, phase)
      BY <2>0, <2>2, <2>3 DEF OnceInv
    <3>2. serial[th] \in 0 .. MaxCalls
      BY <2>0 DEF Types, TypeOK
    <3> QED BY <3>1, <3>2, ServiceAssumption DEF Unsent
  <2>6. executed' = [executed EXCEPT ![<<th, n>>] = 1]
    BY <2>1, <2>3, <2>4
  <2>7. busyBar' = busyBar
    BY <2>1 DEF busyBar
  <2> QED BY <2>1, <2>4, <2>5, <2>6, <2>7 DEF Promise!Execute
<1> QED BY <1>1, <1>2, <1>3

\* While no process makes more calls than there are ids for a pid, a database
\* call begins, takes effect once and returns after that, or is given up by a
\* fault or by the death of its caller.
THEOREM ServiceImplementsCalls == ASSUME MaxCalls <= IdBase PROVE Spec => ImplementsCalls
<1>1. ASSUME Init PROVE Promise!CallsInit
  <2>1. busyBar = {}
    BY <1>1 DEF Init, busyBar
  <2>2. pid \in [Processes -> {FirstPid[p] : p \in Processes} \cup SparePids]
    BY <1>1, ServiceAssumption DEF Init
  <2> QED BY <1>1, <2>1, <2>2 DEF Init, Calls, Promise!CallsInit
<1>2. ASSUME CallInv, CallInv', [Next]_vars PROVE [Promise!CallsNext]_Promise!callVars
  <2>1. CASE UNCHANGED vars
    BY <2>1 DEF vars, Promise!callVars, busyBar
  <2>2. ASSUME NEW th \in Threads, Begin(th) \/ SendRequest(th) \/ TakeReply(th) \/ CallFails(th)
        PROVE  [Promise!CallsNext]_Promise!callVars
    BY <1>2, <2>2, ClientCalls DEF Promise!CallsNext
  <2>3. ASSUME NEW p \in Processes, ClientRestarts(p) PROVE Promise!CallsNext
    BY <1>2, <2>3, DeathCalls DEF Promise!CallsNext
  <2>4. ASSUME NEW w \in Workers, TakeRequest(w) \/ Execute(w) \/ SendReply(w) \/ ReplyFails(w)
        PROVE  [Promise!CallsNext]_Promise!callVars
    BY <1>2, <2>4, WorkerCalls DEF Promise!CallsNext
  <2>5. ASSUME EngineRestarts PROVE Promise!Fault
    BY <2>5 DEF EngineRestarts, Fault, process, Promise!Fault, busyBar
  <2> QED BY <1>2, <2>1, <2>2, <2>3, <2>4, <2>5 DEF Next, Promise!CallsNext
<1>3. CallInv /\ [Next]_vars => CallInv'
  BY CallInvNext
<1> QED BY <1>1, <1>2, <1>3, CallInvInit, PTL DEF Spec, ImplementsCalls, Promise!CallsSpec
=============================================================================
