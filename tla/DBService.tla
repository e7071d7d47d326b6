----------------------------- MODULE DBService -----------------------------
(***************************************************************************)
(* The way of a database call: a thread of a client process stamps its     *)
(* request with an id, sends it on the request queue and waits on the      *)
(* reply queue for a message of that type; the engine's workers take the   *)
(* requests in order, execute them and send the replies.  The two System V *)
(* queues are bounded, belong to the kernel and outlive both processes.    *)
(* What executing a request does is the subject of DBEngine.               *)
(***************************************************************************)
EXTENDS Integers, FiniteSets, SequencesExt

CONSTANTS
  Processes,     \* the client processes: the server, the test scripts
  Threads,       \* their threads
  ProcessOf,     \* the process of each thread
  Workers,       \* the engine's threads
  FirstPid,      \* the pid of each process at the start
  SparePids,     \* the pids the system may give to a process started later
  IdBase,        \* request ids per pid: 100000 in the code
  RequestSlots,  \* requests that fit into a queue: 2 with the default msgmnb
  ReplySlots,    \* replies that fit into a queue: 4
  MaxCalls,      \* bound on the calls made, by all threads together
  MaxFaults      \* bound on failed queue calls and kills of the engine

ASSUME ServiceAssumption ==
  /\ ProcessOf \in [Threads -> Processes]
  /\ FirstPid \in [Processes -> Nat] /\ SparePids \subseteq Nat
  /\ \A p, q \in Processes : p # q => FirstPid[p] # FirstPid[q]
  /\ \A p \in Processes : FirstPid[p] \notin SparePids
  /\ IdBase \in Nat \ {0} /\ RequestSlots \in Nat \ {0} /\ ReplySlots \in Nat \ {0}
  /\ MaxCalls \in Nat /\ MaxFaults \in Nat

VARIABLES
  pid,       \* client_id of each process
  counter,   \* request_counter of each process
  spare,     \* the pids not given out yet
  phase,     \* idle, sending (the request) or waiting (for the reply)
  id,        \* reply_to of the request a thread works on
  serial,    \* the number of calls a thread has made; it names the call
  made,      \* the number of calls made by all threads together
  requests,  \* the request queue
  replies,   \* the reply queue
  stage,     \* idle, executing or replying, for each worker
  hand,      \* the message a worker works on
  executed,  \* how often each call was executed
  faults     \* failed queue calls and kills of the engine so far

vars == <<pid, counter, spare, phase, id, serial, made, requests, replies, stage, hand,
          executed, faults>>
process == <<pid, counter, spare, made>>
engine  == <<stage, hand, executed, faults>>

Calls == Threads \X (1 .. MaxCalls)
Call(th) == <<th, serial[th]>>
NoMessage == [id |-> 0, call |-> <<>>]
Fault == faults < MaxFaults /\ faults' = faults + 1

-----------------------------------------------------------------------------
\* Mutant of Begin: the counter is not advanced.
BeginSameId(th) ==
  LET p == ProcessOf[th] IN
  /\ phase[th] = "idle"
  /\ made < MaxCalls /\ made' = made + 1
  /\ id' = [id EXCEPT ![th] = pid[p] * IdBase + counter[p] + 1]
  /\ serial' = [serial EXCEPT ![th] = @ + 1]
  /\ phase' = [phase EXCEPT ![th] = "sending"]
  /\ UNCHANGED <<pid, counter, spare, requests, replies, engine>>

\* make_request_id, under the client's counter mutex, and the rest of the
\* request.
Begin(th) ==
  LET p == ProcessOf[th] IN
  /\ phase[th] = "idle"
  /\ made < MaxCalls /\ made' = made + 1
  /\ counter' = [counter EXCEPT ![p] = @ + 1]
  /\ id' = [id EXCEPT ![th] = pid[p] * IdBase + counter'[p]]
  /\ serial' = [serial EXCEPT ![th] = @ + 1]
  /\ phase' = [phase EXCEPT ![th] = "sending"]
  /\ UNCHANGED <<pid, spare, requests, replies, engine>>

\* Mutant of SendRequest: msgsnd with a queue of no limit.
SendRequestAnyway(th) ==
  /\ phase[th] = "sending"
  /\ requests' = Append(requests, [id |-> id[th], call |-> Call(th)])
  /\ phase' = [phase EXCEPT ![th] = "waiting"]
  /\ UNCHANGED <<process, id, serial, replies, engine>>

\* msgsnd blocks while the queue is full.
SendRequest(th) ==
  /\ phase[th] = "sending"
  /\ Len(requests) < RequestSlots
  /\ requests' = Append(requests, [id |-> id[th], call |-> Call(th)])
  /\ phase' = [phase EXCEPT ![th] = "waiting"]
  /\ UNCHANGED <<process, id, serial, replies, engine>>

\* msgrcv returns the first message of the type asked for.
Mine(th) == {k \in DOMAIN replies : replies[k].id = id[th]}
\* Mutant of TakeReply: msgrcv takes the first message, whatever its type.
TakeAnyReply(th) ==
  /\ phase[th] = "waiting"
  /\ replies # <<>>
  /\ replies' = Tail(replies)
  /\ phase' = [phase EXCEPT ![th] = "idle"]
  /\ UNCHANGED <<process, id, serial, requests, engine>>

TakeReply(th) ==
  /\ phase[th] = "waiting"
  /\ \E k \in Mine(th) : /\ \A j \in Mine(th) : k <= j
                         /\ replies' = RemoveAt(replies, k)
  /\ phase' = [phase EXCEPT ![th] = "idle"]
  /\ UNCHANGED <<process, id, serial, requests, engine>>

\* msgsnd or msgrcv fails: the caller is told FAILURE, whatever the engine does
\* with the request.
CallFails(th) ==
  /\ Fault
  /\ phase[th] \in {"sending", "waiting"}
  /\ phase' = [phase EXCEPT ![th] = "idle"]
  /\ UNCHANGED <<process, id, serial, requests, replies, stage, hand, executed>>

\* A client process dies and is started again: its calls are forgotten, not
\* the messages they left in the queues.
ClientRestarts(p) ==
  /\ \E n \in spare : /\ pid' = [pid EXCEPT ![p] = n]
                      /\ spare' = spare \ {n}
  /\ counter' = [counter EXCEPT ![p] = 0]
  /\ phase' = [th \in Threads |-> IF ProcessOf[th] = p THEN "idle" ELSE phase[th]]
  /\ UNCHANGED <<id, serial, made, requests, replies, engine>>

-----------------------------------------------------------------------------
\* Mutant of TakeRequest: the request is looked at, not taken.
PeekRequest(w) ==
  /\ stage[w] = "idle"
  /\ requests # <<>>
  /\ hand' = [hand EXCEPT ![w] = Head(requests)]
  /\ stage' = [stage EXCEPT ![w] = "executing"]
  /\ UNCHANGED <<process, phase, id, serial, requests, replies, executed, faults>>

\* worker_thread: take a request, execute it, send the reply.
TakeRequest(w) ==
  /\ stage[w] = "idle"
  /\ requests # <<>>
  /\ hand' = [hand EXCEPT ![w] = Head(requests)]
  /\ requests' = Tail(requests)
  /\ stage' = [stage EXCEPT ![w] = "executing"]
  /\ UNCHANGED <<process, phase, id, serial, replies, executed, faults>>

Execute(w) ==
  /\ stage[w] = "executing"
  /\ executed' = [executed EXCEPT ![hand[w].call] = @ + 1]
  /\ stage' = [stage EXCEPT ![w] = "replying"]
  /\ UNCHANGED <<process, phase, id, serial, requests, replies, hand, faults>>

\* Mutant of SendReply: msgsnd with IPC_NOWAIT drops the reply when there is no
\* room.
SendReplyNoWait(w) ==
  /\ stage[w] = "replying"
  /\ replies' = IF Len(replies) < ReplySlots THEN Append(replies, hand[w]) ELSE replies
  /\ hand' = [hand EXCEPT ![w] = NoMessage]
  /\ stage' = [stage EXCEPT ![w] = "idle"]
  /\ UNCHANGED <<process, phase, id, serial, requests, executed, faults>>

SendReply(w) ==
  /\ stage[w] = "replying"
  /\ Len(replies) < ReplySlots
  /\ replies' = Append(replies, hand[w])
  /\ hand' = [hand EXCEPT ![w] = NoMessage]
  /\ stage' = [stage EXCEPT ![w] = "idle"]
  /\ UNCHANGED <<process, phase, id, serial, requests, executed, faults>>

\* A failed msgsnd is logged and the reply dropped.
ReplyFails(w) ==
  /\ Fault
  /\ stage[w] = "replying"
  /\ hand' = [hand EXCEPT ![w] = NoMessage]
  /\ stage' = [stage EXCEPT ![w] = "idle"]
  /\ UNCHANGED <<process, phase, id, serial, requests, replies, executed>>

\* The engine is killed and started again: it finds the queues as they were,
\* and the requests its workers had in hand are gone.
EngineRestarts ==
  /\ Fault
  /\ hand' = [w \in Workers |-> NoMessage]
  /\ stage' = [w \in Workers |-> "idle"]
  /\ UNCHANGED <<process, phase, id, serial, requests, replies, executed>>

-----------------------------------------------------------------------------
Init ==
  /\ pid = FirstPid
  /\ counter = [p \in Processes |-> 0]
  /\ spare = SparePids
  /\ phase = [th \in Threads |-> "idle"]
  /\ id = [th \in Threads |-> 0]
  /\ serial = [th \in Threads |-> 0] /\ made = 0
  /\ requests = <<>> /\ replies = <<>>
  /\ stage = [w \in Workers |-> "idle"]
  /\ hand = [w \in Workers |-> NoMessage]
  /\ executed = [c \in Calls |-> 0]
  /\ faults = 0

Next ==
  \/ \E th \in Threads : Begin(th) \/ SendRequest(th) \/ TakeReply(th) \/ CallFails(th)
  \/ \E p \in Processes : ClientRestarts(p)
  \/ \E w \in Workers : TakeRequest(w) \/ Execute(w) \/ SendReply(w) \/ ReplyFails(w)
  \/ EngineRestarts

Spec == Init /\ [][Next]_vars

\* Threads run; the kernel serves the senders that wait for room in a queue in
\* turn.  Nobody has to begin a call, and nothing has to fail.
Fairness ==
  /\ \A th \in Threads : SF_vars(SendRequest(th)) /\ WF_vars(TakeReply(th))
  /\ \A w \in Workers : WF_vars(TakeRequest(w) \/ Execute(w)) /\ SF_vars(SendReply(w))
FairSpec == Spec /\ Fairness

-----------------------------------------------------------------------------
(***************************************************************************)
(* Properties.                                                             *)
(***************************************************************************)
Message == [id : Nat, call : Calls]
Handed == {hand[w] : w \in {v \in Workers : stage[v] # "idle"}}

\* The shape of the state; the queues stay within their bounds.
TypeOK ==
  /\ pid \in [Processes -> Nat] /\ counter \in [Processes -> Nat] /\ spare \subseteq SparePids
  /\ phase \in [Threads -> {"idle", "sending", "waiting"}]
  /\ id \in [Threads -> Nat] /\ serial \in [Threads -> 0 .. MaxCalls] /\ made \in 0 .. MaxCalls
  /\ requests \in Seq(Message) /\ Len(requests) <= RequestSlots
  /\ replies \in Seq(Message) /\ Len(replies) <= ReplySlots
  /\ stage \in [Workers -> {"idle", "executing", "replying"}]
  /\ hand \in [Workers -> Message \cup {NoMessage}] /\ Handed \subseteq Message
  /\ executed \in [Calls -> Nat] /\ faults \in 0 .. MaxFaults

InFlight == ToSet(requests) \cup Handed \cup ToSet(replies)

\* A thread is never handed the answer to another call: not to one of another
\* thread or process, not to one it gave up, not to one of a process that died.
OwnReply ==
  \A th \in Threads : phase[th] = "waiting" =>
    \A m \in InFlight : m.id = id[th] => m.call = Call(th)

\* No call is executed twice, and a reply stands for an execution.
AtMostOnce ==
  /\ \A c \in Calls : executed[c] <= 1
  /\ \A m \in ToSet(replies) : executed[m.call] = 1

\* While no queue operation fails and the engine is not killed, a call that is
\* waited for is in exactly one place: a queue, or a worker's hands.
Copies(m) == Cardinality({k \in DOMAIN requests : requests[k] = m})
           + Cardinality({w \in Workers : stage[w] # "idle" /\ hand[w] = m})
           + Cardinality({k \in DOMAIN replies : replies[k] = m})
NothingLost ==
  faults = 0 =>
    \A th \in Threads : phase[th] = "waiting" =>
      Copies([id |-> id[th], call |-> Call(th)]) = 1

\* While no queue operation fails and the engine is not killed, every call
\* returns; or the reply queue is full of replies that clients which died have
\* left behind, and every worker is stuck behind them.
Awaited(m) == \E th \in Threads : phase[th] = "waiting" /\ m.id = id[th]
Clogged == Len(replies) = ReplySlots /\ \A m \in ToSet(replies) : ~Awaited(m)
EveryCallReturns ==
  \A th \in Threads : phase[th] = "sending" ~> phase[th] = "idle" \/ Clogged \/ faults > 0
-----------------------------------------------------------------------------
(***************************************************************************)
(* The calls as the queues' users see them.                                *)
(***************************************************************************)
busyBar == {th \in Threads : phase[th] # "idle"}

Promise == INSTANCE DBCalls WITH
  Pids <- {FirstPid[p] : p \in Processes} \cup SparePids, busy <- busyBar

\* A database call begins, takes effect once and returns after that, or is
\* given up by a fault or the death of its caller: every step of the queues and
\* the workers is one of these, or changes nothing the caller can tell.
ImplementsCalls == Promise!CallsSpec
=============================================================================
