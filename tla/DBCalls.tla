------------------------------ MODULE DBCalls ------------------------------
(***************************************************************************)
(* What the queues promise to the code that calls the engine: a call       *)
(* begins, takes effect once, and returns after that.  Only when something *)
(* goes wrong does a thread come back without an answer: a fault costs one *)
(* thread its answer, the death of a process those of all its threads.     *)
(* The call that was given up may take effect all the same, at any later   *)
(* time, even after calls the thread begins afterwards.                    *)
(***************************************************************************)
EXTENDS Integers

CONSTANTS Processes, Threads, ProcessOf, MaxCalls,
  Pids  \* the pids the system gives out

VARIABLES
  pid,       \* tells the lives of a process apart
  busy,      \* the threads that are inside a call
  serial,    \* the number of calls a thread has made; it names the call
  executed,  \* how often each call took effect
  faults     \* what went wrong so far, deaths of callers apart

callVars == <<pid, busy, serial, executed, faults>>

\* The call takes a new name, and has had no effect.
Begin(th) ==
  /\ th \notin busy
  /\ serial[th] < MaxCalls
  /\ executed[<<th, serial[th] + 1>>] = 0
  /\ serial' = [serial EXCEPT ![th] = @ + 1]
  /\ busy' = busy \cup {th}
  /\ UNCHANGED <<pid, executed, faults>>

\* A call that was begun, whether its caller still waits or not, takes effect;
\* none does so twice.
Execute(th, n) ==
  /\ n \in 1 .. serial[th]
  /\ executed[<<th, n>>] = 0
  /\ executed' = [executed EXCEPT ![<<th, n>>] = 1]
  /\ UNCHANGED <<pid, busy, serial, faults>>

\* An answer comes after the effect of the very call it is given to.
Return(th) ==
  /\ th \in busy
  /\ executed[<<th, serial[th]>>] = 1
  /\ busy' = busy \ {th}
  /\ UNCHANGED <<pid, serial, executed, faults>>

\* One thread is told FAILURE, or its answer or its call is lost.
Fault ==
  /\ faults' = faults + 1
  /\ busy' = busy \/ \E th \in busy : busy' = busy \ {th}
  /\ UNCHANGED <<pid, serial, executed>>

\* A process dies and is started again.
Die(p) ==
  /\ \E n \in Pids : n # pid[p] /\ pid' = [pid EXCEPT ![p] = n]
  /\ busy' = {th \in busy : ProcessOf[th] # p}
  /\ UNCHANGED <<serial, executed, faults>>

CallsInit ==
  /\ pid \in [Processes -> Pids]
  /\ busy = {}
  /\ serial = [th \in Threads |-> 0]
  /\ executed = [c \in Threads \X (1 .. MaxCalls) |-> 0]
  /\ faults = 0

CallsNext ==
  \/ \E th \in Threads : Begin(th) \/ Return(th)
  \/ \E th \in Threads, n \in 1 .. MaxCalls : Execute(th, n)
  \/ Fault
  \/ \E p \in Processes : Die(p)

CallsSpec == CallsInit /\ [][CallsNext]_callVars
=============================================================================
