--------------------------- MODULE DBEngineCrash ---------------------------
(***************************************************************************)
(* The storage engine whose process may be killed at any point and started *)
(* again.  Memory, locks and threads are lost; the files keep every pwrite *)
(* that was made.  db_init rebuilds the index by reading the index file    *)
(* from its start to its end, and a slot that was never written below one  *)
(* that was reads as zero bytes.                                           *)
(***************************************************************************)
EXTENDS DBEngine

CONSTANT MaxCrashes  \* bound on the kills of a behaviour

ASSUME CrashAssumption == MaxCrashes \in Nat

VARIABLE crashes

crashVars == <<vars, crashes>>

\* A zeroed struct index: key 0, offset 0 and is_deleted 0.
ZeroEntry == [key |-> 0, offset |-> 0, is_deleted |-> FALSE]

Persisted(t) == {i \in Slots : idx[<<t, i>>] # Unwritten}
\* Mutant of FileLength: the entries that were written are counted, not the room
\* they take.
WrittenEntries(t) == Cardinality(Persisted(t))

FileLength(t) == IF Persisted(t) = {} THEN 0
                 ELSE 1 + CHOOSE i \in Persisted(t) : \A j \in Persisted(t) : j <= i

\* Mutant of Loaded: what was deleted is loaded as live.
LoadedRevived(c) == IF idx[c] # Unwritten THEN [idx[c] EXCEPT !.is_deleted = FALSE] ELSE NoEntry

\* The entry db_init puts into memory for a slot.
Loaded(c) == IF idx[c] # Unwritten THEN idx[c]
             ELSE IF c[2] < FileLength(c[1]) THEN ZeroEntry
             ELSE NoEntry

\* The process dies, and main() of the next one runs db_init.
Crash ==
  /\ crashes < MaxCrashes
  /\ crashes' = crashes + 1
  /\ num' = [t \in DbTypes |-> FileLength(t)]
  /\ index' = [c \in Cells |-> Loaded(c)]
  /\ mutex' = Nobody
  /\ writer' = [c \in Cells |-> Nobody]
  /\ readers' = [c \in Cells |-> {}]
  /\ pc' = [w \in Workers |-> "idle"]
  /\ req' = [w \in Workers |-> NoRequest]
  /\ slot' = [w \in Workers |-> 0]
  /\ limit' = [w \in Workers |-> 0]
  /\ reply' = [w \in Workers |-> NoReply]
  /\ UNCHANGED files

CrashInit == Init /\ crashes = 0
CrashNext == Crash \/ (Next /\ UNCHANGED crashes)
CrashSpec == CrashInit /\ [][CrashNext]_crashVars

-----------------------------------------------------------------------------

\* A slot no operation writes, or has taken to write it: its operations were answered.
Settled(c) ==
  /\ c[2] < num[c[1]] /\ writer[c] = Nobody
  /\ \A w \in Workers : At(w, "insert_lock") => Cell(w) # c

\* While no pread or pwrite fails, a kill does not change what clients were told
\* succeeded: a settled record is there after the restart, under the same key and
\* at the same place, and a settled delete stays a delete, whatever was killed at
\* the other slots.
SettledSurvives ==
  [][crashes' # crashes =>
       \A c \in Cells : Settled(c) => index'[c] = index[c] /\ c[2] < num'[c[1]]]_crashVars
=============================================================================
