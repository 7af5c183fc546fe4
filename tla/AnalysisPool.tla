------------------------------ MODULE AnalysisPool ------------------------------
(***************************************************************************)
(* The pool of the core's interface: core/src/threading/mod.rs.  Worker    *)
(* threads analyze files and send the results to one thread that writes    *)
(* them to the database; shutdown drops the pool's sender and the workers, *)
(* and joins the writer.                                                   *)
(***************************************************************************)
EXTENDS UiBase

CONSTANTS Tasks, Workers  \* files to analyze, number of worker threads

ASSUME PoolAssumption == Workers \in Nat \ {0}

VARIABLES
  task,   \* where the analysis of each file is
  writer, \* "opening", "writing", "ended", or "dead": it could not open the database
  pool    \* "open", "joining" inside shutdown, or "closed"

poolVars == <<task, writer, pool>>

Where(places) == {t \in Tasks : task[t] \in places}
MoveTask(t, place) == task' = [task EXCEPT ![t] = place]

-----------------------------------------------------------------------------
\* It never fails, whatever became of the writer.
Queue(t) ==
  /\ pool = "open" /\ task[t] = "new"
  /\ MoveTask(t, "queued") /\ UNCHANGED <<writer, pool>>

StartTask(t) ==
  /\ task[t] = "queued" /\ Cardinality(Where({"running"})) < Workers
  /\ MoveTask(t, "running") /\ UNCHANGED <<writer, pool>>

\* A result nobody can receive is dropped; a panic ends the task alone.
FinishTask(t) ==
  /\ task[t] = "running"
  /\ \/ MoveTask(t, IF writer = "dead" THEN "dropped" ELSE "sent")
     \/ MoveTask(t, "panicked")
  /\ UNCHANGED <<writer, pool>>

\* With the receiver go the results it holds.
OpenDatabase ==
  /\ writer = "opening"
  /\ \/ writer' = "writing" /\ UNCHANGED task
     \/ /\ writer' = "dead"
        /\ task' = [t \in Tasks |-> IF task[t] = "sent" THEN "dropped" ELSE task[t]]
  /\ UNCHANGED pool

\* A path that has a row, or another error, leaves the result out.
WriteResult(t) ==
  /\ writer = "writing" /\ task[t] = "sent"
  /\ MoveTask(t, "stored") \/ MoveTask(t, "refused")
  /\ UNCHANGED <<writer, pool>>

\* The pool's sender is gone, and each task's is.
WriterEnds ==
  /\ writer = "writing" /\ pool = "joining" /\ Where({"queued", "running", "sent"}) = {}
  /\ writer' = "ended" /\ UNCHANGED <<task, pool>>

\* Dropped workers finish what was spawned.
Shutdown == pool = "open" /\ pool' = "joining" /\ UNCHANGED <<task, writer>>

WriterJoined ==
  /\ pool = "joining" /\ writer \in {"ended", "dead"}
  /\ pool' = "closed" /\ UNCHANGED <<task, writer>>

-----------------------------------------------------------------------------
PoolInit == task = [t \in Tasks |-> "new"] /\ writer = "opening" /\ pool = "open"

PoolNext ==
  \/ \E t \in Tasks : Queue(t) \/ StartTask(t) \/ FinishTask(t) \/ WriteResult(t)
  \/ OpenDatabase \/ WriterEnds \/ Shutdown \/ WriterJoined

PoolSpec == PoolInit /\ [][PoolNext]_poolVars

-----------------------------------------------------------------------------
\* Each variable of the pool has its type.
PoolTypeOK ==
  /\ task \in [Tasks -> {"new", "queued", "running", "sent", "stored", "refused", "panicked", "dropped"}]
  /\ writer \in {"opening", "writing", "ended", "dead"}
  /\ pool \in {"open", "joining", "closed"}

\* "Gracefully shut down the analysis pool and wait for all tasks to complete":
\* when shutdown returns, each file that was queued is in the database, was refused
\* by it, or made its analysis panic, unless the database could not be opened.
PoolDrained ==
  pool = "closed" /\ writer # "dead" => Where({"queued", "running", "sent", "dropped"}) = {}
===============================================================================
