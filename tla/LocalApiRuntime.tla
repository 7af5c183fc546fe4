-------------------------- MODULE LocalApiRuntime --------------------------
(***************************************************************************)
(* How a client finds the local HTTP API: processes of the desktop app     *)
(* that start, publish a connection manifest, shut down or crash           *)
(* (src-tauri/src/local_api_runtime), and calls of the MCP server that     *)
(* read it (mcp-server/src/httpClient.ts).                                 *)
(*                                                                         *)
(* The listening port is held by one process at a time and the manifest is *)
(* one file, replaced atomically.  Its token, pid and instance_id are new  *)
(* with each start, so an instance stands for all three.                   *)
(***************************************************************************)
EXTENDS Integers, FiniteSets

CONSTANTS
  Instances,    \* processes of the app that are started in a behaviour
  Calls,        \* calls of postJsonWithRetry
  Nobody        \* no instance

ASSUME RuntimeAssumption == Nobody \notin Instances

VARIABLES
  life,         \* where the local API of a process stands
  port,         \* the instance that holds 127.0.0.1:37421
  manifest,     \* the instance that localhost-api-connection.json describes
  overtaken,    \* history: published while another was about to remove its file
  call,         \* where a call stands
  seen,         \* the manifest that the call works with
  attempts,     \* requests that the call may have sent: the first and a retry
  admissions    \* history: requests of a call that a server let in, counted to 2

serverVars == <<life, port, manifest, overtaken>>

clientVars == <<call, seen, attempts, admissions>>

vars == <<serverVars, clientVars>>

Lives == {"off", "bound", "cleaned", "serving", "stopping", "draining",
          "removing", "unavailable", "ended"}

CallSteps == {"idle", "check", "send", "admitted", "answered", "unauthorized",
              "failed", "given_up"}

Become(i, what) == life' = [life EXCEPT ![i] = what]

\* A server that is asked to stop may still take a connection.
Serving(i) == life[i] \in {"serving", "stopping"}

Running(i) == life[i] \notin {"off", "ended"}

Step(c, what) == call' = [call EXCEPT ![c] = what]

Init ==
  /\ life = [i \in Instances |-> "off"]
  /\ port = Nobody
  /\ manifest = Nobody
  /\ overtaken = {}
  /\ call = [c \in Calls |-> "idle"]
  /\ seen = [c \in Calls |-> Nobody]
  /\ attempts = [c \in Calls |-> 1]
  /\ admissions = [c \in Calls |-> 0]

-----------------------------------------------------------------------------
(* The process. *)

Bind(i) ==
  /\ life[i] = "off"
  /\ port = Nobody
  /\ port' = i
  /\ Become(i, "bound")
  /\ UNCHANGED <<manifest, overtaken, clientVars>>

\* Bug: the manifest is published before the listener is bound.
KeepPublished(i) == manifest' = i

\* A start that finds the port taken has not touched the manifest.
KeepManifest(i) == UNCHANGED manifest

\* Another instance, or some other program, holds the port.  The app goes on
\* without a local API and does not try again.
BindFails(i) ==
  /\ life[i] = "off"
  /\ Become(i, "unavailable")
  /\ KeepManifest(i)
  /\ UNCHANGED <<port, overtaken, clientVars>>

CleanUp(i) ==
  /\ life[i] = "bound"
  /\ manifest' = Nobody
  /\ Become(i, "cleaned")
  /\ UNCHANGED <<port, overtaken, clientVars>>

\* The cleanup or the write is refused: the listener is dropped.
StartFails(i) ==
  /\ life[i] \in {"bound", "cleaned"}
  /\ port' = Nobody
  /\ Become(i, "unavailable")
  /\ UNCHANGED <<manifest, overtaken, clientVars>>

\* Connections made from the bind on are served now.
Publish(i) ==
  /\ life[i] = "cleaned"
  /\ manifest' = i
  /\ overtaken' = IF \E j \in Instances : life[j] = "removing"
                  THEN overtaken \cup {i} ELSE overtaken
  /\ Become(i, "serving")
  /\ UNCHANGED <<port, clientVars>>

\* shutdown(): the signal is sent ...
Exit(i) ==
  /\ life[i] \in {"serving", "unavailable"}
  /\ Become(i, IF life[i] = "serving" THEN "stopping" ELSE "ended")
  /\ UNCHANGED <<port, manifest, overtaken, clientVars>>

\* ... the server stops listening and finishes its requests, or is aborted ...
StopListening(i) ==
  /\ life[i] = "stopping"
  /\ port' = Nobody
  /\ Become(i, "draining")
  /\ UNCHANGED <<manifest, overtaken, clientVars>>

\* Bug: the file is removed whoever wrote it.
OwnsAnything(i) == manifest # Nobody

Owns(i) == manifest = i

\* ... and the manifest is read, and removed if it is the instance's own.
ReadManifest(i) ==
  /\ life[i] = "draining"
  /\ Become(i, IF Owns(i) THEN "removing" ELSE "ended")
  /\ UNCHANGED <<port, manifest, overtaken, clientVars>>

RemoveManifest(i) ==
  /\ life[i] = "removing"
  /\ manifest' = Nobody
  /\ Become(i, "ended")
  /\ UNCHANGED <<port, overtaken, clientVars>>

\* The operating system closes the listener; the file stays as it is.  So it does
\* when it cannot be read or removed at the end of a shutdown.
Crash(i) ==
  /\ Running(i)
  /\ port' = IF port = i THEN Nobody ELSE port
  /\ Become(i, "ended")
  /\ UNCHANGED <<manifest, overtaken, clientVars>>

-----------------------------------------------------------------------------
(* The client. *)

\* loadConnectionManifest: a call without a manifest fails at once.
Load(c) ==
  /\ call[c] = "idle"
  /\ seen' = [seen EXCEPT ![c] = manifest]
  /\ Step(c, IF manifest = Nobody THEN "given_up" ELSE "check")
  /\ UNCHANGED <<serverVars, attempts, admissions>>

\* isProcessAlive: the pid of a dead process may belong to another one by now.
CheckProcess(c) ==
  /\ call[c] = "check"
  /\ \/ Step(c, "send")
     \/ /\ ~Running(seen[c])
        /\ Step(c, "given_up")
  /\ UNCHANGED <<serverVars, seen, attempts, admissions>>

Admitted(c) ==
  /\ call[c] = "send"
  /\ port # Nobody /\ Serving(port)
  /\ seen[c] = port
  /\ admissions' = [admissions EXCEPT ![c] = IF @ < 2 THEN @ + 1 ELSE @]
  /\ Step(c, "admitted")
  /\ UNCHANGED <<serverVars, seen, attempts>>

\* HTTP 401: the token is not the one of the server that listens.
Unauthorized(c) ==
  /\ call[c] = "send"
  /\ port # Nobody /\ Serving(port)
  /\ seen[c] # port
  /\ Step(c, "unauthorized")
  /\ UNCHANGED <<serverVars, seen, attempts, admissions>>

Answered(c) ==
  /\ call[c] = "admitted"
  /\ Step(c, "answered")
  /\ UNCHANGED <<serverVars, seen, attempts, admissions>>

\* The connection is refused or lost, or the ten seconds are over.
Fails(c) ==
  /\ call[c] \in {"send", "admitted"}
  /\ Step(c, "failed")
  /\ UNCHANGED <<serverVars, seen, attempts, admissions>>

\* Bug: whatever failed is tried again.
RetryAnything(c) == call[c] \in {"unauthorized", "failed"}

Retryable(c) == call[c] = "unauthorized"

\* Bug: the request of a retry is retried as well.
AttemptBeforeThird(c) == attempts[c] <= 2

FirstAttempt(c) == attempts[c] = 1

\* Once, and only if the reloaded manifest names another instance.
Retry(c) ==
  /\ Retryable(c)
  /\ FirstAttempt(c)
  /\ manifest \notin {Nobody, seen[c]}
  /\ attempts' = [attempts EXCEPT ![c] = @ + 1]
  /\ seen' = [seen EXCEPT ![c] = manifest]
  /\ Step(c, "check")
  /\ UNCHANGED <<serverVars, admissions>>

GiveUp(c) ==
  /\ \/ call[c] = "failed"
     \/ /\ call[c] = "unauthorized"
        /\ ~FirstAttempt(c) \/ manifest \in {Nobody, seen[c]}
  /\ Step(c, "given_up")
  /\ UNCHANGED <<serverVars, seen, attempts, admissions>>

-----------------------------------------------------------------------------

Process(i) ==
  \/ Bind(i) \/ BindFails(i) \/ CleanUp(i) \/ StartFails(i) \/ Publish(i)
  \/ Exit(i) \/ StopListening(i) \/ ReadManifest(i) \/ RemoveManifest(i)
  \/ Crash(i)

Client(c) ==
  \/ Load(c) \/ CheckProcess(c) \/ Admitted(c) \/ Unauthorized(c)
  \/ Answered(c) \/ Fails(c) \/ Retry(c) \/ GiveUp(c)

Next ==
  \/ \E i \in Instances : Process(i)
  \/ \E c \in Calls : Client(c)

Spec == Init /\ [][Next]_vars

-----------------------------------------------------------------------------

\* Each variable of the processes and the calls has its type.
RuntimeTypeOK ==
  /\ life \in [Instances -> Lives]
  /\ port \in Instances \cup {Nobody}
  /\ manifest \in Instances \cup {Nobody}
  /\ overtaken \subseteq Instances
  /\ call \in [Calls -> CallSteps]
  /\ seen \in [Calls -> Instances \cup {Nobody}]
  /\ attempts \in [Calls -> 1..2]
  /\ admissions \in [Calls -> 0..2]

\* No client is sent to a server with another one's token: while an instance
\* serves, the manifest describes it or is absent, whatever starts fail, crash
\* or shut down around it.
ManifestNamesListener ==
  \A i \in Instances : Serving(i) => manifest \in {i, Nobody}

\* A serving instance can be found, unless an older one that had already read
\* the file as its own was slow to remove it.  Start-up failures, crashes and
\* late shutdowns of others do not hide it.
DiscoverableUnlessOvertaken ==
  \A i \in Instances :
    life[i] = "serving" /\ manifest # i => i \in overtaken

\* One call is let in by a server at most once, although it retries, and although
\* an answer may be lost after the admission.
AdmittedOnce == \A c \in Calls : admissions[c] <= 1

\* "cleanup leaves manifest owned by another instance": the test of
\* local_api_runtime/manifest.rs:198, here for a shutdown at any moment.
CleanupLeavesForeignManifest ==
  [][\A i \in Instances :
       RemoveManifest(i) => manifest \in {i, Nobody}]_vars
=============================================================================
