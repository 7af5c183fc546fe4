------------------------------ MODULE MCLocalApi ------------------------------
(***************************************************************************)
(* Three ends of the local API, one at a time: the queue between its       *)
(* handlers and the renderer with two producers and any consumer, three    *)
(* starts of the app with two calls of a client, and the preview that a    *)
(* command asks for.  They share no state here, so focus names the one     *)
(* that moves.                                                             *)
(***************************************************************************)
EXTENDS UiCommandQueue, LocalApiRuntime, ExternalPreview, TLC

CONSTANTS t1, t2, show, changed, i1, i2, i3, c1, c2

VARIABLE focus

MCThreads == {t1, t2}
MCCommands == {show, changed}
MCInstances == {i1, i2, i3}
MCCalls == {c1, c2}

previewScreenVars == <<barVars, externalPreviewVars>>

localApiVars == <<focus, queueVars, vars, previewScreenVars>>

LocalApiInit ==
  /\ focus \in {"queue", "runtime", "preview"}
  /\ QueueInit /\ Init
  /\ PreviewInit /\ (focus # "preview" => ~barAutoPlay)

LocalApiNext ==
  \/ focus = "queue" /\ QueueNext /\ UNCHANGED <<focus, vars, previewScreenVars>>
  \/ focus = "runtime" /\ Next /\ UNCHANGED <<focus, queueVars, previewScreenVars>>
  \/ focus = "preview" /\ PreviewNext /\ UNCHANGED <<focus, queueVars, vars>>

LocalApiSpec == LocalApiInit /\ [][LocalApiNext]_localApiVars

-----------------------------------------------------------------------------
\* Each variable of the three has its type.
LocalApiTypeOK == QueueTypeOK /\ RuntimeTypeOK /\ PreviewTypeOK

\* However the commands, the renders, the events of the audio element and the user
\* interleave, a command starts its sample once at most, whatever has a source and
\* sounds is the sample on screen, no object URL is left over, and the bar's loading
\* is ended by something that is under way.
PreviewKept ==
  PreviewOnce /\ (src # None => SoundOfPath) /\ NoLeakedUrl /\ LoadingEnds
=============================================================================
