------------------------------- MODULE Daemon -------------------------------
(***************************************************************************)
(* The life cycle of a Daemon (mark.go): NewDaemon, Run, Stop, Close and   *)
(* the event goroutine.  One goroutine calls Run, and when that succeeded  *)
(* Stop or Close or both; any attach, and the opening of the ring buffer,  *)
(* may fail.  What the event goroutine does with events is in Marker.      *)
(***************************************************************************)
EXTENDS Naturals

VARIABLES
    run,      \* where Run is: the link it attaches next, or not running
    links,    \* forkLink, exitLink and execLink, those that are not nil
    rd,       \* the ring-buffer reader
    loop,     \* the event goroutine
    objs,     \* the loaded maps and programs, and their pins
    done,     \* a value was sent on Daemon.done
    stop      \* where Stop is

dvars == <<run, links, rd, loop, objs, done, stop>>

\* The order in which Run attaches, from fork to the reader.
After == [fork |-> "exit", exit |-> "exec", exec |-> "reader"]
Link == DOMAIN After

DaemonTypeOK ==
    /\ run \in Link \cup {"idle", "reader", "ran"}
    /\ links \subseteq Link
    /\ rd \in {"none", "open", "closed"}
    /\ loop \in {"off", "reading", "closing", "sending", "over"}
    /\ objs \in {"open", "closed"}
    /\ done \in BOOLEAN
    /\ stop \in {"no", "waiting", "replay", "returned"}

\* NewDaemon has unlinked the pins that an earlier daemon left behind and has
\* loaded and pinned fresh maps.
DaemonInit ==
    /\ run = "idle" /\ links = {} /\ rd = "none" /\ loop = "off"
    /\ objs = "open" /\ done = FALSE /\ stop = "no"

\* The process is killed, with all it holds, and a new one calls NewDaemon.
Restart ==
    /\ run' = "idle" /\ links' = {} /\ rd' = "none" /\ loop' = "off"
    /\ objs' = "open" /\ done' = FALSE /\ stop' = "no"

\* The goroutine that calls the API is not inside a call.
CallerFree == run \in {"idle", "ran"} /\ stop \notin {"waiting", "replay"}

-----------------------------------------------------------------------------
(* Run.  Its two traversals are in Marker. *)

\* With a reader, Run returns at once.
CallRun ==
    /\ CallerFree /\ run = "idle"
    /\ run' = "fork"
    /\ UNCHANGED <<links, rd, loop, objs, done, stop>>

AttachLink ==
    /\ run \in Link /\ objs = "open"
    /\ links' = links \cup {run}
    /\ run' = After[run]
    /\ UNCHANGED <<rd, loop, objs, done, stop>>

\* Mutant: the undo of a failed attach forgets the oldest link.
RunFailsKeepingFork ==
    /\ run \in Link \cup {"reader"}
    /\ links' = links \cap {"fork"}
    /\ run' = "idle"
    /\ UNCHANGED <<rd, loop, objs, done, stop>>

\* An attach or NewReader fails: the links made so far are closed again.
RunFails ==
    /\ run \in Link \cup {"reader"}
    /\ links' = {}
    /\ run' = "idle"
    /\ UNCHANGED <<rd, loop, objs, done, stop>>

OpenReader ==
    /\ run = "reader" /\ objs = "open"
    /\ rd' = "open" /\ loop' = "reading" /\ run' = "ran"
    /\ UNCHANGED <<links, objs, done, stop>>

-----------------------------------------------------------------------------
(* Close, Stop and the end of runEvents *)

CloseReader == rd' = IF rd = "open" THEN "closed" ELSE rd

\* closeOnce: whoever comes first closes reader, links, objects and pins.
CloseAll == CloseReader /\ links' = {} /\ objs' = "closed"

CallClose ==
    /\ CallerFree /\ run = "ran" /\ objs = "open"
    /\ CloseAll
    /\ UNCHANGED <<run, loop, done, stop>>

\* stopOnce.
CallStop ==
    /\ CallerFree /\ run = "ran" /\ stop = "no"
    /\ CloseReader
    /\ stop' = "waiting"
    /\ UNCHANGED <<run, links, loop, objs, done>>

\* Read returns ErrClosed.
LoopEnds ==
    /\ loop = "reading" /\ rd = "closed"
    /\ loop' = "closing"
    /\ UNCHANGED <<run, links, rd, objs, done, stop>>

LoopCloses ==
    /\ loop = "closing"
    /\ CloseAll
    /\ loop' = "sending"
    /\ UNCHANGED <<run, done, stop>>

\* Mutant: the goroutine returns without sending.
LoopEndsSilently ==
    /\ loop = "sending"
    /\ loop' = "over"
    /\ UNCHANGED <<run, links, rd, objs, done, stop>>

\* done has room for one value, so the send never blocks.
LoopSends ==
    /\ loop = "sending"
    /\ done' = TRUE /\ loop' = "over"
    /\ UNCHANGED <<run, links, rd, objs, stop>>

StopReceives ==
    /\ stop = "waiting" /\ done
    /\ stop' = "replay"
    /\ UNCHANGED <<run, links, rd, loop, objs, done>>

StopReturn ==
    /\ stop = "replay"
    /\ stop' = "returned"
    /\ UNCHANGED <<run, links, rd, loop, objs, done>>

RunStep == AttachLink \/ RunFails \/ OpenReader
LoopStep == LoopEnds \/ LoopCloses \/ LoopSends
CallStep == CallRun \/ CallClose \/ CallStop

-----------------------------------------------------------------------------
(* No program of mark.c stays attached that nobody will detach: links exist  *)
(* only while Run is making them or while an event goroutine, which closes   *)
(* them when it ends, is there.  So a Run that fails can be tried again, and *)
(* after Stop no tracepoint runs any more.                                   *)
NoDanglingLinks == links # {} => run \in Link \cup {"reader"} \/ loop \in {"reading", "closing"}

(* Stop returns, whoever closed the reader first, unless the daemon is killed *)
(* before.  (A Stop before Run, or after a Run that failed, would wait for    *)
(* ever: nobody else sends on done.)                                          *)
StopReturns == stop = "waiting" ~> stop \in {"returned", "no"}
=============================================================================
