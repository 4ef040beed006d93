------------------------------ MODULE Handlers ------------------------------
(***************************************************************************)
(* What the async handlers of every service have in common.  A handler is  *)
(* a sequence of store calls, each an `.await?': between two of them other *)
(* handlers run, the store may answer an error, which ends the handler,    *)
(* and the client may hang up, which drops the handler's future.  A        *)
(* handler that changed a store ends by emitting one event: it persists    *)
(* it, then hands it to the event bus.                                     *)
(*                                                                         *)
(* A request's `phase' names the store call it is about to make.           *)
(***************************************************************************)
CONSTANT Requests       \* calls to the services; each slot is used once

VARIABLES request,      \* the handlers' local state
          telemetry,    \* TelemetryStore: requests whose event is persisted
          published     \* EventBus: requests whose event was handed out

Idle(r) == request[r].phase = "idle"
Awaiting(r) == request[r].phase \notin {"idle", "done"}
Answered(r, result) == request[r].phase = "done" /\ request[r].result = result
At(r, op, call) == request[r].op = op /\ request[r].phase = call

\* What real-time order says of a call that begins now: these were answered before.
AnsweredOk == {q \in Requests : Answered(q, "Ok")}

Await(r, call) == request' = [request EXCEPT ![r].phase = call]
Answer(r, result) == request' = [request EXCEPT ![r].phase = "done", ![r].result = result]

\* The two halves of emit_event, whose errors the handler passes on.
PersistsEvent(r) == /\ request[r].phase = "persist_event"
                    /\ telemetry' = telemetry \cup {r}
                    /\ Await(r, "publish")
                    /\ UNCHANGED published

HandsOutEvent(r, result) == /\ request[r].phase = "publish"
                            /\ published' = published \cup {r}
                            /\ Answer(r, result)
                            /\ UNCHANGED telemetry

\* A store error ends the handler with that error; a dropped future ends without an answer.
Fails(r) == /\ Awaiting(r)
            /\ Answer(r, "Failed")
            /\ UNCHANGED <<telemetry, published>>

Failed(r) == Answered(r, "Failed")
=============================================================================
