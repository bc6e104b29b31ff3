--------------------------- MODULE InferenceGate ---------------------------
(***************************************************************************)
(* The process-wide inference gate: one asyncio.Lock around every call of  *)
(* a heavy model, lazy loading behind it, and which models stay resident.  *)
(*                                                                         *)
(* A request runs a route, the model calls its handler makes in order;     *)
(* between two calls it holds nothing.  Behind the gate a call loads the   *)
(* model if it is not resident and computes on a worker thread; Whisper is *)
(* unloaded in a finally and Ollama is asked not to keep its model, while  *)
(* InsightFace and SpeechBrain stay until shutdown.                        *)
(***************************************************************************)
EXTENDS Naturals, Sequences

CONSTANTS
    Tasks,     \* requests
    Device,    \* where each model's weights go: "cuda" or "cpu"
    MaxScan    \* bound on the users a linear voice search compares

Models == {"whisper", "speechbrain", "insightface", "ollama"}

ASSUME ConstantsAssumption ==
    /\ Device \in [Models -> {"cuda", "cpu"}]
    /\ Device["speechbrain"] = "cpu"   \* its provider refuses any other
    /\ MaxScan \in Nat

\* Released by the call that loaded them.
Transient == {"whisper", "ollama"}

VARIABLES
    queue,     \* _INFERENCE_LOCK: its holder, then its waiters in order
    resident,  \* where each model's weights are, or "none"
    step,      \* progress of each request
    route      \* the model calls it has yet to complete

vars == <<queue, resident, step, route>>

Ended == {"idle", "served", "failed"}

\* A request computes only while it holds the gate.
TypeOK ==
    /\ queue \in Seq(Tasks)
    /\ resident \in [Models -> {"none", "cpu", "cuda"}]
    /\ step \in [Tasks -> Ended \cup {"between", "queued", "computing"}]
    /\ route \in [Tasks -> Seq(Models)]
    /\ \A t \in Tasks : step[t] \notin Ended => route[t] # <<>>
    /\ \A t \in Tasks : step[t] = "computing" => queue # <<>> /\ Head(queue) = t

Init ==
    /\ queue = <<>>
    /\ resident = [m \in Models |-> "none"]
    /\ step = [t \in Tasks |-> "idle"]
    /\ route = [t \in Tasks |-> <<>>]

-----------------------------------------------------------------------------
(* The routes                                                              *)

\* A transcript, then n calls of SpeechBrain: the embedding and, where there is
\* no voice index, one comparison per enrolled user.
Voice(n) == [i \in 1..(n + 1) |-> IF i = 1 THEN "whisper" ELSE "speechbrain"]

\* /enroll; a HIGH risk /verify or an /initiate that ends at its transcript; an
\* /initiate that ends at the voice search or the amount, or asks the agent.
Routes ==
    {<<"insightface", "speechbrain">>}
        \cup {Voice(n) : n \in 0..(MaxScan + 1)}
        \cup {Append(Voice(n), "ollama") : n \in 1..(MaxScan + 1)}

Arrive(t) ==
    /\ step[t] \in Ended
    /\ \E r \in Routes : route' = [route EXCEPT ![t] = r]
    /\ step' = [step EXCEPT ![t] = "between"]
    /\ UNCHANGED <<queue, resident>>

-----------------------------------------------------------------------------
(* One model call                                                          *)

Model(t) == Head(route[t])

\* async with _INFERENCE_LOCK
Enter(t) ==
    /\ step[t] = "between"
    /\ queue' = Append(queue, t)
    /\ step' = [step EXCEPT ![t] = "queued"]
    /\ UNCHANGED <<resident, route>>

\* Faulty variant: the gate is not waited for.
HoldsAny(t) == \E i \in 1..Len(queue) : queue[i] = t

Holds(t) == queue # <<>> /\ Head(queue) = t

\* Lazy initialisation, then the call itself starts.
Start(t) ==
    /\ step[t] = "queued"
    /\ Holds(t)
    /\ resident' = [resident EXCEPT ![Model(t)] = IF @ = "none" THEN Device[Model(t)] ELSE @]
    /\ step' = [step EXCEPT ![t] = "computing"]
    /\ UNCHANGED <<queue, route>>

\* Whisper without a loadable CUDA runtime loads a CPU model in its place.
FallToCpu(t) ==
    /\ step[t] = "computing"
    /\ Model(t) = "whisper"
    /\ resident["whisper"] = "cuda"
    /\ resident' = [resident EXCEPT !["whisper"] = "cpu"]
    /\ UNCHANGED <<queue, step, route>>

Unload(m) ==
    resident' = [k \in Models |-> IF k = m /\ k \in Transient THEN "none" ELSE resident[k]]

\* Faulty variant: an error path that keeps the gate.
ReleaseNever == UNCHANGED queue

Release == queue' = Tail(queue)

\* The call returns: the model is unloaded, then the gate released.
Return(t) ==
    /\ step[t] = "computing"
    /\ Unload(Model(t))
    /\ Release
    /\ route' = [route EXCEPT ![t] = Tail(@)]
    /\ step' = [step EXCEPT ![t] = IF Tail(route[t]) = <<>> THEN "served" ELSE "between"]

\* Faulty variant: the unload is not in a finally.
UnloadSkipped(m) == UNCHANGED resident

UnloadAfterError(m) == Unload(m)

\* The call raises, and so does the handler.
Raise(t) ==
    /\ step[t] = "computing"
    /\ UnloadAfterError(Model(t))
    /\ Release
    /\ route' = [route EXCEPT ![t] = <<>>]
    /\ step' = [step EXCEPT ![t] = "failed"]

\* The model cannot be loaded.
LoadFails(t) ==
    /\ step[t] = "queued"
    /\ Holds(t)
    /\ resident[Model(t)] = "none"
    /\ Release
    /\ route' = [route EXCEPT ![t] = <<>>]
    /\ step' = [step EXCEPT ![t] = "failed"]
    /\ UNCHANGED resident

\* The handler gives up between two calls (a 4xx of its own).
GiveUp(t) ==
    /\ step[t] = "between"
    /\ route' = [route EXCEPT ![t] = <<>>]
    /\ step' = [step EXCEPT ![t] = "failed"]
    /\ UNCHANGED <<queue, resident>>

\* The server has drained its requests; the factory shuts its providers down.
Shutdown ==
    /\ \A t \in Tasks : step[t] \in Ended
    /\ resident' = [m \in Models |-> IF m \in {"insightface", "speechbrain"} THEN "none"
                                                                       ELSE resident[m]]
    /\ UNCHANGED <<queue, step, route>>

Proceed(t) == Enter(t) \/ Start(t) \/ Return(t)

Next ==
    \/ \E t \in Tasks : Arrive(t) \/ Proceed(t) \/ FallToCpu(t) \/ Raise(t)
                            \/ LoadFails(t) \/ GiveUp(t)
    \/ Shutdown

Spec == Init /\ [][Next]_vars

\* The event loop resumes handlers, and model calls end.
FairSpec == Spec /\ \A t \in Tasks : WF_vars(Proceed(t))

-----------------------------------------------------------------------------
(* Correctness                                                             *)

\* No two requests ever compute at once, whichever models they use.
Serialized == \A s, t \in Tasks : step[s] = "computing" /\ step[t] = "computing" => s = t

\* A request computes on a model that is resident: nobody else's unload took
\* it away meanwhile.
ComputesOnResident == \A t \in Tasks : step[t] = "computing" => resident[Model(t)] # "none"

\* Whisper and Ollama are resident only under the request that is computing on
\* them; no error path leaks their weights.
TransientOnlyInUse ==
    \A m \in Transient : resident[m] # "none"
        => \E t \in Tasks : step[t] = "computing" /\ Model(t) = m

\* So the weights on the GPU are InsightFace's, which the documents forget, and
\* those of one model in use.
CudaBudget ==
    \A m, n \in Models \ {"insightface"} :
        resident[m] = "cuda" /\ resident[n] = "cuda" => m = n

\* The queue holds the requests that are in a call and no other, each once: the
\* gate is never left to a request that has gone, whichever way its call ended.
QueueOfCalls ==
    /\ \A t \in Tasks : step[t] \in {"queued", "computing"} <=> \E i \in 1..Len(queue) : queue[i] = t
    /\ \A i, j \in 1..Len(queue) : queue[i] = queue[j] => i = j

\* First come, first served: no step puts a waiter behind another request.
NeverOvertaken ==
    [][\A i \in 1..Len(queue), j \in 1..Len(queue') : queue[i] = queue'[j] => j <= i]_vars

\* The steps a request may still take before it ends.
StepsLeft(t) ==
    3 * Len(route[t]) + CASE step[t] = "between" -> 2 [] step[t] = "queued" -> 1 [] OTHER -> 0

\* A request in flight ends, gets closer to its end or stays where it is: no step
\* takes it back.
MovesOn ==
    [][\A t \in Tasks : step[t] \notin Ended =>
          \/ step'[t] \in Ended
          \/ StepsLeft(t)' < StepsLeft(t)
          \/ step'[t] = step[t] /\ route'[t] = route[t]]_vars

\* Every request in flight ends: each waits at most for those before it.
Ends == \A t \in Tasks : step[t] \notin Ended ~> step[t] \in Ended
=============================================================================
