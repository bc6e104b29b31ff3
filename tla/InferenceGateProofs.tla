------------------------ MODULE InferenceGateProofs ------------------------
(***************************************************************************)
(* The gate excludes and the transient models are released, for every      *)
(* number of requests and whichever device each model uses, checked by     *)
(* TLAPS.  The invariant says who may hold weights: InsightFace and        *)
(* SpeechBrain once loaded, and otherwise only the request at the head of  *)
(* the gate's queue.                                                       *)
(***************************************************************************)
EXTENDS InferenceGate, TLAPS

\* SpeechBrain never reaches the GPU.
SpeechOnCpu == resident["speechbrain"] # "cuda"

Inv == TypeOK /\ ComputesOnResident /\ TransientOnlyInUse /\ SpeechOnCpu

\* A non-empty queue: its head, and what remains when the head leaves.
LEMMA TailType ==
    ASSUME NEW S, NEW q \in Seq(S), q # <<>>
    PROVE  Tail(q) \in Seq(S) /\ Head(q) \in S
  OBVIOUS

\* Joining a queue keeps the head it had.
LEMMA AppendHead ==
    ASSUME NEW S, NEW q \in Seq(S), NEW e \in S
    PROVE  /\ Append(q, e) \in Seq(S) /\ Append(q, e) # <<>>
           /\ q # <<>> => Head(Append(q, e)) = Head(q)
  <1>1. /\ Len(q) \in Nat /\ Append(q, e) \in Seq(S)
        /\ Len(Append(q, e)) = Len(q) + 1
    OBVIOUS
  <1>2. Append(q, e) # <<>>
    BY <1>1
  <1>3. ASSUME q # <<>> PROVE Head(Append(q, e)) = Head(q)
    <2>1. Len(q) >= 1
      BY <1>3, <1>1
    <2>2. Append(q, e)[1] = q[1]
      BY <2>1
    <2> QED
      BY <1>1, <1>2, <1>3, <2>2
  <1> QED
    BY <1>1, <1>2, <1>3

\* Every route is a non-empty sequence of model calls.
LEMMA RoutesType == \A r \in Routes : r \in Seq(Models) /\ r # <<>>
  <1>1. \A n \in Nat : Voice(n) \in Seq(Models) /\ Voice(n) # <<>>
    <2> SUFFICES ASSUME NEW n \in Nat PROVE Voice(n) \in Seq(Models) /\ Voice(n) # <<>>
      OBVIOUS
    <2>1. Voice(n) \in [1..(n + 1) -> Models]
      BY DEF Voice, Models
    <2>2. Voice(n) \in Seq(Models) /\ Len(Voice(n)) = n + 1
      BY <2>1
    <2> QED
      BY <2>2
  <1>2. \A n \in Nat : Append(Voice(n), "ollama") \in Seq(Models)
                            /\ Append(Voice(n), "ollama") # <<>>
    BY <1>1, AppendHead DEF Models
  <1>3. \A n \in 0..(MaxScan + 1) : n \in Nat
    BY ConstantsAssumption
  <1>4. <<"insightface", "speechbrain">> \in Seq(Models)
    BY DEF Models
  <1>5. <<"insightface", "speechbrain">> # <<>>
    <2>1. Len(<<"insightface", "speechbrain">>) = 2 /\ Len(<<>>) = 0
      OBVIOUS
    <2> QED
      BY <2>1
  <1>9. \A n \in 1..(MaxScan + 1) : n \in Nat
    BY ConstantsAssumption
  <1>6. \A r \in {Voice(n) : n \in 0..(MaxScan + 1)} : r \in Seq(Models) /\ r # <<>>
    BY <1>1, <1>3
  <1>7. \A r \in {Append(Voice(n), "ollama") : n \in 1..(MaxScan + 1)} :
            r \in Seq(Models) /\ r # <<>>
    BY <1>2, <1>9
  <1> SUFFICES ASSUME NEW r \in Routes PROVE r \in Seq(Models) /\ r # <<>>
    OBVIOUS
  <1>8. \/ r = <<"insightface", "speechbrain">>
        \/ r \in {Voice(n) : n \in 0..(MaxScan + 1)}
        \/ r \in {Append(Voice(n), "ollama") : n \in 1..(MaxScan + 1)}
    BY Zenon DEF Routes
  <1> QED
    <2>1. CASE r = <<"insightface", "speechbrain">>
      BY <1>4, <1>5, <2>1
    <2>2. CASE r \in {Voice(n) : n \in 0..(MaxScan + 1)}
      BY <1>6, <2>2
    <2>3. CASE r \in {Append(Voice(n), "ollama") : n \in 1..(MaxScan + 1)}
      BY <1>7, <2>3
    <2> QED
      BY <1>8, <2>1, <2>2, <2>3

\* The initial state, with nothing loaded, satisfies Inv.
LEMMA InitInv == Init => Inv
  <1> SUFFICES ASSUME Init PROVE Inv
    OBVIOUS
  <1>1. /\ queue = <<>> /\ resident = [m \in Models |-> "none"]
        /\ step = [t \in Tasks |-> "idle"] /\ route = [t \in Tasks |-> <<>>]
    BY DEF Init
  <1>2. queue \in Seq(Tasks) /\ \A t \in Tasks : route[t] \in Seq(Models)
    BY <1>1
  <1>3. \A t \in Tasks : step[t] = "idle"
    BY <1>1
  <1>4. step \in [Tasks -> Ended \cup {"between", "queued", "computing"}]
    BY <1>1 DEF Ended
  <1>5. resident \in [Models -> {"none", "cpu", "cuda"}] /\ \A m \in Models : resident[m] = "none"
    BY <1>1
  <1>6. route \in [Tasks -> Seq(Models)]
    BY <1>1, <1>2
  <1>7. TypeOK
    BY <1>2, <1>3, <1>4, <1>5, <1>6 DEF TypeOK
  <1>8. ComputesOnResident /\ TransientOnlyInUse /\ SpeechOnCpu
    BY <1>3, <1>5 DEF ComputesOnResident, TransientOnlyInUse, SpeechOnCpu, Models, Transient
  <1> QED
    BY <1>7, <1>8 DEF Inv

\* While one request computes, no other does.
LEMMA HolderUnique ==
    ASSUME TypeOK, NEW t \in Tasks, NEW s \in Tasks, Holds(t), step[s] = "computing"
    PROVE  s = t
  BY DEF TypeOK, Holds

\* What the end of a model call, good or bad, does to the gate and the weights.
LEMMA CallEnds ==
    ASSUME Inv, NEW t \in Tasks, step[t] = "computing", Unload(Model(t)), Release,
           NEW end \in {"served", "between", "failed"},
           step' = [step EXCEPT ![t] = end],
           \/ route' = [route EXCEPT ![t] = Tail(@)]
              /\ (end = "between" => Tail(route[t]) # <<>>)
           \/ route' = [route EXCEPT ![t] = <<>>] /\ end = "failed"
    PROVE  Inv'
  <1> USE DEF Inv
  <1>1. /\ queue \in Seq(Tasks) /\ queue # <<>> /\ Head(queue) = t
        /\ route[t] \in Seq(Models) /\ route[t] # <<>>
        /\ queue' = Tail(queue)
    BY DEF TypeOK, Release, Ended
  <1>2. queue' \in Seq(Tasks) /\ Tail(route[t]) \in Seq(Models) /\ Model(t) \in Models
    BY <1>1, TailType DEF Model
  <1>3. \A s \in Tasks : s # t => step[s] # "computing"
    BY <1>1, HolderUnique DEF Holds
  <1>4. \A s \in Tasks : step'[s] # "computing" /\ (s # t => step'[s] = step[s] /\ route'[s] = route[s])
    BY <1>3 DEF TypeOK
  <1>5. resident' \in [Models -> {"none", "cpu", "cuda"}]
    BY DEF Unload, TypeOK
  <1>6. TypeOK'
    <2>1. step' \in [Tasks -> Ended \cup {"between", "queued", "computing"}]
      BY DEF TypeOK, Ended
    <2>2. route' \in [Tasks -> Seq(Models)]
      <3>1. <<>> \in Seq(Models)
        OBVIOUS
      <3>2. PICK rest \in Seq(Models) : route' = [route EXCEPT ![t] = rest]
        BY <1>2, <3>1
      <3> QED
        BY <3>2 DEF TypeOK
    <2>3. \A s \in Tasks : step'[s] \notin Ended => route'[s] # <<>>
      <3>1. step'[t] = end /\ (end = "failed" \/ end = "served" \/ route'[t] = Tail(route[t]))
        BY DEF TypeOK
      <3>2. step'[t] \notin Ended => route'[t] # <<>>
        BY <3>1 DEF Ended, TypeOK
      <3> QED
        BY <1>4, <3>2 DEF TypeOK
    <2> QED
      BY <1>2, <1>4, <1>5, <2>1, <2>2, <2>3 DEF TypeOK
  <1>7. ComputesOnResident'
    BY <1>4 DEF ComputesOnResident
  <1>8. \A m \in Transient : resident'[m] = "none"
    <2> SUFFICES ASSUME NEW m \in Transient, m # Model(t) PROVE resident[m] = "none"
      BY DEF Unload, Transient, Models
    <2> QED
      BY <1>3 DEF TransientOnlyInUse
  <1>9. SpeechOnCpu'
    BY DEF SpeechOnCpu, Unload, Models
  <1> QED
    BY <1>6, <1>7, <1>8, <1>9 DEF TransientOnlyInUse

\* Every step preserves Inv.
LEMMA NextInv == Inv /\ [Next]_vars => Inv'
  <1> SUFFICES ASSUME Inv, [Next]_vars PROVE Inv'
    OBVIOUS
  <1> USE DEF Inv
  <1>1. CASE UNCHANGED vars
    BY <1>1 DEF vars, TypeOK, ComputesOnResident, TransientOnlyInUse, SpeechOnCpu, Model
  <1>2. ASSUME NEW t \in Tasks, Arrive(t) \/ GiveUp(t) PROVE Inv'
    <2>1. /\ step[t] \notin {"queued", "computing"}
          /\ \A s \in Tasks : s # t => step'[s] = step[s] /\ route'[s] = route[s]
          /\ step'[t] \in {"between", "failed"}
          /\ UNCHANGED <<queue, resident>>
      BY <1>2 DEF Arrive, GiveUp, TypeOK, Ended
    <2>2. route' \in [Tasks -> Seq(Models)]
      <3>0. <<>> \in Seq(Models)
        OBVIOUS
      <3>1. PICK r \in Seq(Models) : route' = [route EXCEPT ![t] = r]
        BY <1>2, RoutesType, <3>0 DEF Arrive, GiveUp
      <3> QED
        BY <3>1 DEF TypeOK
    <2>3. step' \in [Tasks -> Ended \cup {"between", "queued", "computing"}]
      BY <1>2 DEF Arrive, GiveUp, TypeOK, Ended
    <2>8. step'[t] \notin Ended => route'[t] # <<>>
      BY <1>2, RoutesType DEF Arrive, GiveUp, TypeOK, Ended
    <2>9. \A s \in Tasks : step'[s] \notin Ended => route'[s] # <<>>
      BY <2>1, <2>8 DEF TypeOK
    <2>4. TypeOK'
      BY <2>1, <2>2, <2>3, <2>9 DEF TypeOK
    <2>5. \A s \in Tasks : step'[s] = "computing" <=> step[s] = "computing" /\ s # t
      BY <2>1
    <2>6. ComputesOnResident'
      BY <2>1, <2>5 DEF ComputesOnResident, Model
    <2>7. TransientOnlyInUse' /\ SpeechOnCpu'
      BY <2>1, <2>5 DEF TransientOnlyInUse, SpeechOnCpu, Model
    <2> QED
      BY <2>4, <2>6, <2>7
  <1>3. ASSUME NEW t \in Tasks, Enter(t) PROVE Inv'
    <2>0. /\ step[t] = "between" /\ queue \in Seq(Tasks) /\ queue' = Append(queue, t)
          /\ step' = [step EXCEPT ![t] = "queued"]
          /\ UNCHANGED <<resident, route>>
      BY <1>3 DEF Enter, TypeOK
    <2>1. queue' \in Seq(Tasks) /\ queue' # <<>> /\ (queue # <<>> => Head(queue') = Head(queue))
      BY <2>0, AppendHead
    <2>2. \A s \in Tasks : step'[s] = "computing" <=> step[s] = "computing"
      BY <2>0 DEF TypeOK
    <2>3. TypeOK'
      <3>1. step' \in [Tasks -> Ended \cup {"between", "queued", "computing"}]
        BY <2>0 DEF TypeOK
      <3>2. \A s \in Tasks : step'[s] = "computing" => queue' # <<>> /\ Head(queue') = s
        <4> SUFFICES ASSUME NEW s \in Tasks, step'[s] = "computing"
                     PROVE  queue' # <<>> /\ Head(queue') = s
          OBVIOUS
        <4>1. queue # <<>> /\ Head(queue) = s
          BY <2>2 DEF TypeOK
        <4> QED
          BY <4>1, <2>1
      <3>4. route[t] # <<>>
        BY <2>0 DEF TypeOK, Ended
      <3>3. \A s \in Tasks : step'[s] \notin Ended => route'[s] # <<>>
        BY <2>0, <3>4 DEF TypeOK
      <3> QED
        BY <2>0, <2>1, <3>1, <3>2, <3>3 DEF TypeOK
    <2>4. ComputesOnResident' /\ TransientOnlyInUse' /\ SpeechOnCpu'
      BY <2>0, <2>2 DEF ComputesOnResident, TransientOnlyInUse, SpeechOnCpu, Model
    <2> QED
      BY <2>3, <2>4
  <1>4. ASSUME NEW t \in Tasks, Start(t) PROVE Inv'
    <2>1. /\ queue # <<>> /\ Head(queue) = t /\ step[t] = "queued" /\ Holds(t)
          /\ step' = [step EXCEPT ![t] = "computing"]
          /\ UNCHANGED <<queue, route>>
      BY <1>4 DEF Start, Holds
    <2>2. route[t] \in Seq(Models) /\ route[t] # <<>>
      BY <2>1 DEF TypeOK, Ended
    <2>3. Model(t) \in Models /\ Model(t)' = Model(t)
      BY <2>1, <2>2, TailType DEF Model
    <2>4. PICK m \in Models, d \in {"cpu", "cuda"} :
            /\ m = Model(t)
            /\ resident' = [resident EXCEPT ![m] = d]
            /\ d = resident[m] \/ (resident[m] = "none" /\ d = Device[m])
      BY <1>4, <2>3, ConstantsAssumption DEF Start, TypeOK
    <2>5. /\ resident' \in [Models -> {"none", "cpu", "cuda"}]
          /\ \A k \in Models : k # m => resident'[k] = resident[k]
          /\ resident'[m] # "none"
      BY <2>4 DEF TypeOK
    <2>6. \A s \in Tasks : s # t => step[s] # "computing"
      BY <2>1, HolderUnique
    <2>7. \A s \in Tasks : step'[s] = "computing" <=> s = t
      BY <2>1, <2>6 DEF TypeOK
    <2>8. TypeOK'
      <3>1. step' \in [Tasks -> Ended \cup {"between", "queued", "computing"}]
        BY <2>1 DEF TypeOK
      <3>2. \A s \in Tasks : step'[s] \notin Ended => route'[s] # <<>>
        BY <2>1, <2>2 DEF TypeOK
      <3> QED
        BY <2>1, <2>5, <2>7, <3>1, <3>2 DEF TypeOK
    <2>9. ComputesOnResident'
      BY <2>3, <2>4, <2>5, <2>7 DEF ComputesOnResident
    <2>10. TransientOnlyInUse'
      <3> SUFFICES ASSUME NEW k \in Transient, k # m PROVE resident[k] = "none"
        BY <2>3, <2>4, <2>5, <2>7 DEF TransientOnlyInUse, Transient, Models
      <3>1. \A s \in Tasks : step[s] # "computing"
        BY <2>1, <2>6
      <3> QED
        BY <3>1 DEF TransientOnlyInUse
    <2>11. SpeechOnCpu'
      BY <2>4, <2>5, ConstantsAssumption DEF SpeechOnCpu, Models, TypeOK
    <2> QED
      BY <2>8, <2>9, <2>10, <2>11
  <1>5. ASSUME NEW t \in Tasks, FallToCpu(t) PROVE Inv'
    <2>1. /\ step[t] = "computing" /\ Model(t) = "whisper"
          /\ resident' = [resident EXCEPT !["whisper"] = "cpu"]
          /\ UNCHANGED <<queue, step, route>>
      BY <1>5 DEF FallToCpu
    <2>2. /\ resident' \in [Models -> {"none", "cpu", "cuda"}]
          /\ \A k \in Models : k # "whisper" => resident'[k] = resident[k]
          /\ resident'["whisper"] = "cpu"
      BY <2>1 DEF TypeOK, Models
    <2>3. TypeOK'
      BY <2>1, <2>2 DEF TypeOK
    <2>4. \A s \in Tasks : step[s] = "computing" => resident'[Model(s)] # "none"
      <3> SUFFICES ASSUME NEW s \in Tasks, step[s] = "computing" PROVE resident'[Model(s)] # "none"
        OBVIOUS
      <3>1. queue # <<>> /\ Head(queue) = t /\ Head(queue) = s
        BY <2>1 DEF TypeOK
      <3> QED
        BY <2>1, <2>2, <3>1
    <2>5. ComputesOnResident'
      BY <2>1, <2>4 DEF ComputesOnResident, Model
    <2>6. TransientOnlyInUse'
      BY <2>1, <2>2 DEF TransientOnlyInUse, Model, Transient, Models
    <2>7. SpeechOnCpu'
      BY <2>2 DEF SpeechOnCpu, Models
    <2> QED
      BY <2>3, <2>5, <2>6, <2>7
  <1>6. ASSUME NEW t \in Tasks, Return(t) PROVE Inv'
    <2>1. PICK end \in {"served", "between"} :
            step' = [step EXCEPT ![t] = end] /\ (end = "between" => Tail(route[t]) # <<>>)
      BY <1>6 DEF Return
    <2> QED
      BY <1>6, <2>1, CallEnds DEF Return
  <1>7. ASSUME NEW t \in Tasks, Raise(t) PROVE Inv'
    BY <1>7, CallEnds DEF Raise, UnloadAfterError
  <1>8. ASSUME NEW t \in Tasks, LoadFails(t) PROVE Inv'
    <2>1. /\ queue \in Seq(Tasks) /\ queue # <<>> /\ Head(queue) = t /\ Holds(t)
          /\ step[t] = "queued" /\ queue' = Tail(queue) /\ resident' = resident
          /\ route' = [route EXCEPT ![t] = <<>>] /\ step' = [step EXCEPT ![t] = "failed"]
      BY <1>8 DEF LoadFails, Holds, Release, TypeOK
    <2>2. queue' \in Seq(Tasks)
      BY <2>1, TailType
    <2>3. \A s \in Tasks : step[s] # "computing"
      BY <2>1, HolderUnique
    <2>4. \A s \in Tasks : step'[s] # "computing" /\ (s # t => step'[s] = step[s] /\ route'[s] = route[s])
      BY <2>1, <2>3 DEF TypeOK
    <2>5. route' \in [Tasks -> Seq(Models)]
      <3>1. <<>> \in Seq(Models)
        OBVIOUS
      <3> QED
        BY <2>1, <3>1 DEF TypeOK
    <2>6. step' \in [Tasks -> Ended \cup {"between", "queued", "computing"}] /\ step'[t] = "failed"
      BY <2>1 DEF TypeOK, Ended
    <2>7. TypeOK'
      BY <2>1, <2>2, <2>4, <2>5, <2>6 DEF TypeOK
    <2>8. ComputesOnResident' /\ TransientOnlyInUse' /\ SpeechOnCpu'
      BY <2>1, <2>3, <2>4 DEF ComputesOnResident, TransientOnlyInUse, SpeechOnCpu
    <2> QED
      BY <2>7, <2>8
  <1>9. ASSUME Shutdown PROVE Inv'
    <2>1. /\ \A t \in Tasks : step[t] # "computing"
          /\ UNCHANGED <<queue, step, route>>
      BY <1>9 DEF Shutdown, Ended
    <2>2. /\ resident' \in [Models -> {"none", "cpu", "cuda"}]
          /\ \A m \in Models : resident'[m] = resident[m] \/ resident'[m] = "none"
      BY <1>9 DEF Shutdown, TypeOK
    <2>3. TypeOK'
      BY <2>1, <2>2 DEF TypeOK
    <2>4. ComputesOnResident' /\ TransientOnlyInUse' /\ SpeechOnCpu'
      BY <2>1, <2>2 DEF ComputesOnResident, TransientOnlyInUse, SpeechOnCpu, Transient, Models
    <2> QED
      BY <2>3, <2>4
  <1> QED
    BY <1>1, <1>2, <1>3, <1>4, <1>5, <1>6, <1>7, <1>8, <1>9 DEF Next, Proceed

\* The gate's inductive invariant.
THEOREM Invariance == Spec => []Inv
  BY InitInv, NextInv, PTL DEF Spec

\* Every variable keeps its type, and only the head of the gate's queue computes.
THEOREM TypeCorrect == Spec => []TypeOK
  BY Invariance, PTL DEF Inv

\* No two requests ever compute at once, whichever models they use.
THEOREM GateExcludes == Spec => []Serialized
  <1>1. Inv => Serialized
    BY DEF Inv, TypeOK, Serialized
  <1> QED
    BY <1>1, Invariance, PTL

\* The model a request computes on is never unloaded under it.
THEOREM ModelStaysLoaded == Spec => []ComputesOnResident
  BY Invariance, PTL DEF Inv

\* No path of a call, good or bad, leaves Whisper's or Ollama's weights behind.
THEOREM TransientReleased == Spec => []TransientOnlyInUse
  BY Invariance, PTL DEF Inv

\* The GPU holds InsightFace's weights and at most one other model's.
THEOREM GpuBudget == Spec => []CudaBudget
  <1>1. Inv => CudaBudget
    <2> SUFFICES ASSUME Inv, NEW m \in Models \ {"insightface"}, NEW n \in Models \ {"insightface"},
                        resident[m] = "cuda", resident[n] = "cuda"
                 PROVE  m = n
      BY DEF CudaBudget
    <2>1. m \in Transient /\ n \in Transient
      BY DEF Inv, SpeechOnCpu, Models, Transient
    <2>2. PICK s \in Tasks : step[s] = "computing" /\ Model(s) = m
      BY <2>1 DEF Inv, TransientOnlyInUse
    <2>3. PICK t \in Tasks : step[t] = "computing" /\ Model(t) = n
      BY <2>1 DEF Inv, TransientOnlyInUse
    <2>4. s = t
      BY <2>2, <2>3 DEF Inv, TypeOK
    <2> QED
      BY <2>2, <2>3, <2>4
  <1> QED
    BY <1>1, Invariance, PTL
-----------------------------------------------------------------------------
(* Waiting: the safety half of Ends                                        *)

\* Leaving the queue moves every waiter one place up.
LEMMA TailPlaces ==
    ASSUME NEW S, NEW q \in Seq(S), q # <<>>
    PROVE  /\ Tail(q) \in Seq(S)
           /\ Len(Tail(q)) = Len(q) - 1
           /\ Len(q) \in Nat \ {0}
           /\ Head(q) = q[1]
           /\ \A i \in 1..(Len(q) - 1) : Tail(q)[i] = q[i + 1]
  OBVIOUS

\* Joining it leaves every place as it is and adds one.
LEMMA AppendPlaces ==
    ASSUME NEW S, NEW q \in Seq(S), NEW e \in S
    PROVE  /\ Append(q, e) \in Seq(S)
           /\ Len(q) \in Nat
           /\ Len(Append(q, e)) = Len(q) + 1
           /\ Append(q, e)[Len(q) + 1] = e
           /\ \A i \in 1..Len(q) : Append(q, e)[i] = q[i]
  OBVIOUS

\* What a step does to the queue: nothing, a request joins it, or the head leaves.
LEMMA QueueSteps ==
    ASSUME TypeOK, [Next]_vars
    PROVE  \/ /\ queue' = queue
              /\ \A t \in Tasks : step'[t] \in {"queued", "computing"}
                                    <=> step[t] \in {"queued", "computing"}
           \/ \E t \in Tasks : /\ step[t] = "between" /\ queue' = Append(queue, t)
                               /\ step' = [step EXCEPT ![t] = "queued"]
           \/ \E t \in Tasks : /\ queue # <<>> /\ Head(queue) = t /\ queue' = Tail(queue)
                               /\ step[t] \in {"queued", "computing"}
                               /\ step'[t] \in Ended \cup {"between"}
                               /\ \A s \in Tasks : s # t => step'[s] = step[s]
  <1>1. CASE UNCHANGED vars
    BY <1>1 DEF vars
  <1>2. ASSUME NEW t \in Tasks, Arrive(t) \/ GiveUp(t) \/ Start(t) \/ FallToCpu(t)
        PROVE  /\ queue' = queue
               /\ \A s \in Tasks : step'[s] \in {"queued", "computing"}
                                     <=> step[s] \in {"queued", "computing"}
    BY <1>2 DEF Arrive, GiveUp, Start, FallToCpu, TypeOK, Ended
  <1>3. ASSUME NEW t \in Tasks, Enter(t)
        PROVE  /\ step[t] = "between" /\ queue' = Append(queue, t)
               /\ step' = [step EXCEPT ![t] = "queued"]
    BY <1>3 DEF Enter
  <1>4. ASSUME NEW t \in Tasks, Return(t) \/ Raise(t) \/ LoadFails(t)
        PROVE  /\ queue # <<>> /\ Head(queue) = t /\ queue' = Tail(queue)
               /\ step[t] \in {"queued", "computing"}
               /\ step'[t] \in Ended \cup {"between"}
               /\ \A s \in Tasks : s # t => step'[s] = step[s]
    BY <1>4 DEF Return, Raise, LoadFails, Release, Holds, TypeOK, Ended
  <1>5. CASE Shutdown
    BY <1>5 DEF Shutdown
  <1> QED
    BY <1>1, <1>2, <1>3, <1>4, <1>5 DEF Next, Proceed

LEMMA QueueKept == TypeOK /\ QueueOfCalls /\ [Next]_vars => QueueOfCalls'
  <1> SUFFICES ASSUME TypeOK, QueueOfCalls, [Next]_vars PROVE QueueOfCalls'
    OBVIOUS
  <1> DEFINE Calling(t) == step[t] \in {"queued", "computing"}
  <1>1. /\ queue \in Seq(Tasks)
        /\ \A t \in Tasks : Calling(t) <=> \E i \in 1..Len(queue) : queue[i] = t
        /\ \A i, j \in 1..Len(queue) : queue[i] = queue[j] => i = j
    BY DEF TypeOK, QueueOfCalls
  <1>2. CASE queue' = queue /\ \A t \in Tasks : Calling(t)' <=> Calling(t)
    BY <1>1, <1>2 DEF QueueOfCalls
  <1>3. ASSUME NEW t \in Tasks, step[t] = "between", queue' = Append(queue, t),
               step' = [step EXCEPT ![t] = "queued"]
        PROVE  QueueOfCalls'
    <2>1. /\ Len(queue) \in Nat /\ Len(queue') = Len(queue) + 1
          /\ queue'[Len(queue) + 1] = t
          /\ \A i \in 1..Len(queue) : queue'[i] = queue[i] /\ queue[i] # t
      BY <1>1, <1>3, AppendPlaces
    <2>2. \A s \in Tasks : Calling(s)' <=> Calling(s) \/ s = t
      BY <1>3 DEF TypeOK
    <2>3. ASSUME NEW s \in Tasks PROVE Calling(s)' <=> \E i \in 1..Len(queue') : queue'[i] = s
      <3>1. CASE s = t
        BY <2>1, <2>2, <3>1
      <3>2. CASE s # t
        BY <1>1, <2>1, <2>2, <3>2
      <3> QED
        BY <3>1, <3>2
    <2>4. \A i, j \in 1..Len(queue') : queue'[i] = queue'[j] => i = j
      BY <1>1, <2>1
    <2> QED
      BY <2>3, <2>4 DEF QueueOfCalls
  <1>4. ASSUME NEW t \in Tasks, queue # <<>>, Head(queue) = t, queue' = Tail(queue),
               Calling(t), step'[t] \in Ended \cup {"between"},
               \A s \in Tasks : s # t => step'[s] = step[s]
        PROVE  QueueOfCalls'
    <2>1. /\ Len(queue) \in Nat \ {0} /\ Len(queue') = Len(queue) - 1
          /\ queue[1] = t
          /\ \A i \in 1..(Len(queue) - 1) : queue'[i] = queue[i + 1]
      BY <1>1, <1>4, TailPlaces
    <2>2. \A i \in 1..Len(queue') : i + 1 \in 1..Len(queue) /\ queue'[i] = queue[i + 1]
      BY <2>1
    <2>3. \A i, j \in 1..Len(queue') : queue'[i] = queue'[j] => i = j
      <3> SUFFICES ASSUME NEW i \in 1..Len(queue'), NEW j \in 1..Len(queue'), queue'[i] = queue'[j]
                   PROVE  i = j
        OBVIOUS
      <3>1. queue[i + 1] = queue[j + 1] /\ i + 1 \in 1..Len(queue) /\ j + 1 \in 1..Len(queue)
        BY <2>2
      <3>2. i + 1 = j + 1
        BY <1>1, <3>1
      <3> QED
        BY <3>2
    <2>4. ASSUME NEW s \in Tasks PROVE Calling(s)' <=> \E i \in 1..Len(queue') : queue'[i] = s
      <3>1. CASE s = t
        <4>1. ~Calling(s)'
          BY <1>4, <3>1 DEF Ended
        <4>2. ASSUME NEW i \in 1..Len(queue') PROVE queue'[i] # s
          <5>1. i + 1 \in 1..Len(queue) /\ 1 \in 1..Len(queue) /\ i + 1 # 1
            BY <2>1, <2>2
          <5> QED
            BY <1>1, <2>1, <2>2, <3>1, <5>1
        <4> QED
          BY <4>1, <4>2
      <3>2. CASE s # t
        <4>1. Calling(s)' <=> \E k \in 1..Len(queue) : queue[k] = s
          BY <1>1, <1>4, <3>2
        <4>2. ASSUME NEW k \in 1..Len(queue), queue[k] = s
              PROVE  \E i \in 1..Len(queue') : queue'[i] = s
          <5>1. k - 1 \in 1..Len(queue') /\ (k - 1) + 1 = k
            BY <2>1, <3>2, <4>2
          <5> QED
            BY <2>2, <4>2, <5>1
        <4>3. ASSUME NEW i \in 1..Len(queue'), queue'[i] = s
              PROVE  \E k \in 1..Len(queue) : queue[k] = s
          BY <2>2, <4>3
        <4> QED
          BY <4>1, <4>2, <4>3
      <3> QED
        BY <3>1, <3>2
    <2> QED
      BY <2>3, <2>4 DEF QueueOfCalls
  <1> QED
    BY <1>2, <1>3, <1>4, QueueSteps

\* Whichever way calls end, the gate's holder and waiters are requests in a call, each
\* queued once: nothing waits behind a request that has gone.
THEOREM GateNeverAbandoned == Spec => []QueueOfCalls
  <1>1. Init => QueueOfCalls
    BY DEF Init, QueueOfCalls
  <1> QED
    BY <1>1, QueueKept, TypeCorrect, PTL DEF Spec

\* A waiter's place in the queue only falls: it waits for those before it alone.
THEOREM WaitIsBounded == Spec => NeverOvertaken
  <1>1. TypeOK /\ QueueOfCalls /\ [Next]_vars =>
          \A i \in 1..Len(queue), j \in 1..Len(queue') : queue[i] = queue'[j] => j <= i
    <2> SUFFICES ASSUME TypeOK, QueueOfCalls, [Next]_vars,
                        NEW i \in 1..Len(queue), NEW j \in 1..Len(queue'), queue[i] = queue'[j]
                 PROVE  j <= i
      OBVIOUS
    <2>1. queue \in Seq(Tasks) /\ \A k, l \in 1..Len(queue) : queue[k] = queue[l] => k = l
      BY DEF TypeOK, QueueOfCalls
    <2>2. CASE queue' = queue
      BY <2>1, <2>2
    <2>3. ASSUME NEW t \in Tasks, step[t] = "between", queue' = Append(queue, t)
          PROVE  j <= i
      <3>1. /\ Len(queue) \in Nat /\ Len(queue') = Len(queue) + 1
            /\ queue'[Len(queue) + 1] = t
            /\ \A k \in 1..Len(queue) : queue'[k] = queue[k]
        BY <2>1, <2>3, AppendPlaces
      <3>2. queue[i] # t
        BY <2>3 DEF QueueOfCalls
      <3>3. j \in 1..Len(queue)
        BY <3>1, <3>2
      <3> QED
        BY <2>1, <3>1, <3>3
    <2>4. ASSUME queue # <<>>, queue' = Tail(queue)
          PROVE  j <= i
      <3>1. /\ Len(queue) \in Nat \ {0} /\ Len(queue') = Len(queue) - 1
            /\ \A k \in 1..(Len(queue) - 1) : queue'[k] = queue[k + 1]
        BY <2>1, <2>4, TailPlaces
      <3>2. j + 1 \in 1..Len(queue) /\ queue[i] = queue[j + 1]
        BY <3>1
      <3>3. i = j + 1
        BY <2>1, <3>2
      <3> QED
        BY <3>3
    <2>5. \/ queue' = queue
          \/ \E t \in Tasks : step[t] = "between" /\ queue' = Append(queue, t)
          \/ queue # <<>> /\ queue' = Tail(queue)
      BY QueueSteps
    <2> QED
      BY <2>2, <2>3, <2>4, <2>5
  <1> QED
    BY <1>1, TypeCorrect, GateNeverAbandoned, PTL DEF Spec, NeverOvertaken

\* The steps a request may still take run out, whatever other requests do.
THEOREM RequestsMoveOn == Spec => MovesOn
  <1>1. TypeOK /\ [Next]_vars =>
          \A t \in Tasks : step[t] \notin Ended =>
              \/ step'[t] \in Ended
              \/ StepsLeft(t)' < StepsLeft(t)
              \/ step'[t] = step[t] /\ route'[t] = route[t]
    <2> SUFFICES ASSUME TypeOK, [Next]_vars, NEW t \in Tasks, step[t] \notin Ended
                 PROVE  \/ step'[t] \in Ended
                        \/ StepsLeft(t)' < StepsLeft(t)
                        \/ step'[t] = step[t] /\ route'[t] = route[t]
      OBVIOUS
    <2>1. route[t] \in Seq(Models) /\ route[t] # <<>>
      BY DEF TypeOK
    <2>2. /\ Len(route[t]) \in Nat \ {0} /\ Len(Tail(route[t])) = Len(route[t]) - 1
      BY <2>1, TailPlaces
    <2>3. ASSUME NEW s \in Tasks, s # t, \/ Arrive(s) \/ Enter(s) \/ Start(s) \/ Return(s)
                                         \/ FallToCpu(s) \/ Raise(s) \/ LoadFails(s) \/ GiveUp(s)
          PROVE  step'[t] = step[t] /\ route'[t] = route[t]
      BY <2>3 DEF Arrive, Enter, Start, Return, FallToCpu, Raise, LoadFails, GiveUp, TypeOK
    <2>4. CASE Enter(t)
      BY <2>2, <2>4 DEF Enter, TypeOK, StepsLeft
    <2>5. CASE Start(t)
      BY <2>2, <2>5 DEF Start, TypeOK, StepsLeft
    <2>6. CASE Return(t)
      <3>1. route'[t] = Tail(route[t]) /\ step[t] = "computing"
            /\ step'[t] \in {"served", "between"}
        BY <2>6 DEF Return, TypeOK
      <3>2. CASE step'[t] = "between"
        <4>1. StepsLeft(t)' = 3 * Len(Tail(route[t])) + 2
          BY <3>1, <3>2 DEF StepsLeft
        <4>2. StepsLeft(t) = 3 * Len(route[t]) + 0
          BY <3>1 DEF StepsLeft
        <4> QED
          BY <2>2, <4>1, <4>2
      <3> QED
        BY <3>1, <3>2 DEF Ended
    <2>7. CASE FallToCpu(t)
      BY <2>7 DEF FallToCpu, TypeOK
    <2>8. CASE Raise(t) \/ LoadFails(t) \/ GiveUp(t)
      BY <2>8 DEF Raise, LoadFails, GiveUp, TypeOK, Ended
    <2>9. ~Arrive(t)
      BY DEF Arrive
    <2>10. CASE Shutdown \/ UNCHANGED vars
      BY <2>10 DEF Shutdown, vars
    <2>11. \/ Shutdown \/ UNCHANGED vars
           \/ \E s \in Tasks : \/ Arrive(s) \/ Enter(s) \/ Start(s) \/ Return(s)
                               \/ FallToCpu(s) \/ Raise(s) \/ LoadFails(s) \/ GiveUp(s)
      BY DEF Next, Proceed
    <2> QED
      BY <2>3, <2>4, <2>5, <2>6, <2>7, <2>8, <2>9, <2>10, <2>11
  <1> QED
    BY <1>1, TypeCorrect, PTL DEF Spec, MovesOn

=============================================================================
