-------------------------- MODULE AgentLaunchProofs --------------------------
(***************************************************************************)
(* Proofs about AgentLaunch, for any launches, processes, configurations,  *)
(* runtimes and approval sources, and any numbers of proofs and events.    *)
(***************************************************************************)
EXTENDS AgentLaunch, TLAPS

Places == [pc : PCs, config : Configs \union {None}, proof : Proofs \union {None},
           result : Results \union {None}]

\* The places past the consumption of the proof, of the receipt, and of the
\* final-effect exercise.
Proven == Held \union {"authorize", "boundary", "process", "registry", "register"}
Authorized == Proven \ {"authorize"}
Exercised == Held \ {"exercise", "release"}

(***************************************************************************)
(* The inductive invariant: what a launch has behind it at each place.     *)
(***************************************************************************)

\* Nothing is said of a launch that is on its way, and its intent is stored.
Underway(l) ==
    /\ launch[l].pc # "idle" => launch[l].config \in Configs /\ verdict[l] = None
    /\ launch[l].pc = "intent" => ~intent[l]
    /\ launch[l].pc \notin {"idle", "intent"} => intent[l]

\* The proof, the receipt and the exercise are its own.
Backed(l) ==
    /\ launch[l].pc \in Proven =>
          /\ launch[l].proof \in Proofs
          /\ spent[launch[l].proof] = l
          /\ proofs[launch[l].proof] # None
          /\ proofs[launch[l].proof].config = launch[l].config
    /\ launch[l].pc \in Authorized => claimed[l]
    /\ launch[l].pc \in {"boundary", "process"} => ~Runtime(l)
    /\ launch[l].pc \in Exercised => exercised[l]

\* What it ran with.
RunOK(l) ==
    runs[l] # None =>
       /\ intent[l] /\ claimed[l]
       /\ TypeOf[runs[l].config] \in Runtimes => exercised[l]
       /\ spent[runs[l].proof] = l
       /\ proofs[runs[l].proof] # None
       /\ proofs[runs[l].proof].config = runs[l].config

\* The registry and the stop.
PlaceOK(l) ==
    /\ launch[l].pc \in Held \union {"registry", "register"} => Runtime(l)
    /\ launch[l].pc \in Held => running[Key(l)] = l
    /\ \A k \in Keys : running[k] = l => launch[l].pc \in Held /\ Key(l) = k
    /\ l \in cancelled => /\ launch[l].pc \in Held \union {"record", "update", "idle"}
                          /\ intent[l]
    /\ launch[l].pc \in {"start", "process"} => l \notin warned

RanUnsignalled(l) == runs[l] # None /\ (l \in cancelled => l \in missed)

\* Its outcome, from the result it carries to the answer of its caller.
OutcomeOK(l) ==
    /\ launch[l].pc = "adapter" => runs[l] # None
    /\ launch[l].pc \in {"release", "record", "update"} =>
          /\ launch[l].result \in Results
          /\ launch[l].result = "completed" => RanUnsignalled(l)
    /\ launch[l].pc = "update" => outcome[l] = launch[l].result
    /\ outcome[l] # None => launch[l].pc \in {"idle", "update"} /\ intent[l]
    /\ outcome[l] = "completed" => RanUnsignalled(l)
    /\ verdict[l] \in Results => outcome[l] = verdict[l]
    /\ runs[l] # None /\ outcome[l] = None /\ launch[l].pc = "idle"
          => verdict[l] \in {None, "indeterminate"}

LaunchOK(l) == Underway(l) /\ Backed(l) /\ RunOK(l) /\ PlaceOK(l) /\ OutcomeOK(l)

\* Proofs are for what their source decided; only a standing stop warns;
\* a stop is signalled under the runtime of the row it read.
SharedOK ==
    /\ \A p \in Proofs : proofs[p] # None => decision[proofs[p].source] = proofs[p].config
    /\ ~stop => warned = {}
    /\ stopper # None /\ stopper.pc = "signal" => TypeOf[stopper.config] \in Runtimes

IInv == TypeOK /\ SharedOK /\ \A l \in Launches : LaunchOK(l)

-----------------------------------------------------------------------------
\* What a step of one launch, or of nobody, leaves to launch l.
Undisturbed(l) ==
    /\ launch'[l] = launch[l] /\ intent'[l] = intent[l] /\ claimed'[l] = claimed[l]
    /\ exercised'[l] = exercised[l] /\ outcome'[l] = outcome[l]
    /\ runs'[l] = runs[l] /\ verdict'[l] = verdict[l]
    /\ \A k \in Keys : running'[k] = l <=> running[k] = l
    /\ l \in missed => l \in missed'
    /\ l \in cancelled' /\ l \notin cancelled =>
         /\ \E k \in Keys : running[k] = l
         /\ launch[l].pc = "release" => l \in missed'
    /\ l \in warned' => l \in warned \/ launch[l].pc \notin {"start", "process"}

\* Nothing recorded of decisions and proofs is ever taken back.
Recorded ==
    /\ \A s \in Sources : decision[s] # None => decision'[s] = decision[s]
    /\ \A p \in Proofs : /\ proofs[p] # None => proofs'[p] = proofs[p]
                         /\ spent[p] # None => spent'[p] = spent[p]

LEMMA OthersKeep ==
    ASSUME IInv, NEW l \in Launches, Undisturbed(l), Recorded
    PROVE  LaunchOK(l)'
<1>1. /\ None \notin Configs /\ None \notin Launches /\ None \notin Results /\ TypeOK
      /\ launch[l] \in Places /\ LaunchOK(l)
  BY LaunchAssumption DEF IInv, TypeOK, Places
<1>2. Key(l)' = Key(l) /\ (Runtime(l)' <=> Runtime(l))
  BY DEF Undisturbed, Key, Runtime
<1>3. Runtime(l) => Key(l) \in Keys
  BY LaunchAssumption DEF Runtime, Key, Keys
<1>4. Underway(l)'
  BY <1>1 DEF LaunchOK, Underway, Undisturbed
<1>5. Backed(l)'
  BY <1>1, <1>2 DEF LaunchOK, Backed, Underway, Undisturbed, Recorded, Proven, Authorized,
     Exercised, Held
<1>6. RunOK(l)'
  BY <1>1 DEF LaunchOK, RunOK, Undisturbed, Recorded, TypeOK, Runs
<1>7. PlaceOK(l)'
  BY <1>1, <1>2, <1>3 DEF LaunchOK, PlaceOK, Underway, Undisturbed, Held
<1>8. RanUnsignalled(l) /\ launch[l].pc \in {"release", "record", "update", "idle"}
        => RanUnsignalled(l)'
  BY <1>1 DEF LaunchOK, PlaceOK, RanUnsignalled, Undisturbed, Held
<1>9. OutcomeOK(l)'
  BY <1>1, <1>8 DEF LaunchOK, OutcomeOK, PlaceOK, Undisturbed, Held, Results
<1> QED
  BY <1>4, <1>5, <1>6, <1>7, <1>9 DEF LaunchOK

LEMMA InitInv == Init => IInv
<1> SUFFICES ASSUME Init
             PROVE  IInv
  OBVIOUS
<1>1. TypeOK
  <2>1. Idle \in Places
    BY DEF Idle, Places, PCs
  <2>2. 0 \in 0..MaxEvents /\ First \in Configs
    BY LaunchAssumption
  <2>3. launch \in [Launches -> Places] /\ running \in [Keys -> Launches \union {None}]
    BY <2>1 DEF Init
  <2>4. \A l \in Launches : outcome[l] = None
    BY DEF Init
  <2> QED
    BY <2>2, <2>3, <2>4 DEF Init, TypeOK, Places
<1>2. SharedOK
  BY DEF Init, SharedOK
<1>3. \A l \in Launches : LaunchOK(l)
  <2>1. None \notin Results /\ None \notin Launches
    BY LaunchAssumption
  <2>2. \A l \in Launches : launch[l].pc = "idle"
    BY DEF Init, Idle
  <2> QED
    BY <2>1, <2>2 DEF Init, LaunchOK, Underway, Backed, RunOK, PlaceOK, OutcomeOK,
       Held, Proven, Authorized, Exercised, Results
<1> QED
  BY <1>1, <1>2, <1>3 DEF IInv

\* A step that moves no launch.
LEMMA SharedStep ==
    ASSUME IInv, TypeOK', SharedOK', Recorded, \A l \in Launches : Undisturbed(l)
    PROVE  IInv'
  BY OthersKeep DEF IInv

LEMMA DecisionStep ==
    ASSUME IInv, \E s \in Sources : \/ RecordApprovalDecision(s)
                                    \/ \E p \in Proofs : IssueApprovalProof(p, s)
    PROVE  IInv'
<1>1. PICK s \in Sources : \/ RecordApprovalDecision(s)
                           \/ \E p \in Proofs : IssueApprovalProof(p, s)
  OBVIOUS
<1>2. UNCHANGED <<row, expired, spent, intent, claimed, exercised, outcome, launch,
                  registry, stopper, emergency, runs, verdict, events>>
  BY <1>1 DEF RecordApprovalDecision, IssueApprovalProof
<1>3. \A l \in Launches : Undisturbed(l)
  BY <1>2 DEF Undisturbed, registry, emergency
<1>4. CASE RecordApprovalDecision(s)
  <2>1. /\ UNCHANGED proofs /\ decision[s] = None
        /\ decision \in [Sources -> Configs \union {None}] /\ row \in Configs
        /\ decision' = [decision EXCEPT ![s] = row]
    BY <1>4 DEF RecordApprovalDecision, IInv, TypeOK
  <2>2. Recorded
    BY <1>2, <2>1 DEF Recorded
  <2>3. TypeOK'
    BY <1>2, <2>1 DEF registry, emergency, IInv, TypeOK
  <2>4. SharedOK'
    <3>1. \A p \in Proofs : proofs[p] # None =>
             proofs[p].source \in Sources /\ proofs[p].config # None
      BY LaunchAssumption DEF IInv, TypeOK, Approvals
    <3> QED
      BY <1>2, <2>1, <3>1 DEF emergency, IInv, SharedOK
  <2> QED
    BY <1>3, <2>2, <2>3, <2>4, SharedStep
<1>5. ASSUME NEW p \in Proofs, IssueApprovalProof(p, s)
      PROVE  IInv'
  <2>1. /\ UNCHANGED decision /\ proofs[p] = None /\ decision[s] = row
        /\ proofs \in [Proofs -> Approvals \union {None}] /\ row \in Configs
        /\ proofs' = [proofs EXCEPT ![p] = [source |-> s, config |-> row]]
    BY <1>5 DEF IssueApprovalProof, IInv, TypeOK
  <2>2. [source |-> s, config |-> row] \in Approvals
    BY <2>1 DEF Approvals
  <2>3. Recorded
    BY <1>2, <2>1 DEF Recorded
  <2>4. TypeOK'
    BY <1>2, <2>1, <2>2 DEF registry, emergency, IInv, TypeOK
  <2>5. SharedOK'
    BY <1>2, <2>1 DEF emergency, IInv, SharedOK
  <2> QED
    BY <1>3, <2>3, <2>4, <2>5, SharedStep
<1> QED
  BY <1>1, <1>4, <1>5

\* What is bounded stays within its bound.
LEMMA EventFacts ==
    ASSUME IInv, Event \/ UNCHANGED events
    PROVE  events' \in 0..MaxEvents
  BY LaunchAssumption DEF IInv, TypeOK, Event

LEMMA OperatorStep ==
    ASSUME IInv, EngageStop \/ ClearStop \/ \E c \in Configs : Edit(c)
    PROVE  IInv'
<1>1. \A l \in Launches : Undisturbed(l)
  BY DEF EngageStop, ClearStop, Edit, Undisturbed, durable, registry, emergency
<1>2. Recorded
  BY DEF EngageStop, ClearStop, Edit, Recorded, durable
<1>3. events' \in 0..MaxEvents
  BY EventFacts DEF EngageStop, ClearStop, Edit
<1>4. TypeOK'
  BY <1>3 DEF EngageStop, ClearStop, Edit, durable, registry, emergency, IInv, TypeOK
<1>5. SharedOK'
  BY DEF EngageStop, ClearStop, Edit, durable, registry, emergency, IInv, SharedOK
<1> QED
  BY <1>1, <1>2, <1>4, <1>5, SharedStep

\* A stop request cancels the task behind a key, and marks the one it was too
\* late for.
LEMMA StopTaskStep ==
    ASSUME IInv, StopTask
    PROVE  IInv'
<1> DEFINE k == <<stopper.process, TypeOf[stopper.config]>>
           e == running[k]
           found == e # None /\ stopper.owner
<1>1. /\ stopper # None
      /\ cancelled' = IF found THEN cancelled \union {e} ELSE cancelled
      /\ missed' = IF found /\ e \notin cancelled /\ launch[e].pc = "release"
                   THEN missed \union {e} ELSE missed
      /\ stopper' = IF found THEN None ELSE [stopper EXCEPT !.pc = "write"]
      /\ UNCHANGED <<row, durable, launch, running, emergency, runs, verdict, events>>
  BY DEF StopTask
<1>2. stopper \in Stops /\ TypeOK /\ SharedOK
  BY <1>1 DEF IInv, TypeOK
<1>3. TypeOf[stopper.config] \in Runtimes
  BY DEF IInv, SharedOK, StopTask
<1>4. k \in Keys
  BY <1>2, <1>3 DEF Stops, Keys
<1>5. found => e \in Launches
  BY <1>2, <1>4 DEF TypeOK
<1>6. stopper' = None \/ (stopper' \in Stops /\ stopper'.pc = "write")
  BY <1>1, <1>2 DEF Stops
<1> HIDE DEF k
<1>7. \A l \in Launches : Undisturbed(l)
  BY <1>1, <1>4 DEF Undisturbed, durable, emergency
<1>8. Recorded
  BY <1>1 DEF Recorded, durable
<1>9. TypeOK'
  BY <1>1, <1>2, <1>5, <1>6 DEF TypeOK, durable, emergency
<1>10. SharedOK'
  BY <1>1, <1>2, <1>6 DEF SharedOK, durable, emergency
<1> QED
  BY <1>7, <1>8, <1>9, <1>10, SharedStep

LEMMA StopRequestStep ==
    ASSUME IInv, StopRequest
    PROVE  IInv'
<1>1. CASE StopTask
  BY <1>1, StopTaskStep
<1>2. CASE \/ \E process \in Processes, owner \in BOOLEAN : RequestStop(process, owner)
           \/ PersistRuntimeStopEvent \/ PersistRuntimeStopEventFails
  <2>1. UNCHANGED <<durable, launch, registry, emergency, runs, verdict>>
    BY <1>2 DEF RequestStop, PersistRuntimeStopEvent, PersistRuntimeStopEventFails
  <2>2. \A l \in Launches : Undisturbed(l)
    BY <2>1 DEF Undisturbed, durable, registry, emergency
  <2>3. Recorded
    BY <2>1 DEF Recorded, durable
  <2>4. events' \in 0..MaxEvents
    BY <1>2, EventFacts DEF RequestStop, PersistRuntimeStopEvent, PersistRuntimeStopEventFails
  <2>5. /\ row' \in Configs
        /\ stopper' = None \/ stopper' \in Stops
        /\ stopper' # None /\ stopper'.pc = "signal" => TypeOf[stopper'.config] \in Runtimes
    BY <1>2 DEF RequestStop, PersistRuntimeStopEvent, PersistRuntimeStopEventFails, IInv,
       TypeOK, Stops
  <2>6. TypeOK'
    BY <2>1, <2>4, <2>5 DEF durable, registry, emergency, IInv, TypeOK
  <2>7. SharedOK'
    BY <2>1, <2>5 DEF durable, emergency, IInv, SharedOK
  <2> QED
    BY <2>2, <2>3, <2>6, <2>7, SharedStep
<1> QED
  BY <1>1, <1>2 DEF StopRequest

\* The launches a process served are gone, and nobody else is disturbed.
LEMMA CrashStep ==
    ASSUME IInv, NEW process \in Processes, Crash(process)
    PROVE  IInv'
<1> DEFINE served == {l \in Launches : ProcessOf[l] = process}
<1>1. /\ launch' = [l \in Launches |-> IF l \in served THEN Idle ELSE launch[l]]
      /\ running' = [k \in Keys |-> IF k[1] = process THEN None ELSE running[k]]
      /\ stopper' = IF stopper # None /\ stopper.process = process THEN None ELSE stopper
      /\ UNCHANGED <<row, durable, cancelled, missed, emergency, runs, verdict>>
  BY DEF Crash
<1>2. None \notin Launches /\ None \notin Results /\ TypeOK /\ SharedOK
  BY LaunchAssumption DEF IInv
<1>3. Idle \in Places /\ Idle.pc = "idle"
  BY DEF Idle, Places, PCs
<1>4. events' \in 0..MaxEvents
  BY EventFacts DEF Crash
<1>5. TypeOK'
  BY <1>1, <1>2, <1>3, <1>4 DEF durable, emergency, TypeOK, Places
<1>6. SharedOK'
  BY <1>1, <1>2 DEF durable, emergency, SharedOK
<1>7. Recorded
  BY <1>1 DEF Recorded, durable
<1>8. ASSUME NEW l \in Launches, l \notin served
      PROVE  LaunchOK(l)'
  <2>1. ProcessOf[l] # process
    BY <1>8
  <2>2. \A k \in Keys : running'[k] = l <=> running[k] = l
    <3>1. ASSUME NEW k \in Keys, running[k] = l
          PROVE  k[1] = ProcessOf[l]
      <4>1. Key(l) = k
        BY <3>1 DEF IInv, LaunchOK, PlaceOK
      <4> QED
        BY <4>1 DEF Key
    <3> QED
      BY <1>1, <1>2, <2>1, <3>1
  <2>3. Undisturbed(l)
    BY <1>1, <1>8, <2>2 DEF durable, emergency, Undisturbed
  <2> QED
    BY <1>7, <2>3, OthersKeep
<1>9. ASSUME NEW l \in Launches, l \in served
      PROVE  LaunchOK(l)'
  <2>1. launch'[l].pc = "idle" /\ LaunchOK(l)
    BY <1>1, <1>3, <1>9 DEF IInv
  <2>2. \A k \in Keys : running'[k] # l
    <3> SUFFICES ASSUME NEW k \in Keys, running'[k] = l
                 PROVE  FALSE
      OBVIOUS
    <3>1. running[k] = l /\ k[1] # process
      BY <1>1, <1>2
    <3>2. Key(l) = k
      BY <2>1, <3>1 DEF LaunchOK, PlaceOK
    <3> QED
      BY <1>9, <3>1, <3>2 DEF Key
  <2>3. Underway(l)' /\ Backed(l)' /\ RunOK(l)'
    BY <1>1, <2>1 DEF durable, LaunchOK, Underway, Backed, RunOK, Held, Proven, Authorized,
       Exercised
  <2>4. PlaceOK(l)'
    BY <1>1, <2>1, <2>2 DEF durable, emergency, LaunchOK, PlaceOK, Held
  <2>5. OutcomeOK(l)'
    BY <1>1, <1>2, <2>1 DEF durable, LaunchOK, OutcomeOK, RanUnsignalled, Underway, Results
  <2> QED
    BY <2>3, <2>4, <2>5 DEF LaunchOK
<1> QED
  BY <1>5, <1>6, <1>8, <1>9 DEF IInv

-----------------------------------------------------------------------------
(* Steps of one launch.                                                    *)

\* Launch l is at pc afterwards, with the result r; the rest of it is kept.
At(l, pc, r) ==
    /\ launch' \in [Launches -> Places]
    /\ \A m \in Launches \ {l} : launch'[m] = launch[m]
    /\ launch'[l].pc = pc /\ launch'[l].result = r
    /\ launch'[l].config = launch[l].config /\ launch'[l].proof = launch[l].proof
    /\ Key(l)' = Key(l) /\ (Runtime(l)' <=> Runtime(l))

LEMMA GotoFacts ==
    ASSUME IInv, NEW l \in Launches, NEW pc \in PCs, Goto(l, pc)
    PROVE  At(l, pc, launch[l].result)
<1> DEFINE moved == [launch[l] EXCEPT !.pc = pc]
<1>1. launch \in [Launches -> Places] /\ launch[l] \in Places
  BY DEF IInv, TypeOK, Places
<1>2. launch' = [launch EXCEPT ![l] = moved]
  BY DEF Goto
<1>3. /\ moved \in Places
      /\ moved.pc = pc /\ moved.result = launch[l].result
      /\ moved.config = launch[l].config /\ moved.proof = launch[l].proof
  BY <1>1 DEF Places
<1> HIDE DEF moved
<1>4. /\ launch' \in [Launches -> Places] /\ launch'[l] = moved
      /\ \A m \in Launches \ {l} : launch'[m] = launch[m]
  BY <1>1, <1>2, <1>3
<1> QED
  BY <1>3, <1>4 DEF At, Key, Runtime

LEMMA EndFacts ==
    ASSUME IInv, NEW l \in Launches, NEW r \in Results, NEW pc \in {"record", "release"},
           launch' = [launch EXCEPT ![l].pc = pc, ![l].result = r]
    PROVE  At(l, pc, r)
<1> DEFINE ended == [launch[l] EXCEPT !.pc = pc, !.result = r]
<1>1. pc \in PCs
  BY DEF PCs
<1>2. launch \in [Launches -> Places] /\ launch[l] \in Places
  BY DEF IInv, TypeOK, Places
<1>3. launch' = [launch EXCEPT ![l] = ended]
  OBVIOUS
<1>4. /\ ended \in Places
      /\ ended.pc = pc /\ ended.result = r
      /\ ended.config = launch[l].config /\ ended.proof = launch[l].proof
  BY <1>1, <1>2 DEF Places
<1> HIDE DEF ended
<1>5. launch' \in [Launches -> Places] /\ launch'[l] = ended
  BY <1>2, <1>3, <1>4
<1>6. \A m \in Launches \ {l} : launch'[m] = launch[m]
  BY <1>2, <1>3
<1> QED
  BY <1>4, <1>5, <1>6 DEF At, Key, Runtime

LEMMA EndWithFacts ==
    ASSUME IInv, NEW l \in Launches, NEW r \in Results, EndWith(l, r)
    PROVE  At(l, "record", r)
  BY EndFacts DEF EndWith

LEMMA ReturnFacts ==
    ASSUME IInv, NEW l \in Launches, NEW r \in Results, Return(l, r)
    PROVE  At(l, "release", r)
  BY EndFacts DEF Return

LEMMA LaunchMoves ==
    ASSUME IInv, NEW l \in Launches, TypeOK', SharedOK', Recorded, LaunchOK(l)',
           \A m \in Launches \ {l} : Undisturbed(m)
    PROVE  IInv'
<1>1. \A m \in Launches \ {l} : LaunchOK(m)'
  BY OthersKeep
<1> QED
  BY <1>1 DEF IInv

\* What holds of every launch that moves.
LEMMA Facts ==
    ASSUME IInv, NEW l \in Launches
    PROVE  /\ TypeOK /\ SharedOK /\ LaunchOK(l) /\ launch[l] \in Places
           /\ None \notin Configs /\ None \notin Launches /\ None \notin Proofs
           /\ None \notin Results /\ None \notin Runs
           /\ Runtime(l) => Key(l) \in Keys
<1>1. TypeOK /\ SharedOK /\ LaunchOK(l)
  BY DEF IInv
<1>2. launch[l] \in Places
  BY <1>1 DEF TypeOK, Places
<1>3. /\ None \notin Configs /\ None \notin Launches /\ None \notin Proofs
      /\ None \notin Results /\ None \notin Runs
  <2>1. None \notin Nat /\ None \notin Configs /\ None \notin Results /\ None \notin Runs
    BY LaunchAssumption
  <2>2. Launches \subseteq Nat
    BY LaunchAssumption
  <2>3. Proofs \subseteq Nat
    BY LaunchAssumption DEF Proofs
  <2> QED
    BY <2>1, <2>2, <2>3
<1>4. Runtime(l) => Key(l) \in Keys
  BY LaunchAssumption DEF Runtime, Key, Keys
<1> QED
  BY <1>1, <1>2, <1>3, <1>4

\* A stop check changes nothing but the place of the launch.
LEMMA StopCheckStep ==
    ASSUME IInv, NEW l \in Launches,
           EntryStopCheck(l) \/ BoundaryStopCheck(l) \/ RegistryStopCheck(l)
    PROVE  IInv'
<1> USE Facts
<1>1. PICK here, next :
        /\ <<here, next>> \in {<<"entry", "proof">>, <<"boundary", "process">>,
                               <<"registry", "register">>}
        /\ StopCheck(l, here, next)
  BY DEF EntryStopCheck, BoundaryStopCheck, RegistryStopCheck
<1>2. /\ launch[l].pc = here
      /\ UNCHANGED <<row, durable, registry, stopper, emergency, runs, verdict, events>>
      /\ At(l, "record", "failed") \/ (~stop /\ At(l, next, launch[l].result))
  BY <1>1, GotoFacts, EndWithFacts DEF StopCheck, PCs, Results
<1>3. TypeOK' /\ SharedOK' /\ Recorded
  BY <1>2 DEF durable, registry, emergency, TypeOK, SharedOK, Recorded, At, Places
<1>4. \A m \in Launches \ {l} : Undisturbed(m)
  BY <1>2 DEF durable, registry, emergency, Undisturbed, At
<1>5. LaunchOK(l)'
  BY <1>1, <1>2 DEF durable, registry, emergency, At, LaunchOK, Underway, Backed, RunOK,
     PlaceOK, OutcomeOK, RanUnsignalled, Proven, Authorized, Exercised, Held, Results, SharedOK
<1> QED
  BY <1>3, <1>4, <1>5, LaunchMoves

\* The intent event is stored.
LEMMA SaveIntentStep ==
    ASSUME IInv, NEW l \in Launches, SaveIntent(l)
    PROVE  IInv'
<1> USE Facts
<1>1. /\ launch[l].pc = "intent" /\ At(l, "entry", launch[l].result)
      /\ intent' = [intent EXCEPT ![l] = TRUE]
      /\ UNCHANGED <<row, decision, proofs, expired, spent, claimed, exercised,
                     outcome, registry, stopper, emergency, runs, verdict, events>>
  BY GotoFacts DEF SaveIntent, PCs
<1>2. TypeOK'
  BY <1>1 DEF durable, registry, emergency, TypeOK, At, Places, Runs
<1>3. SharedOK' /\ Recorded
  BY <1>1 DEF durable, registry, emergency, TypeOK, SharedOK, Recorded, At
<1>4. \A m \in Launches \ {l} : Undisturbed(m)
  BY <1>1 DEF durable, registry, emergency, TypeOK, Undisturbed, At
<1>5. Underway(l)' /\ Backed(l)' /\ RunOK(l)'
  <2>1. Underway(l)'
    BY <1>1 DEF durable, TypeOK, At, LaunchOK, Underway
  <2>2. Backed(l)'
    BY <1>1 DEF durable, TypeOK, At, LaunchOK, Underway, Backed, Proven, Authorized, Exercised,
       Held
  <2>3. RunOK(l)'
    BY <1>1 DEF durable, TypeOK, LaunchOK, RunOK
  <2> QED
    BY <2>1, <2>2, <2>3
<1>6. PlaceOK(l)'
  BY <1>1 DEF durable, registry, emergency, TypeOK, At, LaunchOK, Underway, PlaceOK, SharedOK,
     Held
<1>7. OutcomeOK(l)'
  BY <1>1 DEF durable, registry, TypeOK, At, LaunchOK, OutcomeOK, PlaceOK, RanUnsignalled, Held,
     Results
<1> QED
  BY <1>2, <1>3, <1>4, <1>5, <1>6, <1>7, LaunchMoves DEF LaunchOK

\* The proof is consumed, or the launch is blocked.
LEMMA ConsumeProofStep ==
    ASSUME IInv, NEW l \in Launches, VerifyAndConsumeApproval(l)
    PROVE  IInv'
<1> USE Facts
<1>1. /\ launch[l].pc = "proof"
      /\ \/ /\ At(l, "authorize", launch[l].result)
            /\ launch[l].proof \in Proofs
            /\ proofs[launch[l].proof] # None
            /\ proofs[launch[l].proof].config = launch[l].config
            /\ spent[launch[l].proof] = None
            /\ spent' = [spent EXCEPT ![launch[l].proof] = l]
            /\ UNCHANGED expired
         \/ At(l, "record", "failed") /\ UNCHANGED spent /\ expired' \subseteq Proofs
      /\ UNCHANGED <<row, decision, proofs, intent, claimed, exercised,
                     outcome, registry, stopper, emergency, runs, verdict, events>>
  <2>1. Acceptable(l, launch[l].proof) =>
          /\ launch[l].proof \in Proofs
          /\ proofs[launch[l].proof] # None
          /\ proofs[launch[l].proof].config = launch[l].config
          /\ spent[launch[l].proof] = None
    BY DEF Acceptable, Places
  <2>2. expired \subseteq Proofs
    BY DEF TypeOK
  <2> QED
    BY <2>1, <2>2, GotoFacts, EndWithFacts DEF VerifyAndConsumeApproval, PCs, Results
<1>2. TypeOK'
  <2>1. launch' \in [Launches -> Places]
    BY <1>1 DEF At
  <2>2. spent' \in [Proofs -> Launches \union {None}] /\ expired' \subseteq Proofs
    BY <1>1 DEF TypeOK
  <2> QED
    BY <1>1, <2>1, <2>2 DEF durable, registry, emergency, TypeOK, Places
<1>3. SharedOK' /\ Recorded
  BY <1>1 DEF durable, registry, emergency, TypeOK, SharedOK, Recorded, At
<1>4. \A m \in Launches \ {l} : Undisturbed(m)
  BY <1>1 DEF durable, registry, emergency, TypeOK, Undisturbed, At
<1>5. Underway(l)' /\ Backed(l)' /\ RunOK(l)'
  <2>1. Underway(l)'
    BY <1>1 DEF durable, TypeOK, At, LaunchOK, Underway
  <2>2. Backed(l)'
    BY <1>1 DEF durable, TypeOK, At, LaunchOK, Underway, Backed, Proven, Authorized, Exercised,
       Held
  <2>3. RunOK(l)'
    BY <1>1 DEF durable, TypeOK, Runs, LaunchOK, RunOK
  <2> QED
    BY <2>1, <2>2, <2>3
<1>6. PlaceOK(l)'
  BY <1>1 DEF durable, registry, emergency, TypeOK, At, LaunchOK, Underway, PlaceOK, SharedOK,
     Held
<1>7. OutcomeOK(l)'
  BY <1>1 DEF durable, registry, TypeOK, At, LaunchOK, OutcomeOK, PlaceOK, RanUnsignalled, Held,
     Results
<1> QED
  BY <1>2, <1>3, <1>4, <1>5, <1>6, <1>7, LaunchMoves DEF LaunchOK

\* The receipt of the launch is consumed.
LEMMA AuthorizeStep ==
    ASSUME IInv, NEW l \in Launches, Authorize(l)
    PROVE  IInv'
<1> USE Facts
<1>1. /\ launch[l].pc = "authorize"
      /\ At(l, IF Runtime(l) THEN "registry" ELSE "boundary", launch[l].result)
      /\ claimed' = [claimed EXCEPT ![l] = TRUE]
      /\ UNCHANGED <<row, decision, proofs, expired, spent, intent, exercised,
                     outcome, registry, stopper, emergency, runs, verdict, events>>
  BY GotoFacts DEF Authorize, PCs
<1>2. TypeOK'
  BY <1>1 DEF durable, registry, emergency, TypeOK, At, Places, Runs
<1>3. SharedOK' /\ Recorded
  BY <1>1 DEF durable, registry, emergency, TypeOK, SharedOK, Recorded, At
<1>4. \A m \in Launches \ {l} : Undisturbed(m)
  BY <1>1 DEF durable, registry, emergency, TypeOK, Undisturbed, At
<1>5. LaunchOK(l)'
  BY <1>1 DEF durable, registry, emergency, TypeOK, Places, At, Runs, Runtime, LaunchOK, Underway, Backed, RunOK,
     PlaceOK, OutcomeOK, RanUnsignalled, Proven, Authorized, Exercised, Held, Results, SharedOK
<1> QED
  BY <1>2, <1>3, <1>4, <1>5, LaunchMoves

\* A refusal, or a failing check, blocks the launch.
LEMMA BlockedStep ==
    ASSUME IInv, NEW l \in Launches, AuthorizeRefused(l) \/ VerifyFinalEffectProofFails(l)
    PROVE  IInv'
<1> USE Facts
<1>1. /\ \/ launch[l].pc = "authorize" /\ At(l, "record", "failed")
         \/ launch[l].pc = "exercise" /\ At(l, "release", "failed")
      /\ events' \in 0..MaxEvents
      /\ UNCHANGED <<row, durable, registry, stopper, emergency, runs, verdict>>
  <2>1. CASE AuthorizeRefused(l)
    BY <2>1, EndWithFacts, EventFacts DEF AuthorizeRefused, Results
  <2>2. CASE VerifyFinalEffectProofFails(l)
    BY <2>2, ReturnFacts, EventFacts DEF VerifyFinalEffectProofFails, Results
  <2> QED
    BY <2>1, <2>2
<1>2. TypeOK'
  BY <1>1 DEF durable, registry, emergency, TypeOK, At, Places, Runs
<1>3. SharedOK' /\ Recorded
  BY <1>1 DEF durable, registry, emergency, TypeOK, SharedOK, Recorded, At
<1>4. \A m \in Launches \ {l} : Undisturbed(m)
  BY <1>1 DEF durable, registry, emergency, TypeOK, Undisturbed, At
<1>5. Underway(l)' /\ Backed(l)' /\ RunOK(l)'
  <2>1. Underway(l)'
    BY <1>1 DEF durable, TypeOK, At, LaunchOK, Underway
  <2>2. Backed(l)'
    BY <1>1 DEF durable, TypeOK, At, LaunchOK, Underway, Backed, Proven, Authorized, Exercised,
       Held
  <2>3. RunOK(l)'
    BY <1>1 DEF durable, TypeOK, LaunchOK, RunOK
  <2> QED
    BY <2>1, <2>2, <2>3
<1>6. PlaceOK(l)'
  BY <1>1 DEF durable, registry, emergency, TypeOK, At, LaunchOK, Underway, PlaceOK, SharedOK,
     Held
<1>7. OutcomeOK(l)'
  BY <1>1 DEF durable, registry, TypeOK, At, LaunchOK, OutcomeOK, PlaceOK, RanUnsignalled, Held,
     Results
<1> QED
  BY <1>2, <1>3, <1>4, <1>5, <1>6, <1>7, LaunchMoves DEF LaunchOK

\* A script runs, or the adapter starts.
LEMMA StartStep ==
    ASSUME IInv, NEW l \in Launches, RunScript(l) \/ StartAdapter(l)
    PROVE  IInv'
<1> USE Facts
<1>1. /\ \/ /\ launch[l].pc = "process"
            /\ At(l, "record", "completed") \/ At(l, "record", "failed")
         \/ launch[l].pc = "start" /\ At(l, "adapter", launch[l].result)
      /\ runs' = [runs EXCEPT ![l] = [proof |-> launch[l].proof, config |-> launch[l].config]]
      /\ UNCHANGED <<row, durable, registry, stopper, emergency, verdict, events>>
  BY GotoFacts, EndWithFacts DEF RunScript, StartAdapter, Started, PCs, Results
<1>2. TypeOK'
  BY <1>1 DEF durable, registry, emergency, TypeOK, At, Places, Runs, LaunchOK,
     Underway, Backed, Proven, Held
<1>3. SharedOK' /\ Recorded
  BY <1>1 DEF durable, registry, emergency, TypeOK, SharedOK, Recorded, At
<1>4. \A m \in Launches \ {l} : Undisturbed(m)
  BY <1>1 DEF durable, registry, emergency, TypeOK, Undisturbed, At
<1>5. /\ launch[l].config \in Configs /\ verdict[l] = None /\ outcome[l] = None
      /\ launch[l].pc \in Authorized \ {"record", "adapter"} /\ launch'[l].pc \in {"record", "adapter"}
      /\ launch[l].pc = "process" => l \notin cancelled
  BY <1>1 DEF At, LaunchOK, Underway, PlaceOK, OutcomeOK, Authorized, Proven, Held
<1>6. /\ runs'[l] # None /\ runs'[l].proof = launch[l].proof
      /\ runs'[l].config = launch[l].config
  <2>1. runs'[l] = [proof |-> launch[l].proof, config |-> launch[l].config]
    BY <1>1 DEF TypeOK
  <2>2. runs'[l] \in Runs
    BY <1>1, <1>5, <2>1 DEF Runs, LaunchOK, Backed, Proven, Held
  <2> QED
    BY <2>1, <2>2
<1>7. Underway(l)' /\ Backed(l)'
  BY <1>1, <1>5 DEF durable, At, LaunchOK, Underway, Backed, Proven, Authorized, Exercised, Held
<1>8. RunOK(l)'
  BY <1>1, <1>5, <1>6 DEF durable, LaunchOK, Underway, Backed, RunOK, Runtime, Proven, Authorized,
     Exercised, Held
<1>9. PlaceOK(l)'
  BY <1>1, <1>5 DEF durable, registry, emergency, At, LaunchOK, Underway, PlaceOK, Held
<1>10. OutcomeOK(l)'
  BY <1>1, <1>5, <1>6 DEF durable, registry, At, LaunchOK, OutcomeOK, RanUnsignalled, Results
<1> QED
  BY <1>2, <1>3, <1>4, <1>7, <1>8, <1>9, <1>10, LaunchMoves DEF LaunchOK

\* The registry takes one task.
LEMMA RegisterStep ==
    ASSUME IInv, NEW l \in Launches, RegisterRunningTask(l)
    PROVE  IInv'
<1> USE Facts
<1>1. /\ launch[l].pc = "register" /\ Key(l) \in Keys
      /\ \/ /\ At(l, "exercise", launch[l].result)
            /\ running[Key(l)] = None /\ running' = [running EXCEPT ![Key(l)] = l]
         \/ At(l, "record", "failed") /\ running' = running
      /\ UNCHANGED <<row, durable, cancelled, missed, stopper, emergency, runs, verdict,
                     events>>
  BY GotoFacts, EndWithFacts DEF RegisterRunningTask, LaunchOK, PlaceOK, PCs, Results
<1>2. TypeOK'
  <2>1. running' \in [Keys -> Launches \union {None}]
    BY <1>1 DEF TypeOK
  <2> QED
    BY <1>1, <2>1 DEF durable, emergency, TypeOK, At, Places
<1>3. SharedOK' /\ Recorded
  BY <1>1 DEF durable, registry, emergency, TypeOK, SharedOK, Recorded, At
<1>4. \A m \in Launches \ {l} : Undisturbed(m)
  BY <1>1 DEF durable, registry, emergency, TypeOK, Undisturbed, At
<1>5. Underway(l)' /\ Backed(l)' /\ RunOK(l)'
  BY <1>1 DEF durable, At, LaunchOK, Underway, Backed, RunOK, Proven, Authorized, Exercised,
     Held
<1>6. PlaceOK(l)'
  <2>1. l \notin cancelled /\ Runtime(l) /\ \A k \in Keys : running[k] # l
    BY <1>1 DEF LaunchOK, PlaceOK, Held
  <2>2. CASE At(l, "record", "failed") /\ running' = running
    BY <1>1, <2>1, <2>2 DEF durable, emergency, At, PlaceOK, Held
  <2>3. CASE /\ At(l, "exercise", launch[l].result)
             /\ running' = [running EXCEPT ![Key(l)] = l]
    <3>1. running'[Key(l)] = l /\ \A k \in Keys : running'[k] = l => k = Key(l)
      BY <1>1, <2>1, <2>3 DEF TypeOK
    <3> QED
      BY <1>1, <2>1, <2>3, <3>1 DEF durable, emergency, At, PlaceOK, Held
  <2> QED
    BY <1>1, <2>2, <2>3
<1>7. OutcomeOK(l)'
  BY <1>1 DEF durable, At, LaunchOK, OutcomeOK, RanUnsignalled, Results
<1> QED
  BY <1>2, <1>3, <1>4, <1>5, <1>6, <1>7, LaunchMoves DEF LaunchOK

\* The final-effect exercise is stored.
LEMMA ExerciseStep ==
    ASSUME IInv, NEW l \in Launches, VerifyFinalEffectProof(l)
    PROVE  IInv'
<1> USE Facts
<1>1. /\ launch[l].pc = "exercise" /\ At(l, "cancellation", launch[l].result)
      /\ exercised' = [exercised EXCEPT ![l] = TRUE]
      /\ UNCHANGED <<row, decision, proofs, expired, spent, intent, claimed, outcome,
                     registry, stopper, emergency, runs, verdict, events>>
  BY GotoFacts DEF VerifyFinalEffectProof, PCs
<1>2. TypeOK'
  BY <1>1 DEF durable, registry, emergency, TypeOK, At, Places, Runs
<1>3. SharedOK' /\ Recorded
  BY <1>1 DEF durable, registry, emergency, TypeOK, SharedOK, Recorded, At
<1>4. \A m \in Launches \ {l} : Undisturbed(m)
  BY <1>1 DEF durable, registry, emergency, TypeOK, Undisturbed, At
<1>5. Underway(l)' /\ Backed(l)' /\ RunOK(l)'
  BY <1>1 DEF durable, TypeOK, At, LaunchOK, Underway, Backed, RunOK, Proven, Authorized,
     Exercised, Held
<1>6. PlaceOK(l)'
  BY <1>1 DEF durable, registry, emergency, At, LaunchOK, PlaceOK, Held
<1>7. OutcomeOK(l)'
  BY <1>1 DEF durable, registry, At, LaunchOK, OutcomeOK, RanUnsignalled, Results
<1> QED
  BY <1>2, <1>3, <1>4, <1>5, <1>6, <1>7, LaunchMoves DEF LaunchOK

\* The checks between the exercise and the adapter.
LEMMA CheckedStep ==
    ASSUME IInv, NEW l \in Launches, CancellationCheck(l) \/ LastStopCheck(l)
    PROVE  IInv'
<1> USE Facts
<1>1. /\ \/ launch[l].pc \in {"cancellation", "laststop"} /\ At(l, "release", "failed")
         \/ launch[l].pc = "cancellation" /\ At(l, "laststop", launch[l].result)
         \/ launch[l].pc = "laststop" /\ At(l, "start", launch[l].result) /\ ~stop
      /\ UNCHANGED <<row, durable, registry, stopper, emergency, runs, verdict, events>>
  BY GotoFacts, ReturnFacts DEF CancellationCheck, LastStopCheck, PCs, Results
<1>2. TypeOK'
  BY <1>1 DEF durable, registry, emergency, TypeOK, At, Places, Runs
<1>3. SharedOK' /\ Recorded
  BY <1>1 DEF durable, registry, emergency, TypeOK, SharedOK, Recorded, At
<1>4. \A m \in Launches \ {l} : Undisturbed(m)
  BY <1>1 DEF durable, registry, emergency, TypeOK, Undisturbed, At
<1>5. Underway(l)' /\ Backed(l)' /\ RunOK(l)'
  <2>1. Underway(l)'
    BY <1>1 DEF durable, TypeOK, At, LaunchOK, Underway
  <2>2. Backed(l)'
    BY <1>1 DEF durable, TypeOK, At, LaunchOK, Underway, Backed, Proven, Authorized, Exercised,
       Held
  <2>3. RunOK(l)'
    BY <1>1 DEF durable, TypeOK, LaunchOK, RunOK
  <2> QED
    BY <2>1, <2>2, <2>3
<1>6. PlaceOK(l)'
  BY <1>1 DEF durable, registry, emergency, TypeOK, At, LaunchOK, Underway, PlaceOK, SharedOK,
     Held
<1>7. OutcomeOK(l)'
  BY <1>1 DEF durable, registry, TypeOK, At, LaunchOK, OutcomeOK, PlaceOK, RanUnsignalled, Held,
     Results
<1> QED
  BY <1>2, <1>3, <1>4, <1>5, <1>6, <1>7, LaunchMoves DEF LaunchOK

\* The adapter's answer, unless its context was cancelled.
LEMMA ReturnStep ==
    ASSUME IInv, NEW l \in Launches, AdapterReturns(l)
    PROVE  IInv'
<1> USE Facts
<1>1. /\ launch[l].pc = "adapter"
      /\ \E r \in Results : At(l, "release", r) /\ (r = "completed" => l \notin cancelled)
      /\ UNCHANGED <<row, durable, registry, stopper, emergency, runs, verdict, events>>
  <2>1. PICK r \in Results : Return(l, IF l \in cancelled THEN "failed" ELSE r)
    BY DEF AdapterReturns
  <2>2. At(l, "release", IF l \in cancelled THEN "failed" ELSE r)
    BY <2>1, ReturnFacts DEF Results
  <2> QED
    BY <2>1, <2>2 DEF AdapterReturns, Results
<1>2. TypeOK'
  BY <1>1 DEF durable, registry, emergency, TypeOK, At, Places, Runs
<1>3. SharedOK' /\ Recorded
  BY <1>1 DEF durable, registry, emergency, TypeOK, SharedOK, Recorded, At
<1>4. \A m \in Launches \ {l} : Undisturbed(m)
  BY <1>1 DEF durable, registry, emergency, TypeOK, Undisturbed, At
<1>5. Underway(l)' /\ Backed(l)' /\ RunOK(l)'
  <2>1. Underway(l)'
    BY <1>1 DEF durable, TypeOK, At, LaunchOK, Underway
  <2>2. Backed(l)'
    BY <1>1 DEF durable, TypeOK, At, LaunchOK, Underway, Backed, Proven, Authorized, Exercised,
       Held
  <2>3. RunOK(l)'
    BY <1>1 DEF durable, TypeOK, LaunchOK, RunOK
  <2> QED
    BY <2>1, <2>2, <2>3
<1>6. PlaceOK(l)'
  BY <1>1 DEF durable, registry, emergency, TypeOK, At, LaunchOK, Underway, PlaceOK, SharedOK,
     Held
<1>7. OutcomeOK(l)'
  BY <1>1 DEF durable, registry, TypeOK, At, LaunchOK, OutcomeOK, PlaceOK, RanUnsignalled, Held,
     Results
<1> QED
  BY <1>2, <1>3, <1>4, <1>5, <1>6, <1>7, LaunchMoves DEF LaunchOK

\* The entry is deleted: no other launch has it.
LEMMA ReleaseStep ==
    ASSUME IInv, NEW l \in Launches, FinishRunningTask(l)
    PROVE  IInv'
<1> USE Facts
<1>1. /\ launch[l].pc = "release" /\ At(l, "record", launch[l].result)
      /\ Key(l) \in Keys /\ running[Key(l)] = l
      /\ running' = [running EXCEPT ![Key(l)] = None]
      /\ UNCHANGED <<row, durable, cancelled, missed, stopper, emergency, runs, verdict,
                     events>>
  BY GotoFacts DEF FinishRunningTask, LaunchOK, PlaceOK, Held, PCs
<1>2. TypeOK'
  BY <1>1 DEF durable, emergency, TypeOK, At, Places
<1>3. SharedOK' /\ Recorded
  BY <1>1 DEF durable, emergency, SharedOK, Recorded
<1>4. \A k \in Keys \ {Key(l)} : running'[k] = running[k] /\ running[k] # l
  BY <1>1 DEF TypeOK, LaunchOK, PlaceOK
<1>5. running'[Key(l)] = None
  BY <1>1 DEF TypeOK
<1>6. \A m \in Launches \ {l} : Undisturbed(m)
  BY <1>1, <1>4, <1>5 DEF durable, emergency, Undisturbed, At
<1>7. Underway(l)' /\ Backed(l)' /\ RunOK(l)'
  BY <1>1 DEF durable, At, LaunchOK, Underway, Backed, RunOK, Proven, Authorized, Exercised,
     Held
<1>8. PlaceOK(l)'
  BY <1>1, <1>4, <1>5 DEF durable, emergency, At, LaunchOK, PlaceOK, Underway, Held
<1>9. OutcomeOK(l)'
  BY <1>1 DEF durable, At, LaunchOK, OutcomeOK, RanUnsignalled
<1> QED
  BY <1>2, <1>3, <1>6, <1>7, <1>8, <1>9, LaunchMoves DEF LaunchOK

\* The outcome event is stored.
LEMMA RecordStep ==
    ASSUME IInv, NEW l \in Launches, SaveLaunchEvent(l)
    PROVE  IInv'
<1> USE Facts
<1>1. /\ launch[l].pc = "record" /\ At(l, "update", launch[l].result)
      /\ outcome' = [outcome EXCEPT ![l] = launch[l].result]
      /\ UNCHANGED <<row, decision, proofs, expired, spent, intent, claimed,
                     exercised, registry, stopper, emergency, runs, verdict, events>>
  BY GotoFacts DEF SaveLaunchEvent, PCs
<1>2. TypeOK'
  BY <1>1 DEF durable, registry, emergency, TypeOK, At, Places, LaunchOK, OutcomeOK,
     Underway
<1>3. SharedOK' /\ Recorded
  BY <1>1 DEF durable, registry, emergency, TypeOK, SharedOK, Recorded, At
<1>4. \A m \in Launches \ {l} : Undisturbed(m)
  BY <1>1 DEF durable, registry, emergency, TypeOK, Undisturbed, At
<1>5. Underway(l)' /\ Backed(l)' /\ RunOK(l)'
  <2>1. Underway(l)'
    BY <1>1 DEF durable, TypeOK, At, LaunchOK, Underway
  <2>2. Backed(l)'
    BY <1>1 DEF durable, TypeOK, At, LaunchOK, Underway, Backed, Proven, Authorized, Exercised,
       Held
  <2>3. RunOK(l)'
    BY <1>1 DEF durable, TypeOK, LaunchOK, RunOK
  <2> QED
    BY <2>1, <2>2, <2>3
<1>6. PlaceOK(l)'
  BY <1>1 DEF durable, registry, emergency, TypeOK, At, LaunchOK, Underway, PlaceOK, SharedOK,
     Held
<1>7. OutcomeOK(l)'
  <2>1. outcome'[l] = launch[l].result /\ outcome[l] = None /\ intent[l] /\ verdict[l] = None
    BY <1>1 DEF TypeOK, LaunchOK, OutcomeOK, Underway
  <2>2. launch[l].result \in Results /\ (launch[l].result = "completed" => RanUnsignalled(l))
    BY <1>1 DEF LaunchOK, OutcomeOK
  <2> QED
    BY <1>1, <2>1, <2>2 DEF durable, registry, At, OutcomeOK, RanUnsignalled
<1> QED
  BY <1>2, <1>3, <1>4, <1>5, <1>6, <1>7, LaunchMoves DEF LaunchOK

\* A launch begins with a copy of the row.
LEMMA BeginStep ==
    ASSUME IInv, NEW l \in Launches, NEW p \in Proofs \union {None}, Begin(l, p)
    PROVE  IInv'
<1> USE Facts
<1> DEFINE next == [pc |-> "intent", config |-> row, proof |-> p, result |-> None]
<1>1. /\ launch[l].pc = "idle" /\ verdict[l] = None /\ ~intent[l]
      /\ launch' = [launch EXCEPT ![l] = next] /\ launch \in [Launches -> Places]
      /\ UNCHANGED <<row, durable, registry, stopper, emergency, runs, verdict, events>>
  BY DEF Begin, TypeOK, Places
<1>2. next \in Places /\ next.pc = "intent" /\ next.config \in Configs
  BY DEF Places, PCs, TypeOK
<1> HIDE DEF next
<1>3. TypeOK'
  BY <1>1, <1>2 DEF durable, registry, emergency, TypeOK, Places
<1>4. SharedOK' /\ Recorded
  BY <1>1 DEF durable, registry, emergency, SharedOK, Recorded
<1>5. \A m \in Launches \ {l} : Undisturbed(m)
  BY <1>1 DEF durable, registry, emergency, Undisturbed
<1>6. LaunchOK(l)'
  BY <1>1, <1>2 DEF durable, registry, emergency, LaunchOK, Underway, Backed, RunOK,
     PlaceOK, OutcomeOK, Proven, Authorized, Exercised, Held, Results
<1> QED
  BY <1>3, <1>4, <1>5, <1>6, LaunchMoves

\* A launch answers its caller.
LEMMA AnswerStep ==
    ASSUME IInv, NEW l \in Launches,
           \/ SaveIntentFails(l) \/ SaveLaunchEventFails(l)
           \/ UpdateAutomation(l) \/ UpdateAutomationFails(l)
    PROVE  IInv'
<1> USE Facts
<1>1. PICK v : /\ \/ launch[l].pc \in {"intent", "update"} /\ v = "error"
                  \/ launch[l].pc = "record" /\ v = "indeterminate"
                  \/ launch[l].pc = "update" /\ v = launch[l].result
               /\ Answer(l, v)
  BY DEF SaveIntentFails, SaveLaunchEventFails, UpdateAutomation, UpdateAutomationFails
<1>2. /\ row' \in Configs /\ events' \in 0..MaxEvents
      /\ UNCHANGED <<durable, registry, stopper, emergency, runs>>
  <2>1. CASE UpdateAutomation(l)
    BY <2>1 DEF UpdateAutomation, LaunchOK, Underway, TypeOK
  <2>2. CASE SaveIntentFails(l) \/ SaveLaunchEventFails(l) \/ UpdateAutomationFails(l)
    BY <2>2, EventFacts DEF SaveIntentFails, SaveLaunchEventFails, UpdateAutomationFails, TypeOK
  <2> QED
    BY <2>1, <2>2
<1>3. Idle \in Places /\ Idle.pc = "idle"
  BY DEF Idle, Places, PCs
<1>4. /\ verdict' = [verdict EXCEPT ![l] = v] /\ launch' = [launch EXCEPT ![l] = Idle]
      /\ launch \in [Launches -> Places] /\ launch'[l].pc = "idle" /\ verdict'[l] = v
  BY <1>1, <1>3 DEF Answer, TypeOK, Places
<1>5. TypeOK'
  BY <1>1, <1>2, <1>3, <1>4
     DEF durable, registry, emergency, TypeOK, Places, LaunchOK, OutcomeOK
<1>6. SharedOK' /\ Recorded
  BY <1>2 DEF durable, registry, emergency, SharedOK, Recorded
<1>7. \A m \in Launches \ {l} : Undisturbed(m)
  BY <1>2, <1>4 DEF durable, registry, emergency, TypeOK, Undisturbed
<1>8. Underway(l)' /\ Backed(l)' /\ RunOK(l)'
  BY <1>1, <1>2, <1>4 DEF durable, LaunchOK, Underway, Backed, RunOK, Proven, Authorized,
     Exercised, Held
<1>9. PlaceOK(l)'
  <2>1. /\ \A k \in Keys : running[k] # l
        /\ l \in cancelled => intent[l]
    BY <1>1 DEF LaunchOK, PlaceOK, Held
  <2> QED
    BY <1>2, <1>4, <2>1 DEF durable, registry, emergency, PlaceOK, Held
<1>10. OutcomeOK(l)'
  BY <1>1, <1>2, <1>4 DEF durable, registry, LaunchOK, OutcomeOK, RanUnsignalled, Underway,
     Backed, RunOK, PlaceOK, Held, Results
<1> QED
  BY <1>5, <1>6, <1>7, <1>8, <1>9, <1>10, LaunchMoves DEF LaunchOK

-----------------------------------------------------------------------------
(* The theorems.                                                           *)

LEMMA StepInduction == IInv /\ [Next]_vars => IInv'
<1> SUFFICES ASSUME IInv, [Next]_vars
             PROVE  IInv'
  OBVIOUS
<1>1. CASE UNCHANGED vars
  <2> USE <1>1 DEF vars, durable, registry, emergency
  <2>1. TypeOK'
    BY DEF IInv, TypeOK
  <2>2. SharedOK' /\ Recorded
    BY DEF IInv, SharedOK, Recorded
  <2>3. \A l \in Launches : Undisturbed(l)
    BY DEF Undisturbed
  <2> QED
    BY <2>1, <2>2, <2>3, SharedStep
<1>2. CASE Next
  <2>1. ASSUME NEW l \in Launches, Step(l) \/ Fails(l)
        PROVE  IInv'
    BY <2>1, SaveIntentStep, StopCheckStep, ConsumeProofStep, AuthorizeStep, BlockedStep,
       StartStep, RegisterStep, ExerciseStep, CheckedStep, ReturnStep, ReleaseStep, RecordStep,
       AnswerStep DEF Step, Fails
  <2> QED
    BY <1>2, <2>1, DecisionStep, OperatorStep, StopRequestStep, CrashStep, BeginStep DEF Next
<1> QED
  BY <1>1, <1>2

\* The inductive invariant holds in every reachable state.
THEOREM Invariance == Spec => []IInv
<1> QED
  BY InitInv, StepInduction, PTL DEF Spec

\* Rows, tables, registry and launches keep their types, and an outcome event
\* exists only of a launch whose intent is stored.
THEOREM TypeCorrect == Spec => []TypeOK
<1>1. IInv => TypeOK
  BY DEF IInv
<1> QED
  BY <1>1, Invariance, PTL

\* Whatever ran had its intent stored and its receipt, proof and exercise
\* consumed by it alone, and is what the owner decided on.
THEOREM RunsAreBacked == Spec => []RunIsBacked
<1>1. IInv => RunIsBacked
  BY DEF IInv, SharedOK, TypeOK, Runs, LaunchOK, RunOK, RunIsBacked
<1> QED
  BY <1>1, Invariance, PTL

\* In each process a runtime has one task of the automation at most, the one the
\* registry names between registerRunningTask and finishRunningTask.
THEOREM OneTaskAtATime == Spec => []OneTaskRuns
<1>1. IInv => OneTaskRuns
  <2> SUFFICES ASSUME IInv
               PROVE  OneTaskRuns
    OBVIOUS
  <2>1. \A k \in Keys : running[k] # None => running[k] \in Launches
    BY DEF IInv, TypeOK
  <2> QED
    BY <2>1 DEF IInv, LaunchOK, PlaceOK, OneTaskRuns
<1> QED
  BY <1>1, Invariance, PTL

\* The answer of service.launch is the stored outcome, and "completed" is only
\* said of what ran and was not signalled before its result was judged.
THEOREM ReportsAreRecorded == Spec => []ReportIsRecorded
<1>1. IInv => ReportIsRecorded
  BY DEF IInv, LaunchOK, OutcomeOK, RanUnsignalled, ReportIsRecorded
<1> QED
  BY <1>1, Invariance, PTL

\* Nothing starts for a launch that had a stop check ahead of it when the
\* standing stop was engaged.
THEOREM StopWins == Spec => StopHoldsEffects
<1>1. IInv /\ [Next]_vars => [\A l \in Launches : runs'[l] # runs[l] => l \notin warned]_vars
  <2> SUFFICES ASSUME IInv, [Next]_vars, NEW l \in Launches, runs'[l] # runs[l]
               PROVE  l \notin warned
    OBVIOUS
  <2>1. PICK m \in Launches : RunScript(m) \/ StartAdapter(m)
    BY DEF Next, vars, Step, Fails, RecordApprovalDecision, StopRequest, RequestStop,
       StopTask, PersistRuntimeStopEvent, PersistRuntimeStopEventFails, FinishRunningTask,
       EngageStop, ClearStop, Crash, IssueApprovalProof, Edit, Begin, SaveIntent,
       EntryStopCheck, BoundaryStopCheck, RegistryStopCheck, StopCheck,
       VerifyAndConsumeApproval, Authorize, AuthorizeRefused, RegisterRunningTask,
       VerifyFinalEffectProof, CancellationCheck, LastStopCheck, AdapterReturns,
       SaveLaunchEvent, UpdateAutomation, SaveIntentFails, VerifyFinalEffectProofFails,
       SaveLaunchEventFails, UpdateAutomationFails
  <2>2. runs' = [runs EXCEPT ![m] = [proof |-> launch[m].proof, config |-> launch[m].config]]
    BY <2>1 DEF RunScript, StartAdapter, Started
  <2>3. m = l
    BY <2>2 DEF IInv, TypeOK
  <2>4. launch[l].pc \in {"start", "process"}
    BY <2>1, <2>3 DEF RunScript, StartAdapter
  <2> QED
    BY <2>4 DEF IInv, LaunchOK, PlaceOK
<1> QED
  BY <1>1, Invariance, PTL DEF Spec, StopHoldsEffects
=============================================================================
