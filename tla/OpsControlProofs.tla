-------------------------- MODULE OpsControlProofs --------------------------
(***************************************************************************)
(* Proofs about OpsControl, for every set of requests, every bound, every  *)
(* combination of faults and both kinds of authorizer.                     *)
(*                                                                         *)
(* StopHolds is not inductive: a restart takes the state from the file and *)
(* a verifier takes it from the copy it made.  The strengthening says that *)
(* the file agrees with an acknowledged stop, and that a verifier whose    *)
(* revision is still current does not hold a copy from before the stop.    *)
(***************************************************************************)
EXTENDS OpsControl, TLAPS

\* A file that, when it can be read at all, says engaged.
FileHolds == held = "yes" => ~stopFile.readable \/ stopFile.state.engaged

\* A copy of a state without a stop, older than the acknowledged stop, has a
\* revision that is no longer current.
PriorIsStale(v) ==
    /\ verifier[v].pc = "engage" /\ ~verifier[v].prior.engaged => held # "yes"
    /\ verifier[v].pc \in {"run", "restore"} =>
         /\ verifier[v].rev <= stop.revision
         /\ verifier[v].rev = stop.revision /\ ~verifier[v].prior.engaged
              => held # "yes"

StopInv == TypeOK /\ StopHolds /\ FileHolds /\ \A v \in Verifiers : PriorIsStale(v)

LEMMA WriteStopResult ==
    TypeOK => \A state \in Stop : \A w \in WriteStop(state) :
           /\ w.ok \in BOOLEAN
           /\ w.file \in [readable : BOOLEAN, state : Stop]
           /\ w.ok => w.file = [readable |-> TRUE, state |-> state]
           /\ ~w.ok => w.file = stopFile \/ ~w.file.readable
<1> SUFFICES ASSUME TypeOK, NEW state \in Stop, NEW w \in WriteStop(state)
             PROVE  /\ w.ok \in BOOLEAN
                    /\ w.file \in [readable : BOOLEAN, state : Stop]
                    /\ w.ok => w.file = [readable |-> TRUE, state |-> state]
                    /\ ~w.ok => w.file = stopFile \/ ~w.file.readable
  OBVIOUS
<1>1. \/ w = [ok |-> TRUE, file |-> [readable |-> TRUE, state |-> state]]
      \/ w = [ok |-> FALSE, file |-> stopFile]
      \/ w = [ok |-> FALSE, file |-> [readable |-> FALSE, state |-> NoStop]]
  BY DEF WriteStop, Written
<1>2. stopFile \in [readable : BOOLEAN, state : Stop] /\ NoStop \in Stop
  BY DEF TypeOK, Stop, NoStop
<1>3. CASE w = [ok |-> TRUE, file |-> [readable |-> TRUE, state |-> state]]
  BY <1>2, <1>3
<1>4. CASE w = [ok |-> FALSE, file |-> stopFile]
  BY <1>2, <1>4
<1>5. CASE w = [ok |-> FALSE, file |-> [readable |-> FALSE, state |-> NoStop]]
  BY <1>2, <1>5
<1> QED BY <1>1, <1>3, <1>4, <1>5

LEMMA WriteModeResult ==
    TypeOK => \A m \in Modes : \A w \in WriteMode(m) :
           /\ w.ok \in BOOLEAN
           /\ w.file \in [readable : BOOLEAN, mode : Modes]
           /\ w.ok => w.file = [readable |-> TRUE, mode |-> m]
           /\ ~w.ok => w.file = modeFile \/ ~w.file.readable
<1> SUFFICES ASSUME TypeOK, NEW m \in Modes, NEW w \in WriteMode(m)
             PROVE  /\ w.ok \in BOOLEAN
                    /\ w.file \in [readable : BOOLEAN, mode : Modes]
                    /\ w.ok => w.file = [readable |-> TRUE, mode |-> m]
                    /\ ~w.ok => w.file = modeFile \/ ~w.file.readable
  OBVIOUS
<1>1. \/ w = [ok |-> TRUE, file |-> [readable |-> TRUE, mode |-> m]]
      \/ w = [ok |-> FALSE, file |-> modeFile]
      \/ w = [ok |-> FALSE, file |-> [readable |-> FALSE, mode |-> "paused"]]
  BY DEF WriteMode, Written
<1>2. modeFile \in [readable : BOOLEAN, mode : Modes] /\ "paused" \in Modes
  BY ModesAssumption DEF TypeOK
<1>3. CASE w = [ok |-> TRUE, file |-> [readable |-> TRUE, mode |-> m]]
  BY <1>2, <1>3
<1>4. CASE w = [ok |-> FALSE, file |-> modeFile]
  BY <1>2, <1>4
<1>5. CASE w = [ok |-> FALSE, file |-> [readable |-> FALSE, mode |-> "paused"]]
  BY <1>2, <1>5
<1> QED BY <1>1, <1>3, <1>4, <1>5

LEMMA NewStates ==
    ASSUME TypeOK
    PROVE  /\ Engagement \in Stop
           /\ Engagement.engaged /\ Engagement.revision = stop.revision + 1
           /\ Cleared \in Stop
           /\ Cleared.revision = stop.revision + 1
           /\ \A prior \in Stop :
                /\ Restored(prior) \in Stop
                /\ Restored(prior).engaged = prior.engaged
                /\ Restored(prior).revision = stop.revision + 1
<1>1. stop \in Stop /\ stop.revision \in Nat /\ stops \in Nat
  BY DEF TypeOK, Stop
<1>2. Engagement \in Stop /\ Engagement.engaged /\ Engagement.revision = stop.revision + 1
  BY <1>1 DEF Engagement, Stop
<1>3. Cleared \in Stop /\ Cleared.revision = stop.revision + 1
  BY <1>1 DEF Cleared, Stop
<1>4. ASSUME NEW prior \in Stop
      PROVE  /\ Restored(prior) \in Stop
             /\ Restored(prior).engaged = prior.engaged
             /\ Restored(prior).revision = stop.revision + 1
  BY <1>1 DEF Restored, Stop
<1> QED
  BY <1>2, <1>3, <1>4

-----------------------------------------------------------------------------
(* The initial states satisfy the invariant.                               *)
LEMMA StopInvInit == Init => StopInv
<1> SUFFICES ASSUME Init PROVE StopInv
  OBVIOUS
<1>1. /\ stop \in Stop /\ stopErr \in BOOLEAN
      /\ stopFile \in [readable : BOOLEAN, state : Stop]
  BY DEF Init, Stop, NoStop
<1>2. mode \in Modes /\ modeErr \in BOOLEAN /\ modeFile \in [readable : BOOLEAN, mode : Modes]
  BY ModesAssumption DEF Init
<1>3. resumer \in [Resumers -> [pc : {"idle", "authorize", "clear"}, rev : Nat, id : Nat]]
  BY DEF Init, Idle
<1>4. setter \in [Setters -> [pc : {"idle", "authorize", "escalate", "set"},
                              from : Modes, target : Modes]]
  BY ModesAssumption DEF Init, IdleSetter
<1>5. verifier \in [Verifiers -> [pc : {"idle", "engage", "run", "restore"},
                                  prior : Stop, rev : Nat]]
  BY DEF Init, IdleVerifier, NoStop, Stop
<1>6. TypeOK
  BY <1>1, <1>2, <1>3, <1>4, <1>5 DEF Init, TypeOK
<1>7. StopHolds /\ FileHolds
  BY DEF Init, StopHolds, FileHolds
<1>8. \A v \in Verifiers : PriorIsStale(v)
  BY DEF Init, PriorIsStale, IdleVerifier
<1> QED BY <1>6, <1>7, <1>8 DEF StopInv

LEMMA TypeStep == TypeOK /\ [Next]_vars => TypeOK'
<1> SUFFICES ASSUME TypeOK, [Next]_vars PROVE TypeOK'
  OBVIOUS
<1> USE DEF SetResumer, SetSetter, SetVerifier, stopVars, modeVars
<1>1. CASE Pause
  <2>1. PICK w \in WriteStop(Engagement) :
          /\ Engage(w, Engagement)
          /\ stopFile' = w.file
          /\ held' = IF ~w.ok THEN held ELSE IF Racing THEN "raced" ELSE "yes"
    BY <1>1 DEF Pause
  <2>2. stop' \in Stop /\ stopErr' \in BOOLEAN
          /\ stopFile' \in [readable : BOOLEAN, state : Stop]
    BY <2>1, NewStates, WriteStopResult DEF Engage
  <2>3. held' \in {"no", "raced", "yes"} /\ stops' \in Nat
    BY <1>1, <2>1 DEF Pause, TypeOK
  <2> QED BY <1>1, <2>2, <2>3 DEF Pause, TypeOK
<1>2. CASE Approve \/ Expire
  BY <1>2 DEF Approve, Expire, TypeOK, Stop
<1>3. ASSUME NEW r \in Resumers,
             Resume(r) \/ Authorize(r) \/ Deny(r) \/ ClearConflict(r)
      PROVE  TypeOK'
  <2>1. CASE Resume(r)
    BY <2>1 DEF Resume, TypeOK, Stop
  <2>2. CASE Authorize(r)
    <3>1. PICK a \in approvals :
            SetResumer(r, [resumer[r] EXCEPT !.pc = "clear", !.id = a.id])
      BY <2>2 DEF Authorize
    <3>2. a.id \in Nat
      BY DEF TypeOK
    <3>3. resumer[r] \in [pc : {"idle", "authorize", "clear"}, rev : Nat, id : Nat]
      BY DEF TypeOK
    <3>4. [resumer[r] EXCEPT !.pc = "clear", !.id = a.id]
            \in [pc : {"idle", "authorize", "clear"}, rev : Nat, id : Nat]
      BY <3>2, <3>3
    <3> QED BY <2>2, <3>1, <3>4 DEF Authorize, TypeOK
  <2>3. CASE Deny(r) \/ ClearConflict(r)
    <3>1. Idle \in [pc : {"idle", "authorize", "clear"}, rev : Nat, id : Nat]
      BY DEF Idle
    <3>2. resumer' = [resumer EXCEPT ![r] = Idle]
      BY <2>3 DEF Deny, ClearConflict
    <3>3. resumer' \in [Resumers -> [pc : {"idle", "authorize", "clear"},
                                     rev : Nat, id : Nat]]
      BY <3>1, <3>2 DEF TypeOK
    <3> QED BY <2>3, <3>3 DEF Deny, ClearConflict, TypeOK
  <2> QED BY <1>3, <2>1, <2>2, <2>3
<1>4. ASSUME NEW r \in Resumers, Clear(r) PROVE TypeOK'
  <2>1. PICK w \in WriteStop(Cleared) :
          /\ Release(w, Cleared)
          /\ stopFile' = w.file
          /\ held' = IF w.ok THEN "no" ELSE held
    BY <1>4 DEF Clear
  <2>2. stop' \in Stop /\ stopErr' \in BOOLEAN
          /\ stopFile' \in [readable : BOOLEAN, state : Stop]
    BY <2>1, NewStates, WriteStopResult DEF Release, TypeOK
  <2>3. held' \in {"no", "raced", "yes"}
    BY <2>1 DEF TypeOK
  <2> QED BY <1>4, <2>2, <2>3 DEF Clear, TypeOK, Idle
<1>5. ASSUME NEW v \in Verifiers,
             Verify(v) \/ VerifyRun(v) \/ RestoreConflict(v)
      PROVE  TypeOK'
  <2>1. IdleVerifier \in [pc : {"idle", "engage", "run", "restore"},
                          prior : Stop, rev : Nat]
    BY DEF IdleVerifier, NoStop, Stop
  <2>2. [pc |-> "engage", prior |-> stop, rev |-> 0]
          \in [pc : {"idle", "engage", "run", "restore"}, prior : Stop, rev : Nat]
    BY DEF TypeOK
  <2>3. [verifier[v] EXCEPT !.pc = "restore"]
          \in [pc : {"idle", "engage", "run", "restore"}, prior : Stop, rev : Nat]
    BY DEF TypeOK
  <2>4. CASE Verify(v)
    BY <2>2, <2>4 DEF Verify, TypeOK
  <2>5. CASE VerifyRun(v)
    BY <2>3, <2>5 DEF VerifyRun, TypeOK
  <2>6. CASE RestoreConflict(v)
    BY <2>1, <2>6 DEF RestoreConflict, TypeOK
  <2> QED BY <1>5, <2>4, <2>5, <2>6
<1>6. ASSUME NEW v \in Verifiers, VerifyEngage(v) PROVE TypeOK'
  <2>1. PICK w \in WriteStop(Engagement) :
          /\ Engage(w, Engagement)
          /\ stopFile' = w.file
          /\ SetVerifier(v, IF w.ok
                            THEN [verifier[v] EXCEPT !.pc = "run",
                                                     !.rev = stop.revision + 1]
                            ELSE IdleVerifier)
    BY <1>6 DEF VerifyEngage
  <2>2. stop' \in Stop /\ stopErr' \in BOOLEAN
          /\ stopFile' \in [readable : BOOLEAN, state : Stop]
    BY <2>1, NewStates, WriteStopResult DEF Engage
  <2>3. verifier' \in [Verifiers -> [pc : {"idle", "engage", "run", "restore"},
                                     prior : Stop, rev : Nat]]
    <3>1. stop.revision + 1 \in Nat
      BY DEF TypeOK, Stop
    <3>2. IdleVerifier \in [pc : {"idle", "engage", "run", "restore"},
                            prior : Stop, rev : Nat]
      BY DEF IdleVerifier, NoStop, Stop
    <3>3. [verifier[v] EXCEPT !.pc = "run", !.rev = stop.revision + 1]
            \in [pc : {"idle", "engage", "run", "restore"}, prior : Stop, rev : Nat]
      <4>1. verifier[v] \in [pc : {"idle", "engage", "run", "restore"},
                             prior : Stop, rev : Nat]
        BY DEF TypeOK
      <4> QED BY <3>1, <4>1
    <3>4. PICK next \in [pc : {"idle", "engage", "run", "restore"},
                          prior : Stop, rev : Nat] :
            SetVerifier(v, next)
      BY <2>1, <3>2, <3>3
    <3> QED BY <3>4 DEF TypeOK, SetVerifier
  <2> QED BY <1>6, <2>1, <2>2, <2>3 DEF VerifyEngage, TypeOK
<1>7. ASSUME NEW v \in Verifiers, Restore(v) PROVE TypeOK'
  <2> verifier[v].prior \in Stop
    BY DEF TypeOK
  <2> Restored(verifier[v].prior) \in Stop
    BY NewStates
  <2>1. PICK w \in WriteStop(Restored(verifier[v].prior)) :
          /\ Release(w, Restored(verifier[v].prior))
          /\ stopFile' = w.file
    BY <1>7 DEF Restore
  <2>2. stop' \in Stop /\ stopErr' \in BOOLEAN
          /\ stopFile' \in [readable : BOOLEAN, state : Stop]
    BY <2>1, NewStates, WriteStopResult DEF Release, TypeOK
  <2>3. IdleVerifier \in [pc : {"idle", "engage", "run", "restore"},
                          prior : Stop, rev : Nat]
    BY DEF IdleVerifier, NoStop, Stop
  <2>4. verifier' = [verifier EXCEPT ![v] = IdleVerifier]
    BY <1>7 DEF Restore, SetVerifier
  <2> QED BY <1>7, <2>2, <2>3, <2>4 DEF Restore, TypeOK
<1>8. ASSUME NEW s \in Setters,
             (\E m \in Modes : SetMode(s, m)) \/ AuthorizeMode(s) \/ DenyMode(s)
      PROVE  TypeOK'
  <2> DEFINE Places == [pc : {"idle", "authorize", "escalate", "set"},
                        from : Modes, target : Modes]
  <2>1. setter[s] \in Places /\ StoredMode \in Modes /\ "paused" \in Modes
    BY ModesAssumption DEF TypeOK, StoredMode
  <2>2. CASE \E m \in Modes : SetMode(s, m)
    BY <2>1, <2>2 DEF SetMode, TypeOK
  <2>3. CASE AuthorizeMode(s)
    <3>1. [setter[s] EXCEPT !.pc = "escalate"] \in Places
      BY <2>1
    <3> QED BY <2>3, <3>1 DEF AuthorizeMode, TypeOK
  <2>4. CASE DenyMode(s)
    <3>1. IdleSetter \in Places
      BY <2>1 DEF IdleSetter
    <3> QED BY <2>4, <3>1 DEF DenyMode, TypeOK
  <2> QED BY <1>8, <2>2, <2>3, <2>4
<1>9. ASSUME NEW s \in Setters, WriteRestriction(s) \/ WriteEscalation(s)
      PROVE  TypeOK'
  <2> setter[s].target \in Modes
    BY DEF TypeOK
  <2>1. /\ mode' \in Modes /\ modeErr' \in BOOLEAN
        /\ modeFile' \in [readable : BOOLEAN, mode : Modes]
    <3>1. CASE UNCHANGED modeVars
      BY <3>1 DEF TypeOK
    <3>2. ASSUME NEW w \in WriteMode(setter[s].target), StoreMode(w, setter[s].target)
          PROVE  /\ mode' \in Modes /\ modeErr' \in BOOLEAN
                 /\ modeFile' \in [readable : BOOLEAN, mode : Modes]
      <4>1. w.file \in [readable : BOOLEAN, mode : Modes]
        BY WriteModeResult
      <4> QED BY <3>2, <4>1 DEF StoreMode, TypeOK
    <3> QED BY <1>9, <3>1, <3>2 DEF WriteRestriction, WriteEscalation
  <2> QED BY <1>9, <2>1, ModesAssumption
          DEF WriteRestriction, WriteEscalation, TypeOK, IdleSetter
<1>10. CASE Restart
  BY <1>10, ModesAssumption
  DEF Restart, LoadStop, LoadMode, TypeOK, Stop, Idle, IdleSetter,
      IdleVerifier, NoStop
<1>11. CASE UNCHANGED vars
  BY <1>11 DEF vars, TypeOK
<1> QED
  BY <1>1, <1>2, <1>3, <1>4, <1>5, <1>6, <1>7, <1>8, <1>9, <1>10, <1>11 DEF Next, Program

-----------------------------------------------------------------------------
(* Every step preserves the invariant of the stop.                         *)
LEMMA StopInvStep == StopInv /\ [Next]_vars => StopInv'
<1> SUFFICES ASSUME StopInv, [Next]_vars PROVE StopInv'
  OBVIOUS
<1> TypeOK /\ TypeOK'
  BY TypeStep DEF StopInv
<1> stop.revision \in Nat /\ stop.engaged \in BOOLEAN
  BY DEF TypeOK, Stop
<1> USE DEF SetResumer, SetSetter, SetVerifier, stopVars, modeVars
<1>1. CASE Pause
  <2>1. PICK w \in WriteStop(Engagement) :
          /\ Engage(w, Engagement)
          /\ stopFile' = w.file
          /\ held' = IF ~w.ok THEN held ELSE IF Racing THEN "raced" ELSE "yes"
    BY <1>1 DEF Pause
  <2>2. stop'.engaged /\ stop'.revision = stop.revision + 1
    BY <2>1, NewStates DEF Engage
  <2>3. StopHolds'
    BY <2>2 DEF StopHolds, Engaged
  <2>4. FileHolds'
    <3>1. /\ w.ok => w.file = [readable |-> TRUE, state |-> Engagement]
          /\ ~w.ok => w.file = stopFile \/ ~w.file.readable
      BY WriteStopResult, NewStates
    <3> QED BY <2>1, <3>1, NewStates DEF FileHolds, StopInv
  <2>5. ASSUME NEW v \in Verifiers PROVE PriorIsStale(v)'
    <3>1. verifier[v].pc = "engage" /\ held' = "yes" => held = "yes"
      BY <2>1 DEF Racing
    <3>2. PriorIsStale(v) /\ verifier'[v] = verifier[v] /\ verifier[v].rev \in Nat
      BY <1>1 DEF StopInv, Pause, TypeOK
    <3> QED BY <2>2, <3>1, <3>2 DEF PriorIsStale
  <2> QED BY <2>3, <2>4, <2>5 DEF StopInv
<1>2. ASSUME NEW r \in Resumers, Clear(r) PROVE StopInv'
  <2>1. PICK w \in WriteStop(Cleared) :
          /\ Release(w, Cleared)
          /\ stopFile' = w.file
          /\ held' = IF w.ok THEN "no" ELSE held
    BY <1>2 DEF Clear
  <2>2. StopHolds'
    BY <2>1 DEF StopHolds, Engaged, Release, StopInv
  <2>3. FileHolds'
    <3>1. /\ w.ok => w.file = [readable |-> TRUE, state |-> Cleared]
          /\ ~w.ok => w.file = stopFile \/ ~w.file.readable
      BY WriteStopResult, NewStates
    <3> QED BY <2>1, <3>1 DEF FileHolds, StopInv
  <2>4. stop.revision <= stop'.revision /\ (held' = "yes" => held = "yes")
    BY <2>1, NewStates DEF Release
  <2>5. ASSUME NEW v \in Verifiers PROVE PriorIsStale(v)'
    <3>1. stop' = stop \/ stop'.revision = stop.revision + 1
      BY <2>1, NewStates DEF Release
    <3>2. PriorIsStale(v) /\ verifier'[v] = verifier[v] /\ verifier[v].rev \in Nat
      BY <1>2 DEF StopInv, Clear, TypeOK
    <3> QED BY <2>4, <3>1, <3>2 DEF PriorIsStale
  <2> QED BY <2>2, <2>3, <2>5 DEF StopInv
<1>3. ASSUME NEW v \in Verifiers, Verify(v) PROVE StopInv'
  <2>1. ~stop.engaged => held # "yes"
    BY <1>3 DEF Verify, StopInv, StopHolds, Engaged
  <2>2. ASSUME NEW u \in Verifiers PROVE PriorIsStale(u)'
    <3>1. CASE u = v
      BY <1>3, <2>1, <3>1 DEF Verify, PriorIsStale, TypeOK
    <3>2. CASE u # v
      BY <1>3, <3>2 DEF Verify, PriorIsStale, TypeOK, StopInv
    <3> QED BY <3>1, <3>2
  <2> QED BY <1>3, <2>2 DEF StopInv, Verify, StopHolds, Engaged, FileHolds
<1>4. ASSUME NEW v \in Verifiers, VerifyEngage(v) PROVE StopInv'
  <2>1. PICK w \in WriteStop(Engagement) :
          /\ Engage(w, Engagement)
          /\ stopFile' = w.file
          /\ SetVerifier(v, IF w.ok
                            THEN [verifier[v] EXCEPT !.pc = "run",
                                                     !.rev = stop.revision + 1]
                            ELSE IdleVerifier)
    BY <1>4 DEF VerifyEngage
  <2>2. stop'.engaged /\ stop'.revision = stop.revision + 1 /\ held' = held
    BY <1>4, <2>1, NewStates DEF Engage, VerifyEngage
  <2>3. StopHolds'
    BY <2>2 DEF StopHolds, Engaged
  <2>4. FileHolds'
    <3>1. /\ w.ok => w.file = [readable |-> TRUE, state |-> Engagement]
          /\ ~w.ok => w.file = stopFile \/ ~w.file.readable
      BY WriteStopResult, NewStates
    <3> QED BY <2>1, <2>2, <3>1, NewStates DEF FileHolds, StopInv
  <2>5. ASSUME NEW u \in Verifiers PROVE PriorIsStale(u)'
    <3>1. CASE u = v /\ w.ok
      <4>1. verifier'[v] = [verifier[v] EXCEPT !.pc = "run", !.rev = stop.revision + 1]
        BY <2>1, <3>1 DEF TypeOK
      <4>2. PriorIsStale(v) /\ verifier[v].pc = "engage"
        BY <1>4 DEF StopInv, VerifyEngage
      <4> QED BY <2>2, <3>1, <4>1, <4>2 DEF PriorIsStale, TypeOK
    <3>2. CASE u = v /\ ~w.ok
      BY <2>1, <3>2 DEF PriorIsStale, TypeOK, IdleVerifier
    <3>3. CASE u # v
      <4>1. verifier'[u] = verifier[u] /\ PriorIsStale(u) /\ verifier[u].rev \in Nat
        BY <2>1, <3>3 DEF TypeOK, StopInv
      <4> QED BY <2>2, <4>1 DEF PriorIsStale
    <3> QED BY <3>1, <3>2, <3>3
  <2> QED BY <2>3, <2>4, <2>5 DEF StopInv
<1>5. ASSUME NEW v \in Verifiers, VerifyRun(v) \/ RestoreConflict(v) PROVE StopInv'
  <2>1. ASSUME NEW u \in Verifiers PROVE PriorIsStale(u)'
    <3>1. CASE u = v
      BY <1>5, <3>1
      DEF VerifyRun, RestoreConflict, PriorIsStale, TypeOK, StopInv, IdleVerifier
    <3>2. CASE u # v
      BY <1>5, <3>2 DEF VerifyRun, RestoreConflict, PriorIsStale, TypeOK, StopInv
    <3> QED BY <3>1, <3>2
  <2> QED BY <1>5, <2>1
          DEF StopInv, VerifyRun, RestoreConflict, StopHolds, Engaged, FileHolds
<1>6. ASSUME NEW v \in Verifiers, Restore(v) PROVE StopInv'
  <2> DEFINE prior == verifier[v].prior
  <2>1. prior \in Stop /\ verifier[v].rev = stop.revision
    BY <1>6 DEF TypeOK, Restore, Current
  <2>2. ~prior.engaged => held # "yes"
    BY <1>6, <2>1 DEF StopInv, PriorIsStale, Restore
  <2>3. PICK w \in WriteStop(Restored(prior)) :
          Release(w, Restored(prior)) /\ stopFile' = w.file
    BY <1>6 DEF Restore
  <2>4. held' = held
    BY <1>6 DEF Restore
  <2>5. /\ Restored(prior) \in Stop
        /\ Restored(prior).engaged = prior.engaged
        /\ Restored(prior).revision = stop.revision + 1
    BY <2>1, NewStates
  <2> HIDE DEF prior
  <2>6. StopHolds'
    BY <2>2, <2>3, <2>4, <2>5 DEF StopHolds, Engaged, Release, StopInv
  <2>7. FileHolds'
    <3>1. /\ w.ok => w.file = [readable |-> TRUE, state |-> Restored(prior)]
          /\ ~w.ok => w.file = stopFile \/ ~w.file.readable
      BY <2>5, WriteStopResult
    <3> QED BY <2>2, <2>3, <2>4, <2>5, <3>1 DEF FileHolds, StopInv
  <2>8. ASSUME NEW u \in Verifiers PROVE PriorIsStale(u)'
    <3>1. stop' = stop \/ stop'.revision = stop.revision + 1
      BY <2>3, <2>5 DEF Release
    <3>2. CASE u = v
      BY <1>6, <3>2 DEF Restore, PriorIsStale, TypeOK, IdleVerifier
    <3>3. CASE u # v
      <4>1. verifier'[u] = verifier[u] /\ PriorIsStale(u) /\ verifier[u].rev \in Nat
        BY <1>6, <3>3 DEF Restore, TypeOK, StopInv
      <4> QED BY <2>4, <3>1, <4>1 DEF PriorIsStale
    <3> QED BY <3>2, <3>3
  <2> QED BY <2>6, <2>7, <2>8 DEF StopInv
<1>7. CASE Restart
  <2>1. StopHolds' /\ FileHolds'
    BY <1>7 DEF Restart, LoadStop, StopHolds, FileHolds, Engaged, StopInv
  <2>2. \A v \in Verifiers : PriorIsStale(v)'
    BY <1>7 DEF Restart, PriorIsStale, IdleVerifier
  <2> QED BY <2>1, <2>2 DEF StopInv
<1>8. ASSUME UNCHANGED <<stop, stopErr, stopFile, held, verifier>> PROVE StopInv'
  BY <1>8 DEF StopInv, StopHolds, Engaged, FileHolds, PriorIsStale
<1>9. Approve \/ Expire \/ UNCHANGED vars
        => UNCHANGED <<stop, stopErr, stopFile, held, verifier>>
  BY DEF Approve, Expire, vars
<1>10. \A r \in Resumers : Resume(r) \/ Authorize(r) \/ Deny(r) \/ ClearConflict(r)
        => UNCHANGED <<stop, stopErr, stopFile, held, verifier>>
  BY DEF Resume, Authorize, Deny, ClearConflict
<1>11. \A s \in Setters : (\E m \in Modes : SetMode(s, m)) \/ AuthorizeMode(s)
           \/ DenyMode(s) \/ WriteRestriction(s) \/ WriteEscalation(s)
        => UNCHANGED <<stop, stopErr, stopFile, held, verifier>>
  BY DEF SetMode, AuthorizeMode, DenyMode, WriteRestriction, WriteEscalation
<1> QED
  BY <1>1, <1>2, <1>3, <1>4, <1>5, <1>6, <1>7, <1>8, <1>9, <1>10, <1>11 DEF Next, Program

(* The variables of the control plane keep their types, and a revision that *)
(* a request remembers is a natural number, whatever fails.                 *)
THEOREM TypeCorrect == Spec => []TypeOK
  <1>1. Init => TypeOK
    BY StopInvInit DEF StopInv
  <1> QED BY <1>1, TypeStep, PTL DEF Spec

(* An acknowledged operator stop is in force until the current revision is  *)
(* cleared with an authorization: for any number of concurrent resumes and  *)
(* verifications, any failed or torn write and any restart.                 *)
THEOREM AcknowledgedStopHolds == Spec => []StopHolds
  <1>1. StopInv => StopHolds
    BY DEF StopInv
  <1> QED BY <1>1, StopInvInit, StopInvStep, PTL DEF Spec

-----------------------------------------------------------------------------
(* The autonomy mode.  What a restart loads is what memory holds or less,  *)
(* and a request about to write without authorization does not go above    *)
(* the mode it read, which other requests may have lowered since.          *)
ModeInv ==
    /\ TypeOK
    /\ modeFile.readable => ~modeErr /\ mode = modeFile.mode
    /\ \A s \in Setters :
         setter[s].pc = "set" => Rank[setter[s].target] <= Rank[setter[s].from]

LEMMA Ranks == \A m \in Modes : Rank[m] \in Nat /\ Rank["paused"] <= Rank[m]
  BY ModesAssumption DEF Rank

LEMMA ModeInvInit == Init => ModeInv
  BY StopInvInit DEF StopInv, Init, ModeInv, IdleSetter

\* One step: the invariant is kept, and the mode rises only where it may.
LEMMA ModeStep ==
    ASSUME ModeInv, [Next]_vars
    PROVE  /\ ModeInv'
           /\ Rank[StoredMode'] > Rank[StoredMode]
                => \E s \in Setters :
                     \/ WriteEscalation(s)
                     \/ WriteRestriction(s) /\ Rank[StoredMode'] <= Rank[setter[s].from]
<1> TypeOK /\ TypeOK'
  BY TypeStep DEF ModeInv
<1> StoredMode \in Modes /\ StoredMode' \in Modes
  BY ModesAssumption DEF TypeOK, StoredMode
<1> Rank[StoredMode] \in Nat /\ Rank[StoredMode'] \in Nat
  BY Ranks
<1> USE DEF SetResumer, SetSetter, SetVerifier, stopVars, modeVars
<1>1. ASSUME UNCHANGED <<modeVars, setter>>
      PROVE  ModeInv' /\ StoredMode' = StoredMode
  BY <1>1 DEF ModeInv, StoredMode
<1>2. ASSUME NEW s \in Setters, \E m \in Modes : SetMode(s, m)
      PROVE  ModeInv' /\ StoredMode' = StoredMode
  <2>1. PICK m \in Modes : SetMode(s, m)
    BY <1>2
  <2>2. StoredMode' = StoredMode
    BY <2>1 DEF SetMode, StoredMode
  <2>3. /\ setter'[s].target = m /\ setter'[s].from = StoredMode
        /\ setter'[s].pc = "set" => m = StoredMode \/ ~Raises(StoredMode, m)
    BY <2>1 DEF SetMode, TypeOK
  <2>4. Rank[m] \in Nat /\ (setter'[s].pc = "set" => Rank[m] <= Rank[StoredMode])
    BY <2>3, Ranks DEF Raises
  <2>5. \A t \in Setters : t # s => setter'[t] = setter[t]
    BY <2>1 DEF SetMode, TypeOK
  <2> QED BY <2>1, <2>2, <2>3, <2>4, <2>5 DEF ModeInv, SetMode
<1>3. ASSUME NEW s \in Setters, AuthorizeMode(s) \/ DenyMode(s)
      PROVE  ModeInv' /\ StoredMode' = StoredMode
  <2>1. \A t \in Setters : setter'[t].pc = "set" => setter'[t] = setter[t]
    BY <1>3 DEF AuthorizeMode, DenyMode, TypeOK, IdleSetter
  <2> QED BY <1>3, <2>1 DEF ModeInv, AuthorizeMode, DenyMode, StoredMode
<1>4. ASSUME NEW s \in Setters, WriteRestriction(s)
      PROVE  /\ ModeInv'
             /\ StoredMode' = StoredMode \/ Rank[StoredMode'] <= Rank[setter[s].from]
  <2> DEFINE m == setter[s].target
  <2>1. m \in Modes /\ Rank[m] <= Rank[setter[s].from]
    BY <1>4 DEF TypeOK, ModeInv, WriteRestriction
  <2>2. PICK w \in WriteMode(m) : StoreMode(w, m)
    BY <1>4 DEF WriteRestriction
  <2> HIDE DEF m
  <2>3. modeFile'.readable => ~modeErr' /\ mode' = modeFile'.mode
    <3>1. /\ w.ok => w.file = [readable |-> TRUE, mode |-> m]
          /\ ~w.ok => w.file = modeFile \/ ~w.file.readable
      BY <2>1, WriteModeResult
    <3> QED BY <2>2, <3>1 DEF StoreMode, ModeInv
  <2>4. StoredMode' = m \/ StoredMode' = StoredMode
    BY <2>2 DEF StoreMode, StoredMode
  <2>5. \A t \in Setters : setter'[t].pc = "set" => setter'[t] = setter[t]
    BY <1>4 DEF WriteRestriction, TypeOK, IdleSetter
  <2> QED BY <2>1, <2>3, <2>4, <2>5 DEF ModeInv
<1>5. ASSUME NEW s \in Setters, WriteEscalation(s)
      PROVE  ModeInv'
  <2> DEFINE m == setter[s].target
  <2>1. m \in Modes
    BY DEF TypeOK
  <2>2. (\E w \in WriteMode(m) : StoreMode(w, m)) \/ UNCHANGED modeVars
    BY <1>5 DEF WriteEscalation
  <2> HIDE DEF m
  <2>3. modeFile'.readable => ~modeErr' /\ mode' = modeFile'.mode
    <3>1. CASE UNCHANGED modeVars
      BY <3>1 DEF ModeInv
    <3>2. ASSUME NEW w \in WriteMode(m), StoreMode(w, m)
          PROVE  modeFile'.readable => ~modeErr' /\ mode' = modeFile'.mode
      <4>1. /\ w.ok => w.file = [readable |-> TRUE, mode |-> m]
            /\ ~w.ok => w.file = modeFile \/ ~w.file.readable
        BY <2>1, WriteModeResult
      <4> QED BY <3>2, <4>1 DEF StoreMode, ModeInv
    <3> QED BY <2>2, <3>1, <3>2
  <2>4. \A t \in Setters : setter'[t].pc = "set" => setter'[t] = setter[t]
    BY <1>5 DEF WriteEscalation, TypeOK, IdleSetter
  <2> QED BY <2>3, <2>4 DEF ModeInv
<1>6. CASE Restart
  <2>1. modeFile'.readable => ~modeErr' /\ mode' = modeFile'.mode
    BY <1>6 DEF Restart, LoadMode, TypeOK
  <2>2. \A s \in Setters : setter'[s].pc # "set"
    BY <1>6 DEF Restart, IdleSetter
  <2>3. StoredMode' = StoredMode \/ StoredMode' = "paused"
    BY <1>6 DEF Restart, LoadMode, StoredMode, ModeInv, TypeOK
  <2>4. Rank[StoredMode'] <= Rank[StoredMode]
    BY <2>3, Ranks
  <2> QED BY <2>1, <2>2, <2>4 DEF ModeInv
<1>7. Pause \/ Approve \/ Expire \/ UNCHANGED vars => UNCHANGED <<modeVars, setter>>
  BY DEF Pause, Approve, Expire, vars
<1>8. \A r \in Resumers : Resume(r) \/ Authorize(r) \/ Deny(r) \/ Clear(r)
        \/ ClearConflict(r) => UNCHANGED <<modeVars, setter>>
  BY DEF Resume, Authorize, Deny, Clear, ClearConflict
<1>9. \A v \in Verifiers : Verify(v) \/ VerifyEngage(v) \/ VerifyRun(v)
        \/ Restore(v) \/ RestoreConflict(v) => UNCHANGED <<modeVars, setter>>
  BY DEF Verify, VerifyEngage, VerifyRun, Restore, RestoreConflict
<1> QED
  BY <1>1, <1>2, <1>3, <1>4, <1>5, <1>6, <1>7, <1>8, <1>9 DEF Next, Program

(* For any number of concurrent requests to set the mode: a failed write, a *)
(* torn file or a restart never raises it, and a request without an         *)
(* authorization raises it no higher than the mode it read.  That such a    *)
(* request raises it at all is what EscalationIsAuthorized excludes, and    *)
(* the model checker finds.                                                 *)
THEOREM RaisesStayBounded == Spec => RaisesAreBounded
  <1>1. ModeInv /\ [Next]_vars =>
          /\ ModeInv'
          /\ [Rank[StoredMode'] > Rank[StoredMode]
                => \E s \in Setters :
                     \/ WriteEscalation(s)
                     \/ WriteRestriction(s)
                          /\ Rank[StoredMode'] <= Rank[setter[s].from]]_vars
    BY ModeStep
  <1> QED BY <1>1, ModeInvInit, PTL DEF Spec, RaisesAreBounded

-----------------------------------------------------------------------------
(***************************************************************************)
(* The stop that is cleared.  The file never holds a later revision than   *)
(* memory, and the same revision only for the same state, so a restart     *)
(* keeps the state or brings an older revision back.  In the first case,   *)
(* and in every other step, a revision names one state of the stop, and an *)
(* approval that fits the current revision was given for the current       *)
(* engagement; in the second all approvals are from before the loss.       *)
(***************************************************************************)

Known(state) == state.id <= stops /\ (state.revision = 0 => state = NoStop)

StatesInv ==
    /\ Known(stop) /\ Known(stopFile.state)
    /\ stopFile.state.revision <= stop.revision
    /\ stopFile.state.revision = stop.revision => stopFile.state = stop

PriorInv == \A v \in Verifiers : verifier[v].prior.id <= stops

\* a is an approval or a request that holds one.
Fits(a) ==
    /\ a.id <= stops
    /\ a.id >= lost => a.rev <= stop.revision /\ (a.rev = stop.revision => a.id = stop.id)

ApprovalInv ==
    /\ TypeOK /\ StatesInv /\ PriorInv
    /\ \A a \in approvals : Fits(a)
    /\ \A r \in Resumers : resumer[r].pc = "clear" => Fits(resumer[r])

LEMMA WriteKeepsStates ==
    ASSUME TypeOK, TypeOK', StatesInv, stops <= stops',
           NEW next \in Stop, next.revision = stop.revision + 1, next.id <= stops',
           NEW w \in WriteStop(next), stopFile' = w.file,
           Engage(w, next) \/ Release(w, next)
    PROVE  StatesInv' /\ (stop' = stop \/ stop'.revision = stop.revision + 1)
<1>1. /\ stop \in Stop /\ stop.revision \in Nat /\ stop.id \in Nat
      /\ stopFile.state \in Stop /\ stopFile.state.revision \in Nat
      /\ stopFile.state.id \in Nat /\ stops \in Nat /\ stops' \in Nat
      /\ next.revision \in Nat /\ next.id \in Nat
  BY DEF TypeOK, Stop
<1>2. Known(stop)' \/ stop' # stop
  BY <1>1 DEF StatesInv, Known
<1>3. next.revision # 0
  BY <1>1
<1>4. CASE w = [ok |-> TRUE, file |-> [readable |-> TRUE, state |-> next]]
  <2>1. stop' = next /\ stopFile'.state = next
    BY <1>4 DEF Engage, Release
  <2> QED
    BY <1>1, <1>3, <2>1 DEF StatesInv, Known
<1>5. CASE w = [ok |-> FALSE, file |-> stopFile]
  <2>1. stopFile' = stopFile /\ stop' \in {stop, next}
    BY <1>5 DEF Engage, Release
  <2>2. Known(stopFile.state)'
    BY <1>1, <2>1 DEF StatesInv, Known
  <2>3. CASE stop' = stop
    BY <1>2, <2>1, <2>2, <2>3 DEF StatesInv
  <2>4. CASE stop' = next
    BY <1>1, <1>3, <2>1, <2>2, <2>4 DEF StatesInv, Known
  <2> QED
    BY <2>1, <2>3, <2>4
<1>6. CASE w = [ok |-> FALSE, file |-> [readable |-> FALSE, state |-> NoStop]]
  <2>1. stopFile'.state = NoStop /\ stop' \in {stop, next}
    BY <1>6 DEF Engage, Release
  <2>2. NoStop.revision = 0 /\ NoStop.id = 0
    BY DEF NoStop
  <2>3. Known(stopFile.state)'
    BY <1>1, <2>1, <2>2 DEF Known
  <2>4. CASE stop' = stop
    BY <1>1, <1>2, <2>1, <2>2, <2>3, <2>4 DEF StatesInv, Known
  <2>5. CASE stop' = next
    BY <1>1, <1>3, <2>1, <2>2, <2>3, <2>5 DEF StatesInv, Known
  <2> QED
    BY <2>1, <2>4, <2>5
<1> QED
  BY <1>4, <1>5, <1>6 DEF WriteStop, Written

\* Every step but a restart that loses revisions keeps the state of the stop or
\* gives it the next revision.
NextState ==
    /\ StatesInv'
    /\ stops <= stops'
    /\ \/ lost' = lost /\ (stop' = stop \/ stop'.revision = stop.revision + 1)
       \/ lost' = stops + 1 /\ stops' = stops

LEMMA StatesStep ==
    ASSUME ApprovalInv, [Next]_vars, TypeOK'
    PROVE  NextState
<1>1. /\ TypeOK /\ StatesInv /\ PriorInv /\ stops \in Nat /\ stops <= stops
      /\ stops <= stops + 1 /\ stop \in Stop
  BY DEF ApprovalInv, TypeOK
<1>2. CASE UNCHANGED stopVars
  BY <1>1, <1>2 DEF stopVars, NextState, StatesInv, Known
<1>3. CASE Pause \/ \E v \in Verifiers : VerifyEngage(v)
  <2>1. PICK w \in WriteStop(Engagement) : stopFile' = w.file /\ Engage(w, Engagement)
    BY <1>3 DEF Pause, VerifyEngage
  <2>2. stops' = stops + 1 /\ lost' = lost
    BY <1>3 DEF Pause, VerifyEngage
  <2>3. Engagement \in Stop /\ Engagement.revision = stop.revision + 1
    BY <1>1, NewStates
  <2>4. Engagement.id = stops + 1
    BY DEF Engagement
  <2> QED
    BY <1>1, <2>1, <2>2, <2>3, <2>4, WriteKeepsStates DEF NextState
<1>4. ASSUME NEW r \in Resumers, Clear(r)
      PROVE  NextState
  <2>1. PICK w \in WriteStop(Cleared) : stopFile' = w.file /\ Release(w, Cleared)
    BY <1>4 DEF Clear
  <2>2. stops' = stops /\ lost' = lost
    BY <1>4 DEF Clear
  <2>3. Cleared \in Stop /\ Cleared.revision = stop.revision + 1
    BY <1>1, NewStates
  <2>4. Cleared.id <= stops
    BY <1>1 DEF Cleared
  <2> QED
    BY <1>1, <2>1, <2>2, <2>3, <2>4, WriteKeepsStates DEF NextState
<1>5. ASSUME NEW v \in Verifiers, Restore(v)
      PROVE  NextState
  <2> DEFINE prior == verifier[v].prior
  <2>1. prior \in Stop /\ prior.id <= stops
    BY <1>1 DEF TypeOK, PriorInv
  <2>2. PICK w \in WriteStop(Restored(prior)) :
           stopFile' = w.file /\ Release(w, Restored(prior))
    BY <1>5 DEF Restore
  <2>3. stops' = stops /\ lost' = lost
    BY <1>5 DEF Restore
  <2> HIDE DEF prior
  <2>4. Restored(prior) \in Stop /\ Restored(prior).revision = stop.revision + 1
    BY <1>1, <2>1, NewStates
  <2>5. Restored(prior).id = prior.id
    BY <2>1 DEF Restored, Stop
  <2> QED
    BY <1>1, <2>1, <2>2, <2>3, <2>4, <2>5, WriteKeepsStates DEF NextState
<1>6. CASE Restart
  <2>1. /\ stop' = stopFile.state /\ stopFile' = stopFile /\ stops' = stops
        /\ lost' = IF stop'.revision < stop.revision THEN stops + 1 ELSE lost
    BY <1>6 DEF Restart, LoadStop
  <2>2. stop.revision \in Nat /\ stopFile.state.revision \in Nat
    BY <1>1 DEF TypeOK, Stop
  <2>3. StatesInv'
    BY <1>1, <2>1, <2>2 DEF StatesInv, Known
  <2>4. stop' = stop \/ stop'.revision < stop.revision
    BY <1>1, <2>1, <2>2 DEF StatesInv
  <2> QED
    BY <1>1, <2>1, <2>2, <2>3, <2>4 DEF NextState
<1>7. Approve \/ Expire \/ UNCHANGED vars => UNCHANGED stopVars
  BY DEF Approve, Expire, vars
<1>8. \A r \in Resumers : Resume(r) \/ Authorize(r) \/ Deny(r) \/ ClearConflict(r)
        => UNCHANGED stopVars
  BY DEF Resume, Authorize, Deny, ClearConflict
<1>9. \A v \in Verifiers : Verify(v) \/ VerifyRun(v) \/ RestoreConflict(v)
        => UNCHANGED stopVars
  BY DEF Verify, VerifyRun, RestoreConflict
<1>10. \A s \in Setters : (\E m \in Modes : SetMode(s, m)) \/ AuthorizeMode(s)
          \/ DenyMode(s) \/ WriteRestriction(s) \/ WriteEscalation(s)
        => UNCHANGED stopVars
  BY DEF SetMode, AuthorizeMode, DenyMode, WriteRestriction, WriteEscalation, SetSetter
<1> QED
  BY <1>2, <1>3, <1>4, <1>5, <1>6, <1>7, <1>8, <1>9, <1>10 DEF Next, Program

\* What a verifier will restore is a state it has seen.
LEMMA PriorStep ==
    ASSUME ApprovalInv, [Next]_vars, TypeOK', stops <= stops'
    PROVE  PriorInv'
<1>1. TypeOK /\ PriorInv /\ stops \in Nat /\ stops' \in Nat /\ stop.id <= stops
  BY DEF ApprovalInv, TypeOK, StatesInv, Known
<1>2. ASSUME NEW u \in Verifiers
      PROVE  verifier'[u].prior \in {verifier[u].prior, stop, NoStop}
  <2>1. CASE UNCHANGED verifier
    BY <2>1
  <2>2. ASSUME NEW v \in Verifiers, Verify(v)
        PROVE  verifier'[u].prior \in {verifier[u].prior, stop, NoStop}
    BY <1>1, <2>2 DEF Verify, SetVerifier, TypeOK
  <2>3. ASSUME NEW v \in Verifiers, VerifyEngage(v) \/ VerifyRun(v)
        PROVE  verifier'[u].prior \in {verifier[u].prior, stop, NoStop}
    <3>1. PICK value : /\ verifier' = [verifier EXCEPT ![v] = value]
                       /\ value.prior \in {verifier[v].prior, NoStop}
      <4>1. CASE VerifyRun(v)
        <5>1. [verifier[v] EXCEPT !.pc = "restore"].prior = verifier[v].prior
          BY <1>1 DEF TypeOK
        <5> QED
          BY <4>1, <5>1 DEF VerifyRun, SetVerifier
      <4>2. CASE VerifyEngage(v)
        <5>1. /\ [verifier[v] EXCEPT !.pc = "run", !.rev = stop.revision + 1].prior
                   = verifier[v].prior
              /\ IdleVerifier.prior = NoStop
          BY <1>1 DEF TypeOK, IdleVerifier
        <5> QED
          BY <4>2, <5>1 DEF VerifyEngage, SetVerifier
      <4> QED
        BY <2>3, <4>1, <4>2
    <3> QED
      BY <1>1, <3>1 DEF TypeOK
  <2>4. ASSUME NEW v \in Verifiers, Restore(v) \/ RestoreConflict(v)
        PROVE  verifier'[u].prior \in {verifier[u].prior, stop, NoStop}
    BY <1>1, <2>4 DEF Restore, RestoreConflict, SetVerifier, TypeOK, IdleVerifier
  <2>5. CASE Restart
    BY <2>5 DEF Restart, IdleVerifier
  <2>6. Pause \/ Approve \/ Expire \/ UNCHANGED vars => UNCHANGED verifier
    BY DEF Pause, Approve, Expire, vars
  <2>7. \A r \in Resumers : Resume(r) \/ Authorize(r) \/ Deny(r) \/ Clear(r)
          \/ ClearConflict(r) => UNCHANGED verifier
    BY DEF Resume, Authorize, Deny, Clear, ClearConflict, SetResumer
  <2>8. \A s \in Setters : (\E m \in Modes : SetMode(s, m)) \/ AuthorizeMode(s)
            \/ DenyMode(s) \/ WriteRestriction(s) \/ WriteEscalation(s)
          => UNCHANGED verifier
    BY DEF SetMode, AuthorizeMode, DenyMode, WriteRestriction, WriteEscalation, SetSetter
  <2> QED
    BY <2>1, <2>2, <2>3, <2>4, <2>5, <2>6, <2>7, <2>8 DEF Next, Program
<1>3. ASSUME NEW u \in Verifiers
      PROVE  verifier'[u].prior.id <= stops'
  <2>1. verifier[u].prior.id \in Nat /\ verifier[u].prior.id <= stops /\ stop.id \in Nat
    BY <1>1 DEF PriorInv, TypeOK, Stop
  <2>2. NoStop.id = 0
    BY DEF NoStop
  <2> QED
    BY <1>1, <1>2, <2>1, <2>2
<1> QED
  BY <1>3 DEF PriorInv

\* What is approved or about to be cleared fits after every step.
LEMMA FitsStays ==
    ASSUME TypeOK, TypeOK', NextState, NEW a, a.rev \in Nat, a.id \in Nat, Fits(a)
    PROVE  /\ a.id <= stops'
           /\ a.id >= lost' => /\ a.rev <= stop'.revision
                               /\ a.rev = stop'.revision => a.id = stop'.id
<1>1. /\ stops \in Nat /\ stops' \in Nat /\ lost \in Nat
      /\ stop.revision \in Nat /\ stop'.revision \in Nat
  BY DEF TypeOK, Stop
<1> QED
  BY <1>1 DEF NextState, Fits

\* Approvals are given for the stop as it is, and requests take the id of theirs.
LEMMA ApprovalSources ==
    ASSUME TypeOK, [Next]_vars
    PROVE  /\ \A a \in approvals' :
                 \/ a \in approvals
                 \/ a = [rev |-> stop.revision, id |-> stop.id] /\ UNCHANGED stopVars
           /\ \A r \in Resumers : resumer'[r].pc = "clear" =>
                 \/ resumer'[r] = resumer[r]
                 \/ \E a \in approvals : resumer'[r].rev = a.rev /\ resumer'[r].id = a.id
<1>1. CASE UNCHANGED <<approvals, resumer>>
  BY <1>1
<1>2. CASE Approve \/ Expire
  BY <1>2 DEF Approve, Expire, stopVars
<1>3. ASSUME NEW r \in Resumers,
             \/ Resume(r) \/ Authorize(r) \/ Deny(r) \/ Clear(r) \/ ClearConflict(r)
      PROVE  /\ approvals' = approvals
             /\ \A q \in Resumers : resumer'[q].pc = "clear" =>
                   \/ resumer'[q] = resumer[q]
                   \/ \E a \in approvals : resumer'[q].rev = a.rev /\ resumer'[q].id = a.id
  <2>1. CASE Authorize(r)
    <3>1. PICK a \in approvals :
             /\ a.rev = resumer[r].rev
             /\ resumer' = [resumer EXCEPT ![r] = [resumer[r] EXCEPT !.pc = "clear", !.id = a.id]]
             /\ approvals' = approvals
      BY <2>1 DEF Authorize, SetResumer
    <3>2. resumer'[r].rev = a.rev /\ resumer'[r].id = a.id
      BY <3>1 DEF TypeOK
    <3> QED
      BY <3>1, <3>2 DEF TypeOK
  <2>2. CASE Resume(r) \/ Deny(r) \/ Clear(r) \/ ClearConflict(r)
    <3>1. PICK value \in {Idle, [pc |-> "authorize", rev |-> stop.revision, id |-> 0]} :
             resumer' = [resumer EXCEPT ![r] = value] /\ approvals' = approvals
      BY <2>2 DEF Resume, Deny, Clear, ClearConflict, SetResumer
    <3>2. value.pc # "clear"
      BY <3>1 DEF Idle
    <3> QED
      BY <3>1, <3>2 DEF TypeOK
  <2> QED
    BY <1>3, <2>1, <2>2
<1>4. CASE Restart
  BY <1>4 DEF Restart, Idle
<1>5. ASSUME \/ UNCHANGED vars \/ Pause
             \/ \E v \in Verifiers : Verify(v) \/ VerifyEngage(v) \/ VerifyRun(v)
                                       \/ Restore(v) \/ RestoreConflict(v)
             \/ \E s \in Setters : (\E m \in Modes : SetMode(s, m)) \/ AuthorizeMode(s)
                                     \/ DenyMode(s) \/ WriteRestriction(s)
                                     \/ WriteEscalation(s)
      PROVE  UNCHANGED <<approvals, resumer>>
  BY <1>5 DEF vars, Pause, Verify, VerifyEngage, VerifyRun, Restore, RestoreConflict,
              SetMode, AuthorizeMode, DenyMode, WriteRestriction, WriteEscalation,
              SetVerifier, SetSetter
<1> QED
  BY <1>1, <1>2, <1>3, <1>4, <1>5 DEF Next, Program

LEMMA ApprovalStep ==
    ASSUME ApprovalInv, [Next]_vars
    PROVE  ApprovalInv'
<1>1. TypeOK /\ TypeOK'
  BY TypeStep DEF ApprovalInv
<1>2. NextState
  BY <1>1, StatesStep
<1>3. PriorInv'
  BY <1>1, <1>2, PriorStep DEF NextState
<1>4. ASSUME NEW a \in approvals'
      PROVE  Fits(a)'
  <2>1. CASE a \in approvals
    <3>1. a.rev \in Nat /\ a.id \in Nat /\ Fits(a)
      BY <1>1, <2>1 DEF ApprovalInv, TypeOK
    <3> QED
      BY <1>1, <1>2, <3>1, FitsStays DEF Fits
  <2>2. CASE a = [rev |-> stop.revision, id |-> stop.id] /\ UNCHANGED stopVars
    <3>1. a.rev = stop.revision /\ a.id = stop.id /\ stop.id <= stops
      BY <2>2 DEF ApprovalInv, StatesInv, Known
    <3>2. stop.revision \in Nat
      BY <1>1 DEF TypeOK, Stop
    <3> QED
      BY <2>2, <3>1, <3>2 DEF Fits, stopVars
  <2> QED
    BY <1>1, <1>4, <2>1, <2>2, ApprovalSources
<1>5. ASSUME NEW r \in Resumers, resumer'[r].pc = "clear"
      PROVE  Fits(resumer[r])'
  <2>1. CASE resumer'[r] = resumer[r]
    <3>1. resumer[r].rev \in Nat /\ resumer[r].id \in Nat /\ Fits(resumer[r])
      BY <1>1, <1>5, <2>1 DEF ApprovalInv, TypeOK
    <3> QED
      BY <1>1, <1>2, <2>1, <3>1, FitsStays DEF Fits
  <2>2. ASSUME NEW a \in approvals, resumer'[r].rev = a.rev, resumer'[r].id = a.id
        PROVE  Fits(resumer[r])'
    <3>1. a.rev \in Nat /\ a.id \in Nat /\ Fits(a)
      BY <1>1 DEF ApprovalInv, TypeOK
    <3> QED
      BY <1>1, <1>2, <2>2, <3>1, FitsStays DEF Fits
  <2> QED
    BY <1>1, <1>5, <2>1, <2>2, ApprovalSources
<1> QED
  BY <1>1, <1>2, <1>3, <1>4, <1>5 DEF ApprovalInv, NextState

(* What a request clears is the stop its authorization was given for        *)
(* (DisengageIfRevision: "A concurrent stop decision therefore cannot be    *)
(* cleared"), for any number of requests and verifications, any failed or   *)
(* torn write and any restart, unless the approval is from before a restart *)
(* that brought an older revision back.                                     *)
THEOREM ApprovedStopIsCleared == Spec => ClearsTheApprovedStop
  <1>1. Init => ApprovalInv
    <2> SUFFICES ASSUME Init PROVE ApprovalInv
      OBVIOUS
    <2>1. TypeOK
      BY StopInvInit DEF StopInv
    <2>2. Known(NoStop)
      BY DEF Init, Known, NoStop
    <2>3. StatesInv
      BY <2>1, <2>2 DEF Init, StatesInv, NoStop
    <2>4. PriorInv
      BY DEF Init, PriorInv, IdleVerifier, NoStop
    <2>5. \A r \in Resumers : resumer[r].pc # "clear"
      BY DEF Init, Idle
    <2> QED
      BY <2>1, <2>3, <2>4, <2>5 DEF Init, ApprovalInv
  <1>2. ApprovalInv /\ [Next]_vars => ApprovalInv'
    BY ApprovalStep
  <1>3. ApprovalInv =>
          [\A r \in Resumers :
             Clear(r) /\ ~Engaged' => \/ resumer[r].id = stop.id
                                      \/ resumer[r].id < lost]_vars
    <2> SUFFICES ASSUME ApprovalInv, NEW r \in Resumers, Clear(r)
                 PROVE  resumer[r].id = stop.id \/ resumer[r].id < lost
      OBVIOUS
    <2>1. resumer[r].id \in Nat /\ lost \in Nat
      BY DEF ApprovalInv, TypeOK
    <2>2. Fits(resumer[r]) /\ resumer[r].rev = stop.revision
      BY DEF ApprovalInv, Clear, Current
    <2> QED
      BY <2>1, <2>2 DEF Fits
  <1> QED
    BY <1>1, <1>2, <1>3, PTL DEF Spec, ClearsTheApprovedStop
=============================================================================
