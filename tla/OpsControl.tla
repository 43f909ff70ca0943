----------------------------- MODULE OpsControl -----------------------------
(***************************************************************************)
(* The runtime control plane of backend/internal/opscontrol: the emergency *)
(* stop and the autonomy mode, each kept in memory under a mutex and       *)
(* persisted in a JSON file, and the requests that change them.  Engaging  *)
(* the stop and restricting the mode need no permission; clearing the stop *)
(* and raising the mode need an authorization that is bound to the stop's  *)
(* revision, or to the pair of modes.                                      *)
(*                                                                         *)
(* A call under the mutex is one step.  Between its calls a request holds  *)
(* only the copies it made: Resume reads the revision, asks for an         *)
(* authorization, then clears; SetMode reads the mode, may ask for an      *)
(* authorization, then writes; VerifyEmergencyStop reads the state,        *)
(* engages, runs a background pass, then restores.  os.WriteFile truncates *)
(* before it writes, so a write that fails leaves the old contents or a    *)
(* file that cannot be decoded.  A missing file loads as the initial       *)
(* state, so it is represented by that state.                              *)
(***************************************************************************)
EXTENDS Integers, FiniteSets

CONSTANTS
    Resumers,      \* requests that clear the stop
    Setters,       \* requests that set the mode
    Verifiers,     \* requests that verify the stop
    Modes,         \* the autonomy modes in use
    MaxStops,      \* bound on the number of engagements
    MaxRevision,   \* bound on the revision
    Faults,        \* a subset of AllFaults
    AuthSeesStop   \* the authorizer denies while this stop is engaged

AllFaults == {"write_error", "torn_write", "restart"}

\* modeAuthorityRank
Rank == [paused |-> 0, emergency_stopped |-> 0, read_only |-> 1,
         draft_only |-> 2, approval_required |-> 3, autonomous_safe |-> 4]

ASSUME ModesAssumption ==
    Modes \subseteq DOMAIN Rank /\ {"paused", "autonomous_safe"} \subseteq Modes
ASSUME BoundsAssumption == MaxStops \in Nat /\ MaxRevision \in Nat
ASSUME SwitchesAssumption == Faults \subseteq AllFaults /\ AuthSeesStop \in BOOLEAN

VARIABLES
    stop,       \* EmergencyStopStore.state
    stopErr,    \* EmergencyStopStore.err is set
    stopFile,   \* emergency_stop.json
    mode,       \* Controller.mode
    modeErr,    \* Controller.modeErr is set
    modeFile,   \* background_mode.json
    approvals,  \* unexpired approvals to clear a stop
    resumer, setter, verifier,
    stops,      \* history: engagements so far; names them
    held,       \* history: an operator's stop is acknowledged and not cleared
    lost        \* history: engagements below this one came before a restart
                \* that brought an older revision back

stopVars == <<stop, stopErr, stopFile, stops, held, lost>>
modeVars == <<mode, modeErr, modeFile>>
vars == <<stopVars, modeVars, approvals, resumer, setter, verifier>>

-----------------------------------------------------------------------------
\* id is history: which engagement the state comes from, 0 for none.
Stop == [engaged : BOOLEAN, revision : Nat, id : Nat]
NoStop == [engaged |-> FALSE, revision |-> 0, id |-> 0]

Idle == [pc |-> "idle", rev |-> 0, id |-> 0]
IdleSetter == [pc |-> "idle", from |-> "paused", target |-> "paused"]
IdleVerifier == [pc |-> "idle", prior |-> NoStop, rev |-> 0]

TypeOK ==
    /\ stop \in Stop
    /\ stopErr \in BOOLEAN
    /\ stopFile \in [readable : BOOLEAN, state : Stop]
    /\ mode \in Modes
    /\ modeErr \in BOOLEAN
    /\ modeFile \in [readable : BOOLEAN, mode : Modes]
    /\ approvals \subseteq [rev : Nat, id : Nat]
    /\ resumer \in [Resumers -> [pc : {"idle", "authorize", "clear"},
                                 rev : Nat, id : Nat]]
    /\ setter \in [Setters -> [pc : {"idle", "authorize", "escalate", "set"},
                               from : Modes, target : Modes]]
    /\ verifier \in [Verifiers -> [pc : {"idle", "engage", "run", "restore"},
                                   prior : Stop, rev : Nat]]
    /\ stops \in Nat
    /\ held \in {"no", "raced", "yes"}
    /\ lost \in Nat

Init ==
    /\ stop = NoStop /\ stopErr = FALSE
    /\ stopFile = [readable |-> TRUE, state |-> NoStop]
    /\ mode = "autonomous_safe" /\ modeErr = FALSE
    /\ modeFile = [readable |-> TRUE, mode |-> "autonomous_safe"]
    /\ approvals = {}
    /\ resumer = [r \in Resumers |-> Idle]
    /\ setter = [s \in Setters |-> IdleSetter]
    /\ verifier = [v \in Verifiers |-> IdleVerifier]
    /\ stops = 0 /\ held = "no" /\ lost = 0

-----------------------------------------------------------------------------
(* The stores.                                                             *)

\* EmergencyStopStore.Engaged: an error counts as engaged.
Engaged == stopErr \/ stop.engaged

\* Controller.StoredMode: an error counts as paused.
StoredMode == IF modeErr THEN "paused" ELSE mode

\* What os.WriteFile may leave of a file: the new contents, the old ones, or
\* an undecodable remainder.
Written(new) == [ok |-> TRUE, file |-> new]
WriteStop(state) ==
    {Written([readable |-> TRUE, state |-> state])}
      \cup {[ok |-> FALSE, file |-> stopFile] : f \in Faults \cap {"write_error"}}
      \cup {[ok |-> FALSE, file |-> [readable |-> FALSE, state |-> NoStop]] :
              f \in Faults \cap {"torn_write"}}
WriteMode(m) ==
    {Written([readable |-> TRUE, mode |-> m])}
      \cup {[ok |-> FALSE, file |-> modeFile] : f \in Faults \cap {"write_error"}}
      \cup {[ok |-> FALSE, file |-> [readable |-> FALSE, mode |-> "paused"]] :
              f \in Faults \cap {"torn_write"}}

\* Engage: fails closed, the stop holds in memory even when it could not be
\* persisted.
Engage(w, next) == stop' = next /\ stopErr' = ~w.ok

\* The rest of DisengageIfRevision and RestoreIfRevision: the state changes
\* only when it was persisted.
Release(w, next) ==
    IF w.ok THEN stop' = next /\ stopErr' = FALSE
            ELSE stop' = stop /\ stopErr' = TRUE

\* A mutant: the revision goes down.
Engagement_Down == [engaged |-> TRUE, revision |-> stop.revision - 1, id |-> stops + 1]

Engagement == [engaged |-> TRUE, revision |-> stop.revision + 1, id |-> stops + 1]

\* A mutant: the revision is not compared.
Current_Any(rev) == TRUE

\* The compare of the compare-and-swap.
Current(rev) == stop.revision = rev

-----------------------------------------------------------------------------
(* The emergency stop.                                                     *)

\* A verifier has read the state it will restore, and has not engaged yet.
Racing == \E v \in Verifiers : verifier[v].pc = "engage"

\* EngageEmergencyStop: any operator, at any time.  It is acknowledged when it
\* was persisted.
Pause ==
    /\ stops < MaxStops /\ stop.revision < MaxRevision
    /\ \E w \in WriteStop(Engagement) :
         /\ Engage(w, Engagement)
         /\ stopFile' = w.file
         /\ held' = IF ~w.ok THEN held ELSE IF Racing THEN "raced" ELSE "yes"
    /\ stops' = stops + 1
    /\ UNCHANGED <<lost, modeVars, approvals, resumer, setter, verifier>>

\* A person approves clearing the stop as it is shown now.
Approve ==
    /\ Engaged
    /\ approvals' = approvals \cup {[rev |-> stop.revision, id |-> stop.id]}
    /\ UNCHANGED <<stopVars, modeVars, resumer, setter, verifier>>

Expire ==
    /\ \E a \in approvals : approvals' = approvals \ {a}
    /\ UNCHANGED <<stopVars, modeVars, resumer, setter, verifier>>

SetResumer(r, value) ==
    /\ resumer' = [resumer EXCEPT ![r] = value]
    /\ UNCHANGED <<modeVars, approvals, setter, verifier>>

\* DisengageEmergencyStop reads the state; a state in error, or clear, ends it.
Resume(r) ==
    /\ resumer[r].pc = "idle"
    /\ ~stopErr /\ stop.engaged
    /\ SetResumer(r, [pc |-> "authorize", rev |-> stop.revision, id |-> 0])
    /\ UNCHANGED stopVars

\* authorizeSafetyChange: an approval bound to the revision that was read.
Authorize(r) ==
    /\ resumer[r].pc = "authorize"
    /\ ~(AuthSeesStop /\ Engaged)
    /\ \E a \in approvals :
         /\ a.rev = resumer[r].rev
         /\ SetResumer(r, [resumer[r] EXCEPT !.pc = "clear", !.id = a.id])
    /\ UNCHANGED stopVars

Deny(r) ==
    /\ resumer[r].pc = "authorize"
    /\ SetResumer(r, Idle)
    /\ UNCHANGED stopVars

Cleared == [engaged |-> FALSE, revision |-> stop.revision + 1, id |-> 0]

\* DisengageIfRevision, when the revision is still current.
Clear(r) ==
    /\ resumer[r].pc = "clear"
    /\ Current(resumer[r].rev)
    /\ stop.revision < MaxRevision
    /\ \E w \in WriteStop(Cleared) :
         /\ Release(w, Cleared)
         /\ stopFile' = w.file
         /\ held' = IF w.ok THEN "no" ELSE held
    /\ SetResumer(r, Idle)
    /\ UNCHANGED <<stops, lost>>

\* DisengageIfRevision, when it is not.
ClearConflict(r) ==
    /\ resumer[r].pc = "clear"
    /\ ~Current(resumer[r].rev)
    /\ SetResumer(r, Idle)
    /\ UNCHANGED stopVars

-----------------------------------------------------------------------------
(* Verification of the stop.                                               *)

SetVerifier(v, value) ==
    /\ verifier' = [verifier EXCEPT ![v] = value]
    /\ UNCHANGED <<modeVars, approvals, resumer, setter>>

Verify(v) ==
    /\ verifier[v].pc = "idle"
    /\ ~stopErr
    /\ SetVerifier(v, [pc |-> "engage", prior |-> stop, rev |-> 0])
    /\ UNCHANGED stopVars

VerifyEngage(v) ==
    /\ verifier[v].pc = "engage"
    /\ stops < MaxStops /\ stop.revision < MaxRevision
    /\ \E w \in WriteStop(Engagement) :
         /\ Engage(w, Engagement)
         /\ stopFile' = w.file
         /\ SetVerifier(v, IF w.ok
                           THEN [verifier[v] EXCEPT !.pc = "run",
                                                    !.rev = stop.revision + 1]
                           ELSE IdleVerifier)
    /\ stops' = stops + 1
    /\ UNCHANGED <<held, lost>>

\* The background pass of the verification, with whatever result.
VerifyRun(v) ==
    /\ verifier[v].pc = "run"
    /\ SetVerifier(v, [verifier[v] EXCEPT !.pc = "restore"])
    /\ UNCHANGED stopVars

Restored(prior) == [prior EXCEPT !.revision = stop.revision + 1]

\* RestoreIfRevision, when nothing changed the stop since VerifyEngage.
Restore(v) ==
    /\ verifier[v].pc = "restore"
    /\ Current(verifier[v].rev)
    /\ stop.revision < MaxRevision
    /\ \E w \in WriteStop(Restored(verifier[v].prior)) :
         /\ Release(w, Restored(verifier[v].prior))
         /\ stopFile' = w.file
    /\ SetVerifier(v, IdleVerifier)
    /\ UNCHANGED <<stops, held, lost>>

RestoreConflict(v) ==
    /\ verifier[v].pc = "restore"
    /\ ~Current(verifier[v].rev)
    /\ SetVerifier(v, IdleVerifier)
    /\ UNCHANGED stopVars

-----------------------------------------------------------------------------
(* The autonomy mode.                                                      *)

SetSetter(s, value) ==
    /\ setter' = [setter EXCEPT ![s] = value]
    /\ UNCHANGED <<stopVars, approvals, resumer, verifier>>

\* A mutant: raising by one rank counts as restricting.
Raises_OffByOne(from, target) == Rank[target] > Rank[from] + 1

Raises(from, target) == Rank[target] > Rank[from]

\* SetMode reads the mode and decides which way to go.
SetMode(s, target) ==
    /\ setter[s].pc = "idle"
    /\ target # StoredMode \/ modeErr
    /\ SetSetter(s, [pc |-> IF target # StoredMode /\ Raises(StoredMode, target)
                            THEN "authorize" ELSE "set",
                     from |-> StoredMode, target |-> target])
    /\ UNCHANGED modeVars

\* authorizeSafetyChange for an escalation; the approval names both modes.
AuthorizeMode(s) ==
    /\ setter[s].pc = "authorize"
    /\ ~(AuthSeesStop /\ Engaged)
    /\ SetSetter(s, [setter[s] EXCEPT !.pc = "escalate"])
    /\ UNCHANGED modeVars

DenyMode(s) ==
    /\ setter[s].pc = "authorize"
    /\ SetSetter(s, IdleSetter)
    /\ UNCHANGED modeVars

\* What Controller.SetMode and SetModeIfCurrent do with a write's result.
StoreMode(w, m) ==
    /\ modeFile' = w.file
    /\ IF w.ok THEN mode' = m /\ modeErr' = FALSE ELSE UNCHANGED <<mode, modeErr>>

\* Controller.SetMode: unconditional.
WriteRestriction(s) ==
    /\ setter[s].pc = "set"
    /\ \E w \in WriteMode(setter[s].target) : StoreMode(w, setter[s].target)
    /\ SetSetter(s, IdleSetter)

\* Controller.SetModeIfCurrent.
WriteEscalation(s) ==
    /\ setter[s].pc = "escalate"
    /\ IF StoredMode = setter[s].from
       THEN \E w \in WriteMode(setter[s].target) : StoreMode(w, setter[s].target)
       ELSE UNCHANGED modeVars
    /\ SetSetter(s, IdleSetter)

-----------------------------------------------------------------------------
\* A mutant: a file that cannot be decoded is treated like a missing one.
LoadStop_FailsOpen == stop' = stopFile.state /\ stopErr' = FALSE

\* EmergencyStopStore.load
LoadStop == stop' = stopFile.state /\ stopErr' = ~stopFile.readable

\* Controller.loadMode: the default is kept beside an error.
LoadMode ==
    /\ modeErr' = ~modeFile.readable
    /\ mode' = IF modeFile.readable THEN modeFile.mode ELSE "autonomous_safe"

\* The process stops anywhere between two calls and starts again.  After a write
\* that failed, the revision of the file may be older than the one in memory.
Restart ==
    /\ "restart" \in Faults
    /\ LoadStop
    /\ LoadMode
    /\ resumer' = [r \in Resumers |-> Idle]
    /\ setter' = [s \in Setters |-> IdleSetter]
    /\ verifier' = [v \in Verifiers |-> IdleVerifier]
    /\ lost' = IF stop'.revision < stop.revision THEN stops + 1 ELSE lost
    /\ UNCHANGED <<stopFile, modeFile, approvals, stops, held>>

\* What the running program and its operators do.
Program ==
    \/ Pause \/ Approve
    \/ \E r \in Resumers : Resume(r) \/ Authorize(r) \/ Deny(r)
                             \/ Clear(r) \/ ClearConflict(r)
    \/ \E v \in Verifiers : Verify(v) \/ VerifyEngage(v) \/ VerifyRun(v)
                              \/ Restore(v) \/ RestoreConflict(v)
    \/ \E s \in Setters : (\E m \in Modes : SetMode(s, m)) \/ AuthorizeMode(s)
                            \/ DenyMode(s) \/ WriteRestriction(s)
                            \/ WriteEscalation(s)

Next == Program \/ Expire \/ Restart

Spec == Init /\ [][Next]_vars

(* The operator keeps approving and resuming, and the requests in flight    *)
(* are answered; some day an approval lasts until it is used, and the       *)
(* process keeps running.                                                   *)
FairSpec ==
    /\ Spec
    /\ WF_vars(Approve)
    /\ \A r \in Resumers : /\ WF_vars(Resume(r))
                           /\ WF_vars(Authorize(r) \/ Deny(r))
                           /\ SF_vars(Authorize(r))
                           /\ WF_vars(Clear(r) \/ ClearConflict(r))
    /\ \A v \in Verifiers : WF_vars(VerifyRun(v) \/ Restore(v) \/ RestoreConflict(v))
    /\ <>[][Program]_vars

-----------------------------------------------------------------------------
(* Properties.                                                             *)

(* An acknowledged operator stop is in force until an authorized request    *)
(* clears the very revision that is current: no failed write, restart,      *)
(* concurrent resume or verification releases it.  Stops engaged while a    *)
(* verifier is between reading the state and engaging are left out here.    *)
StopHolds == held = "yes" => Engaged

(* "Restoration is compare-and-swap protected, so a concurrent operator     *)
(* decision can never be overwritten by the verifier" (service.go:316-318): *)
(* StopHolds without the exception.                                         *)
OperatorStopHolds == held # "no" => Engaged

(* "A concurrent stop decision therefore cannot be cleared"                 *)
(* (emergency_stop.go:152): the engagement that is cleared is the one the   *)
(* authorization was given for, whatever writes failed or were torn before. *)
(* An approval from before a restart that brought an older revision back is *)
(* excepted: the next stop may get the revision it names a second time.     *)
ClearsTheApprovedStop ==
    [][\A r \in Resumers :
         Clear(r) /\ ~Engaged' => \/ resumer[r].id = stop.id
                                  \/ resumer[r].id < lost]_vars

(* No failed write, torn file or restart raises the mode; a request does so *)
(* with an authorization, or, when others changed the mode between its read *)
(* and its unconditional write, only up to the mode that it read            *)
(* (SetMode, service.go:147).                                               *)
RaisesAreBounded ==
    [][Rank[StoredMode'] > Rank[StoredMode]
         => \E s \in Setters :
               \/ WriteEscalation(s)
               \/ WriteRestriction(s) /\ Rank[StoredMode'] <= Rank[setter[s].from]]_vars

(* "More permissive transitions require a fresh exact-bound authorization"  *)
(* (service.go:106), without the exception above.                           *)
EscalationIsAuthorized ==
    [][Rank[StoredMode'] > Rank[StoredMode]
         => \E s \in Setters : WriteEscalation(s)]_vars

(* An operator who keeps approving and resuming gets the stop cleared       *)
(* (DisengageEmergencyStop, service.go:71-72).  It holds of an authorizer   *)
(* that does not look at the stop, and is refuted when AuthSeesStop.        *)
StopIsCleared == Engaged ~> ~Engaged

=============================================================================
