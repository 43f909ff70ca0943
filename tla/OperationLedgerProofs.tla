------------------------ MODULE OperationLedgerProofs ------------------------
(***************************************************************************)
(* Proofs about OperationLedger, for any items, risks, operator requests,  *)
(* modes, limits and faults.                                               *)
(*                                                                         *)
(* The invariant says of every row, and of every copy that the pass or a   *)
(* request still holds, what makes it safe to save it: whatever is saved   *)
(* over whatever, a completed row is one whose run was verified, a row that *)
(* may be run is of low risk, and a row that makes room for another one of *)
(* its item is one the operator rejected.                                  *)
(***************************************************************************)
EXTENDS OperationLedger, FiniteSetTheorems, TLAPS

\* The places at which an actor holds a copy of an operation.
Holding == PCs \ {"idle", "ingest", "process", "interrupt", "confirm"}

\* The places past the check of the decision in ExecuteSafeOperation.
Running == {"run", "effect", "verify", "reject_result", "complete", "fail"}

\* What may be saved as operation i, given the histories.
SoundIn(i, row, ver, dis) ==
    /\ row.status \notin {"absent", "archived"}
    /\ row.decision = "run_safe_local_worker" => Risk[row.item] = "low"
    /\ row.status = "completed" => i \in ver /\ row.verification = "passed"
    /\ row.status = "dismissed" => i \in dis

Sound(i, row) == SoundIn(i, row, verified, dismissed)

\* Two operations of one item were not both kept by the operator.
NoTwins ==
    \A i, j \in Ids \ dismissed :
        op[i].status # "absent" /\ op[j].status # "absent" /\ op[i].item = op[j].item
          => i = j

TableSound ==
    /\ \A i \in Ids : op[i].status # "absent" => Sound(i, op[i])
    /\ NoTwins

\* A copy is sound, and of the item its operation still has.
CopySound(c) ==
    /\ Sound(c.id, c.row)
    /\ op[c.id].status # "absent" /\ op[c.id].item = c.row.item

\* What an actor holds is sound, and what is past a check has passed it.
PlaceSound(place) ==
    /\ \A c \in place.due : CopySound(c)
    /\ place.pc \in Holding => place.cur \in Copy /\ CopySound(place.cur)
    /\ place.pc \in Running => place.cur.row.decision = "run_safe_local_worker"
    /\ place.pc \in {"verify", "complete"} => place.cur.id \in verified

ActorsSound == \A a \in Actors : PlaceSound(actor[a])

ArtifactsSound ==
    \A i \in artifacts : op[i].status # "absent" /\ Risk[op[i].item] = "low"

LedgerInv == TypeOK /\ TableSound /\ ActorsSound /\ ArtifactsSound

Place == [pc : PCs, cur : Copy \cup {NoCopy}, due : SUBSET Copy]

-----------------------------------------------------------------------------
(* Copies.                                                                 *)

LEMMA MovedCopy ==
    ASSUME NEW c \in Copy, NEW to \in Statuses
    PROVE  /\ Moved(c, to) \in Copy
           /\ Moved(c, to).id = c.id
           /\ Moved(c, to).row.status = to
           /\ Moved(c, to).row.item = c.row.item
           /\ Moved(c, to).row.decision = c.row.decision
           /\ Moved(c, to).row.verification = c.row.verification
  BY DEF Copy, Row, Moved

LEMMA JudgedCopy ==
    ASSUME NEW a, Cur(a) \in Copy, NEW v \in {"pending", "passed", "failed"}
    PROVE  /\ Judged(a, v) \in Copy
           /\ Judged(a, v).id = Cur(a).id
           /\ Judged(a, v).row.status = Cur(a).row.status
           /\ Judged(a, v).row.item = Cur(a).row.item
           /\ Judged(a, v).row.decision = Cur(a).row.decision
           /\ Judged(a, v).row.verification = v
  BY DEF Copy, Row, Judged, Cur

LEMMA DecideSafely ==
    ASSUME NEW item \in Items
    PROVE  /\ Decide(item) \in Decisions
           /\ Decide(item) = "run_safe_local_worker" => Risk[item] = "low"
  BY DEF Decide, Decisions

LEMMA DecidedCopy ==
    ASSUME NEW c \in Copy
    PROVE  /\ Decided(c) \in Copy
           /\ Decided(c).id = c.id
           /\ Decided(c).row.status = c.row.status
           /\ Decided(c).row.item = c.row.item
           /\ Decided(c).row.decision = "run_safe_local_worker" =>
                Risk[c.row.item] = "low"
<1>1. c.row.item \in Items
  BY DEF Copy, Row
<1>2. /\ Decide(c.row.item) \in Decisions
      /\ Decide(c.row.item) = "run_safe_local_worker" => Risk[c.row.item] = "low"
  BY <1>1, DecideSafely
<1>3. "block" \in Decisions
  BY DEF Decisions
<1>. QED
  BY <1>2, <1>3 DEF Copy, Row, Decided

LEMMA StoredCopy ==
    ASSUME LedgerInv, NEW i \in Ids, op[i].status # "absent"
    PROVE  /\ Stored(i) \in Copy /\ CopySound(Stored(i))
           /\ Stored(i).id = i /\ Stored(i).row = op[i]
  BY DEF LedgerInv, TypeOK, TableSound, Stored, Copy, CopySound

-----------------------------------------------------------------------------
(* Steps: what a save does to the table, and a move to the actors.         *)

\* Nothing that was sound is unsound after the step.
Kept == \A c \in Copy : CopySound(c) => CopySound(c)'

LEMMA NoWrite ==
    ASSUME LedgerInv, UNCHANGED op, UNCHANGED artifacts, verified \subseteq verified',
           dismissed \subseteq dismissed'
    PROVE  op' \in [Ids -> Row] /\ TableSound' /\ ArtifactsSound' /\ Kept
<1>1. NoTwins'
  BY DEF LedgerInv, TableSound, NoTwins
<1>2. TableSound'
  BY <1>1 DEF LedgerInv, TableSound, Sound, SoundIn
<1>. QED
  BY <1>2 DEF LedgerInv, TypeOK, ArtifactsSound, Kept, CopySound, Sound, SoundIn

LEMMA Write ==
    ASSUME LedgerInv, NEW c \in Copy, CopySound(c), UNCHANGED <<artifacts, verified>>,
           dismissed \subseteq dismissed',
           NEW d \in Copy, d.id = c.id, d.row.item = c.row.item,
           SoundIn(d.id, d.row, verified, dismissed'), Update(d)
    PROVE  op' \in [Ids -> Row] /\ TableSound' /\ ArtifactsSound' /\ Kept /\ CopySound(d)'
<1>1. c.id \in Ids /\ d.row \in Row /\ op \in [Ids -> Row]
  BY DEF Copy, LedgerInv, TypeOK
<1>2. op' = [op EXCEPT ![c.id] = d.row]
  BY DEF Update
<1>3. op' \in [Ids -> Row]
  BY <1>1, <1>2
<1>4. op'[c.id] = d.row /\ \A i \in Ids \ {c.id} : op'[i] = op[i]
  BY <1>1, <1>2
<1>5. op[c.id].item = d.row.item /\ op[c.id].status # "absent" /\ d.row.status # "absent"
  BY DEF CopySound, Sound, SoundIn
<1>6. \A i \in Ids : op'[i].item = op[i].item /\
                     (op[i].status # "absent" <=> op'[i].status # "absent")
  BY <1>4, <1>5
<1>7. TableSound'
  <2>1. NoTwins'
    BY <1>6 DEF LedgerInv, TableSound, NoTwins
  <2>2. \A i \in Ids : op'[i].status # "absent" => Sound(i, op[i])'
    BY <1>4 DEF LedgerInv, TableSound, Sound, SoundIn
  <2>. QED
    BY <2>1, <2>2 DEF TableSound
<1>8. ArtifactsSound'
  BY <1>6 DEF LedgerInv, TypeOK, ArtifactsSound
<1>9. Kept
  BY <1>6 DEF Kept, CopySound, Sound, SoundIn, Copy
<1>10. CopySound(d)'
  BY <1>4, <1>5 DEF CopySound, Sound, SoundIn
<1>. QED
  BY <1>3, <1>7, <1>8, <1>9, <1>10

LEMMA Move ==
    ASSUME LedgerInv, Kept, verified \subseteq verified', dismissed \subseteq dismissed',
           NEW a \in Actors, NEW pc, NEW cur, NEW due, Goto(a, pc, cur, due),
           [pc |-> pc, cur |-> cur, due |-> due] \in Place,
           PlaceSound([pc |-> pc, cur |-> cur, due |-> due])'
    PROVE  actor' \in [Actors -> Place] /\ ActorsSound'
<1>1. actor \in [Actors -> Place] /\ ActorsSound
  BY DEF LedgerInv, TypeOK, Place
<1>2. actor' = [actor EXCEPT ![a] = [pc |-> pc, cur |-> cur, due |-> due]]
  BY DEF Goto
<1>3. actor' \in [Actors -> Place]
  BY <1>1, <1>2
<1>4. ASSUME NEW b \in Actors PROVE PlaceSound(actor[b])'
  <2>1. CASE b = a
    BY <1>1, <1>2, <2>1 DEF PlaceSound, CopySound, Sound, SoundIn
  <2>2. CASE b # a
    <3>1. actor'[b] = actor[b] /\ actor[b] \in Place /\ PlaceSound(actor[b])
      BY <1>1, <1>2, <2>2 DEF ActorsSound
    <3>2. \A c \in actor[b].due : CopySound(c)'
      BY <3>1 DEF PlaceSound, Kept, Place
    <3>3. actor[b].pc \in Holding => actor[b].cur \in Copy /\ CopySound(actor[b].cur)'
      BY <3>1 DEF PlaceSound, Kept, Place
    <3>. QED
      BY <3>1, <3>2, <3>3 DEF PlaceSound, CopySound, Sound, SoundIn
  <2>. QED
    BY <2>1, <2>2
<1>. QED
  BY <1>3, <1>4 DEF ActorsSound

-----------------------------------------------------------------------------
(* The shapes of the model's steps.                                        *)

\* The other variables keep their types.
OthersTyped ==
    /\ mode \in Modes /\ stop \in BOOLEAN
    /\ rules \subseteq Types /\ todo \subseteq Items
    /\ dismissed \subseteq Ids

LEMMA BackIsNotHolding ==
    ASSUME NEW a
    PROVE  Back(a) \in PCs \ Holding
  BY DEF Back, Holding, PCs

\* An actor moves; the table stays.
LEMMA MoveStep ==
    ASSUME LedgerInv, OthersTyped', UNCHANGED <<op, artifacts, verified>>,
           dismissed \subseteq dismissed',
           NEW a \in Actors, NEW pc, NEW cur, NEW due, Goto(a, pc, cur, due),
           [pc |-> pc, cur |-> cur, due |-> due] \in Place,
           PlaceSound([pc |-> pc, cur |-> cur, due |-> due])
    PROVE  LedgerInv'
<1>1. op' \in [Ids -> Row] /\ TableSound' /\ ArtifactsSound' /\ Kept
  BY NoWrite
<1>2. PlaceSound([pc |-> pc, cur |-> cur, due |-> due])'
  BY DEF PlaceSound, CopySound, Sound, SoundIn
<1>3. actor' \in [Actors -> Place] /\ ActorsSound'
  BY <1>1, <1>2, Move
<1>. QED
  BY <1>1, <1>3 DEF LedgerInv, TypeOK, Place, OthersTyped

\* An actor gives its operation up.
LEMMA LeaveStep ==
    ASSUME LedgerInv, OthersTyped', UNCHANGED <<op, artifacts, verified>>,
           dismissed \subseteq dismissed',
           NEW a \in Actors, NEW pc \in PCs \ Holding, NEW due \in SUBSET actor[a].due,
           Goto(a, pc, NoCopy, due)
    PROVE  LedgerInv'
<1>1. actor[a] \in Place /\ PlaceSound(actor[a])
  BY DEF LedgerInv, TypeOK, ActorsSound, Place
<1>2. [pc |-> pc, cur |-> NoCopy, due |-> due] \in Place
  BY <1>1 DEF Place
<1>3. PlaceSound([pc |-> pc, cur |-> NoCopy, due |-> due])
  <2>1. pc \notin Running /\ pc \notin {"verify", "complete"}
    BY DEF Running, Holding, PCs
  <2>. QED
    BY <1>1, <2>1 DEF PlaceSound
<1>. QED
  BY <1>2, <1>3, MoveStep

\* A sound copy is saved, and the actor moves with it or without it.
LEMMA SaveStep ==
    ASSUME LedgerInv, OthersTyped', UNCHANGED <<artifacts, verified>>,
           dismissed \subseteq dismissed',
           NEW c \in Copy, CopySound(c),
           NEW d \in Copy, d.id = c.id, d.row.item = c.row.item,
           SoundIn(d.id, d.row, verified, dismissed'), Update(d),
           NEW a \in Actors, NEW pc \in PCs, NEW due \in SUBSET actor[a].due,
           NEW cur, cur = d \/ (cur = NoCopy /\ pc \notin Holding),
           Goto(a, pc, cur, due),
           pc \in Running => d.row.decision = "run_safe_local_worker",
           pc \in {"verify", "complete"} => d.id \in verified
    PROVE  LedgerInv'
<1>1. op' \in [Ids -> Row] /\ TableSound' /\ ArtifactsSound' /\ Kept /\ CopySound(d)'
  BY Write
<1>2. actor[a] \in Place /\ PlaceSound(actor[a])
  BY DEF LedgerInv, TypeOK, ActorsSound, Place
<1>3. [pc |-> pc, cur |-> cur, due |-> due] \in Place
  BY <1>2 DEF Place
<1>4. PlaceSound([pc |-> pc, cur |-> cur, due |-> due])'
  <2>1. \A e \in due : CopySound(e)'
    BY <1>1, <1>2 DEF PlaceSound, Kept, Place
  <2>2. pc \in Running \cup {"verify", "complete"} => pc \in Holding
    BY DEF Running, Holding, PCs
  <2>. QED
    BY <1>1, <2>1, <2>2 DEF PlaceSound
<1>5. actor' \in [Actors -> Place] /\ ActorsSound'
  BY <1>1, <1>3, <1>4, Move
<1>. QED
  BY <1>1, <1>5 DEF LedgerInv, TypeOK, Place, OthersTyped

\* Service.Transition of c, which is the held copy b but for its verification.
LEMMA TransitionStep ==
    ASSUME LedgerInv, OthersTyped', UNCHANGED <<artifacts, verified>>,
           dismissed \subseteq dismissed',
           NEW b \in Copy, CopySound(b),
           NEW c \in Copy, c.id = b.id,
           c.row.item = b.row.item, c.row.decision = b.row.decision,
           NEW to \in Statuses \ {"absent", "archived"},
           to = "completed" => c.id \in verified /\ c.row.verification = "passed",
           to = "dismissed" /\ Update(Moved(c, to)) => c.id \in dismissed',
           NEW a \in Actors, NEW pc \in PCs,
           pc \in Running => c.row.decision = "run_safe_local_worker",
           pc \in {"verify", "complete"} => c.id \in verified,
           Transition(a, c, to, pc)
    PROVE  LedgerInv'
<1>1. actor[a].due \in SUBSET actor[a].due /\ Back(a) \in PCs \ Holding
  BY BackIsNotHolding
<1>2. CASE Leave(a)
  BY <1>1, <1>2, LeaveStep DEF Leave
<1>3. CASE /\ MayMove(c, to)
           /\ Update(Moved(c, to))
           /\ Goto(a, pc, IF pc = Back(a) THEN NoCopy ELSE Moved(c, to), actor[a].due)
  <2>1. /\ Moved(c, to) \in Copy
        /\ Moved(c, to).id = c.id
        /\ Moved(c, to).row.status = to
        /\ Moved(c, to).row.item = c.row.item
        /\ Moved(c, to).row.decision = c.row.decision
        /\ Moved(c, to).row.verification = c.row.verification
    BY MovedCopy
  <2>2. SoundIn(Moved(c, to).id, Moved(c, to).row, verified, dismissed')
    BY <1>3, <2>1 DEF CopySound, Sound, SoundIn
  <2>3. CASE pc = Back(a)
    BY <1>1, <1>3, <2>1, <2>2, <2>3, SaveStep
  <2>4. CASE pc # Back(a)
    BY <1>1, <1>3, <2>1, <2>2, <2>4, SaveStep
  <2>. QED
    BY <2>3, <2>4
<1>. QED
  BY <1>2, <1>3 DEF Transition

-----------------------------------------------------------------------------
(* The steps of the pass.                                                  *)

LEMMA Holds ==
    ASSUME LedgerInv, NEW a \in Actors, actor[a].pc \in Holding
    PROVE  /\ Cur(a) \in Copy /\ CopySound(Cur(a))
           /\ Cur(a) = actor[a].cur
           /\ actor[a].due \in SUBSET Copy
           /\ \A c \in actor[a].due : CopySound(c)
  BY DEF LedgerInv, TypeOK, ActorsSound, PlaceSound, Cur

LEMMA Checked ==
    ASSUME LedgerInv, NEW a \in Actors, actor[a].pc \in Running
    PROVE  /\ Cur(a).row.decision = "run_safe_local_worker"
           /\ actor[a].pc \in {"verify", "complete"} => Cur(a).id \in verified
  BY DEF LedgerInv, ActorsSound, PlaceSound, Cur

LEMMA Untouched ==
    ASSUME LedgerInv, UNCHANGED <<mode, stop, rules, todo, dismissed>>
    PROVE  OthersTyped'
  BY DEF LedgerInv, TypeOK, OthersTyped

LEMMA InitSound == Init => LedgerInv
<1>. SUFFICES ASSUME Init PROVE LedgerInv
  OBVIOUS
<1>1. NoItem \in Items
  BY ItemsAssumption DEF NoItem
<1>2. NoRow \in Row
  BY <1>1 DEF NoRow, Row, Statuses, Moves, Decisions
<1>3. TypeOK
  BY <1>2 DEF Init, TypeOK, Idle, PCs
<1>4. \A i \in Ids : op[i].status = "absent"
  BY DEF Init, NoRow
<1>5. TableSound /\ ArtifactsSound
  BY <1>4 DEF Init, TableSound, NoTwins, ArtifactsSound
<1>6. ActorsSound
  BY DEF Init, ActorsSound, PlaceSound, Idle, Holding, Running
<1>. QED
  BY <1>3, <1>5, <1>6 DEF LedgerInv

LEMMA IngestSound ==
    ASSUME LedgerInv, StartPass \/ Ingest \/ Refresh
    PROVE  LedgerInv'
<1>. Worker \in Actors
  BY DEF Actors
<1>1. CASE StartPass
  <2>1. OthersTyped' /\ UNCHANGED <<op, artifacts, verified, dismissed>>
    BY <1>1 DEF StartPass, LedgerInv, TypeOK, OthersTyped
  <2>2. "ingest" \in PCs \ Holding /\ {} \in SUBSET actor[Worker].due
    BY DEF PCs, Holding
  <2>. QED
    BY <1>1, <2>1, <2>2, LeaveStep DEF StartPass
<1>2. ASSUME NEW item \in Items, IngestNew(item) PROVE LedgerInv'
  <2>1. PICK i \in Ids : op[i].status = "absent" /\ op' = [op EXCEPT ![i] = Created(item)]
    BY <1>2 DEF IngestNew
  <2>. DEFINE Kin == {j \in Ids : op[j].status # "absent" /\ op[j].item = item}
  <2>2. Created(item) \in Row
    BY ItemsAssumption DEF Created, NoRow, NoItem, Row, Statuses, Moves, Decisions
  <2>3. /\ Created(item).status = "new" /\ Created(item).item = item
        /\ Created(item).decision = "observe_only"
    BY DEF Created, NoRow
  <2>4. UNCHANGED <<actor, artifacts, verified, dismissed>> /\ OthersTyped'
    BY <1>2 DEF IngestNew, LedgerInv, TypeOK, OthersTyped
  <2>5. op \in [Ids -> Row] /\ op' \in [Ids -> Row]
    BY <2>1, <2>2 DEF LedgerInv, TypeOK
  <2>6. op'[i] = Created(item) /\ \A j \in Ids \ {i} : op'[j] = op[j]
    BY <2>1, <2>5
  <2>7. TableSound'
    <3>1. Kin \subseteq dismissed
      BY <1>2 DEF IngestNew, Existing, Active, LedgerInv, TableSound, Sound, SoundIn
    <3>2. NoTwins'
      BY <2>1, <2>3, <2>4, <2>6, <3>1 DEF LedgerInv, TableSound, NoTwins
    <3>3. \A j \in Ids : op'[j].status # "absent" => Sound(j, op[j])'
      BY <2>3, <2>4, <2>6 DEF LedgerInv, TableSound, Sound, SoundIn
    <3>. QED
      BY <3>2, <3>3 DEF TableSound
  <2>8. ArtifactsSound'
    BY <2>1, <2>4, <2>6 DEF LedgerInv, TypeOK, ArtifactsSound
  <2>9. Kept
    BY <2>1, <2>4, <2>6 DEF Kept, CopySound, Sound, SoundIn, Copy
  <2>10. ActorsSound'
    <3>. SUFFICES ASSUME NEW a \in Actors PROVE PlaceSound(actor[a])'
      BY DEF ActorsSound
    <3>1. PlaceSound(actor[a]) /\ actor[a].due \in SUBSET Copy
      BY DEF LedgerInv, TypeOK, ActorsSound
    <3>. QED
      BY <2>4, <2>9, <3>1 DEF PlaceSound, Kept
  <2>. QED
    BY <2>4, <2>5, <2>7, <2>8, <2>10 DEF LedgerInv, TypeOK, OthersTyped
<1>3. ASSUME NEW item \in Items, IngestFound(item) PROVE LedgerInv'
  <2>1. OthersTyped' /\ UNCHANGED <<op, artifacts, verified, dismissed>>
    BY <1>3 DEF IngestFound, LedgerInv, TypeOK, OthersTyped
  <2>2. PICK i \in Ids : op[i].status # "absent" /\ Goto(Worker, "refresh", Stored(i), {})
    BY <1>3 DEF IngestFound, Existing, Active
  <2>3. Stored(i) \in Copy /\ CopySound(Stored(i))
    BY <2>2, StoredCopy
  <2>4. [pc |-> "refresh", cur |-> Stored(i), due |-> {}] \in Place
    BY <2>3 DEF Place, PCs
  <2>5. PlaceSound([pc |-> "refresh", cur |-> Stored(i), due |-> {}])
    BY <2>3 DEF PlaceSound, Running
  <2>. QED
    BY <2>1, <2>2, <2>4, <2>5, MoveStep
<1>4. ASSUME NEW item \in Items, IngestError(item) PROVE LedgerInv'
  <2>1. UNCHANGED <<op, mode, stop, rules, actor, artifacts, verified, dismissed>> /\ todo' \subseteq todo
    BY <1>4 DEF IngestError
  <2>2. TypeOK' /\ ActorsSound'
    BY <2>1 DEF LedgerInv, TypeOK, ActorsSound, PlaceSound, CopySound, Sound, SoundIn
  <2>. QED
    BY <2>1, <2>2, NoWrite DEF LedgerInv
<1>5. CASE Refresh
  <2>1. actor[Worker].pc \in Holding
    BY <1>5 DEF Refresh, At, Holding, PCs
  <2>2. OthersTyped' /\ UNCHANGED <<artifacts, verified, dismissed>>
    BY <1>5, Untouched DEF Refresh
  <2>3. Cur(Worker) \in Copy /\ CopySound(Cur(Worker))
    BY <2>1, Holds
  <2>4. "ingest" \in PCs \ Holding /\ {} \in SUBSET actor[Worker].due
        /\ "ingest" \notin Running \cup {"verify", "complete"}
    BY DEF PCs, Holding, Running
  <2>5. CASE Update(Cur(Worker))
    <3>1. SoundIn(Cur(Worker).id, Cur(Worker).row, verified, dismissed')
      BY <2>2, <2>3 DEF CopySound, Sound
    <3>. QED
      BY <1>5, <2>2, <2>3, <2>4, <2>5, <3>1, SaveStep DEF Refresh
  <2>6. CASE UNCHANGED op
    BY <1>5, <2>2, <2>4, <2>6, LeaveStep DEF Refresh
  <2>. QED
    BY <1>5, <2>5, <2>6 DEF Refresh
<1>. QED
  BY <1>1, <1>2, <1>3, <1>4, <1>5 DEF Ingest

LEMMA ListSound ==
    ASSUME LedgerInv, Halt \/ ListDue \/ Done
    PROVE  LedgerInv'
<1>. Worker \in Actors
  BY DEF Actors
<1>1. OthersTyped' /\ UNCHANGED <<op, artifacts, verified, dismissed>>
  BY Untouched DEF Halt, ListDue, Done, EndPass
<1>2. CASE Halt \/ Done
  <2>1. "idle" \in PCs \ Holding /\ {} \in SUBSET actor[Worker].due
    BY DEF PCs, Holding
  <2>. QED
    BY <1>1, <1>2, <2>1, LeaveStep DEF Halt, Done, EndPass
<1>3. CASE ListDue
  <2>1. PICK listed \in SUBSET {i \in Ids : op[i].status = "new"} :
          Goto(Worker, "process", NoCopy, {Stored(i) : i \in listed})
    <3>1. PICK later \in SUBSET Postponable :
            LET due == {i \in Ids : op[i].status \in Actionable} \ later
            IN  Goto(Worker, "process", NoCopy,
                     {Stored(i) : i \in {j \in Listed(due) : op[j].status = "new"}})
      BY <1>3 DEF ListDue
    <3>. DEFINE due == {i \in Ids : op[i].status \in Actionable} \ later
                listed == {j \in Listed(due) : op[j].status = "new"}
    <3>2. listed \in SUBSET {i \in Ids : op[i].status = "new"}
      BY DEF Listed
    <3>. QED
      BY <3>1, <3>2
  <2>2. \A i \in listed : Stored(i) \in Copy /\ CopySound(Stored(i))
    BY StoredCopy
  <2>. DEFINE place == [pc |-> "process", cur |-> NoCopy, due |-> {Stored(i) : i \in listed}]
  <2>3. place \in Place
    BY <2>2 DEF Place, PCs
  <2>4. PlaceSound(place)
    BY <2>2 DEF PlaceSound, Holding, Running
  <2>. QED
    BY <1>1, <2>1, <2>3, <2>4, MoveStep
<1>. QED
  BY <1>2, <1>3

LEMMA ClassifySound ==
    ASSUME LedgerInv, NEW c \in actor[Worker].due, Classify(c)
    PROVE  LedgerInv'
<1>. DEFINE d == Decided(c)
            rest == actor[Worker].due \ {c}
<1>1. Worker \in Actors
  BY DEF Actors
<1>2. c \in Copy /\ CopySound(c)
  BY <1>1 DEF LedgerInv, TypeOK, ActorsSound, PlaceSound
<1>3. /\ d \in Copy /\ d.id = c.id
      /\ d.row.item = c.row.item
      /\ d.row.decision = "run_safe_local_worker" => Risk[c.row.item] = "low"
  BY <1>2, DecidedCopy
<1>4. OthersTyped' /\ UNCHANGED <<artifacts, verified, dismissed>>
  BY Untouched DEF Classify
<1>5. rest \in SUBSET actor[Worker].due
  OBVIOUS
<1>6. CASE Goto(Worker, "process", NoCopy, rest) /\ UNCHANGED op
  <2>1. "process" \in PCs \ Holding
    BY DEF PCs, Holding
  <2>. QED
    BY <1>1, <1>4, <1>5, <1>6, <2>1, LeaveStep
<1>7. CASE Update(Moved(d, "classified")) /\ Goto(Worker, "route", Moved(d, "classified"), rest)
  <2>1. "classified" \in Statuses
    BY DEF Statuses, Moves
  <2>. DEFINE m == Moved(d, "classified")
  <2>2. /\ m \in Copy /\ m.id = c.id
        /\ m.row.status = "classified"
        /\ m.row.item = c.row.item
        /\ m.row.decision = d.row.decision
    BY <1>3, <2>1, MovedCopy
  <2>3. SoundIn(m.id, m.row, verified, dismissed')
    BY <1>3, <2>2 DEF SoundIn
  <2>4. "route" \in PCs /\ "route" \notin Running \cup {"verify", "complete"}
    BY DEF PCs, Running
  <2>. QED
    BY <1>1, <1>2, <1>4, <1>5, <1>7, <2>2, <2>3, <2>4, SaveStep
<1>. QED
  BY <1>6, <1>7 DEF Classify

LEMMA RouteSound ==
    ASSUME LedgerInv, Route \/ Draft
    PROVE  LedgerInv'
<1>1. Worker \in Actors
  BY DEF Actors
<1>2. actor[Worker].pc \in Holding
  BY DEF Route, Draft, At, Holding, PCs
<1>3. /\ Cur(Worker) \in Copy /\ CopySound(Cur(Worker))
      /\ Cur(Worker) = actor[Worker].cur
      /\ actor[Worker].due \in SUBSET Copy
      /\ \A c \in actor[Worker].due : CopySound(c)
  BY <1>1, <1>2, Holds
<1>4. OthersTyped' /\ UNCHANGED <<artifacts, verified, dismissed>>
  BY Untouched DEF Route, Draft
<1>5. {"blocked", "drafting", "awaiting_approval", "draft_ready"} \subseteq
        Statuses \ {"absent", "archived", "completed", "dismissed"}
  BY DEF Statuses, Moves
<1>6. {"process", "draft"} \subseteq PCs \ (Running \cup {"verify", "complete"})
  BY DEF PCs, Running
<1>7. ASSUME NEW to \in {"blocked", "drafting", "awaiting_approval", "draft_ready"},
             NEW pc \in {"process", "draft"}, Transition(Worker, Cur(Worker), to, pc)
      PROVE  LedgerInv'
  <2>1. to \in Statuses \ {"absent", "archived"} /\ to \notin {"completed", "dismissed"}
    BY <1>5
  <2>2. pc \in PCs /\ pc \notin Running /\ pc \notin {"verify", "complete"}
    BY <1>6
  <2>. QED
    BY <1>1, <1>3, <1>4, <1>7, <2>1, <2>2, TransitionStep
<1>8. CASE UNCHANGED op /\ Goto(Worker, "execute", Cur(Worker), actor[Worker].due)
  <2>. DEFINE place == [pc |-> "execute", cur |-> Cur(Worker), due |-> actor[Worker].due]
  <2>1. place \in Place
    BY <1>3 DEF Place, PCs
  <2>2. PlaceSound(place)
    BY <1>3 DEF PlaceSound, Running
  <2>. QED
    BY <1>1, <1>4, <1>8, <2>1, <2>2, MoveStep
<1>9. CASE Leave(Worker)
  BY <1>1, <1>4, <1>9, BackIsNotHolding, LeaveStep DEF Leave
<1>10. CASE Route
  BY <1>7, <1>8, <1>9, <1>10 DEF Route
<1>11. CASE Draft
  BY <1>7, <1>11 DEF Draft
<1>. QED
  BY <1>10, <1>11

-----------------------------------------------------------------------------
(* ExecuteSafeOperation.                                                   *)

LEMMA ReadySound ==
    ASSUME LedgerInv, NEW a \in Actors, Ready(a)
    PROVE  LedgerInv'
<1>1. actor[a].pc \in Holding
  BY DEF Ready, At, Holding, PCs
<1>2. /\ Cur(a) \in Copy /\ CopySound(Cur(a))
      /\ Cur(a) = actor[a].cur
      /\ actor[a].due \in SUBSET Copy
      /\ \A c \in actor[a].due : CopySound(c)
  BY <1>1, Holds
<1>3. OthersTyped' /\ UNCHANGED <<artifacts, verified, dismissed>>
  BY Untouched DEF Ready
<1>4. "run" \in PCs /\ "run" \notin {"verify", "complete"}
  BY DEF PCs
<1>5. CASE /\ Cur(a).row.decision = "run_safe_local_worker"
           /\ Transition(a, Cur(a), "ready", "run")
  <2>1. "ready" \in Statuses \ {"absent", "archived"} /\ "ready" # "completed"
    BY DEF Statuses, Moves
  <2>. QED
    BY <1>2, <1>3, <1>4, <1>5, <2>1, TransitionStep
<1>6. CASE /\ Cur(a).row.decision = "run_safe_local_worker"
           /\ Goto(a, "run", Cur(a), actor[a].due) /\ UNCHANGED op
  <2>. DEFINE place == [pc |-> "run", cur |-> Cur(a), due |-> actor[a].due]
  <2>1. place \in Place
    BY <1>2 DEF Place, PCs
  <2>2. PlaceSound(place)
    BY <1>2, <1>6 DEF PlaceSound
  <2>. QED
    BY <1>3, <1>6, <2>1, <2>2, MoveStep
<1>7. CASE Leave(a)
  BY <1>3, <1>7, BackIsNotHolding, LeaveStep DEF Leave
<1>. QED
  BY <1>5, <1>6, <1>7 DEF Ready

LEMMA EffectSound ==
    ASSUME LedgerInv, NEW a \in Actors, NEW passed \in BOOLEAN, Effect(a, passed)
    PROVE  LedgerInv'
<1>1. actor[a].pc \in Holding \cap Running
  BY DEF Effect, At, Holding, Running, PCs
<1>2. /\ Cur(a) \in Copy /\ CopySound(Cur(a))
      /\ actor[a].due \in SUBSET Copy
      /\ \A c \in actor[a].due : CopySound(c)
  BY <1>1, Holds
<1>3. Cur(a).row.decision = "run_safe_local_worker"
  BY <1>1, Checked
<1>4. Cur(a).id \in Ids
  BY <1>2 DEF Copy
<1>5. op[Cur(a).id].status # "absent" /\ Risk[op[Cur(a).id].item] = "low"
  BY <1>2, <1>3 DEF CopySound, Sound, SoundIn
<1>6. /\ UNCHANGED <<op, mode, stop, rules, todo, dismissed>>
      /\ artifacts' = artifacts \cup {Cur(a).id}
      /\ verified' = IF passed THEN verified \cup {Cur(a).id} ELSE verified
      /\ Goto(a, ResultPC(passed), Cur(a), actor[a].due)
  BY DEF Effect
<1>7. artifacts' \subseteq Ids /\ verified' \subseteq Ids /\ verified \subseteq verified'
  BY <1>4, <1>6 DEF LedgerInv, TypeOK
<1>8. TableSound' /\ Kept
  BY <1>6, <1>7 DEF LedgerInv, TableSound, NoTwins, Kept, CopySound, Sound, SoundIn
<1>9. ArtifactsSound'
  BY <1>5, <1>6 DEF LedgerInv, ArtifactsSound
<1>10. PICK c, due : c = Cur(a) /\ due = actor[a].due
  OBVIOUS
<1>11. ASSUME NEW pc, pc = ResultPC(passed)
       PROVE  /\ [pc |-> pc, cur |-> c, due |-> due] \in Place
              /\ PlaceSound([pc |-> pc, cur |-> c, due |-> due])'
  <2>1. pc = IF passed THEN "verify" ELSE "reject_result"
    BY <1>11 DEF ResultPC
  <2>2. c \in Copy /\ CopySound(c)' /\ \A e \in due : CopySound(e)'
    BY <1>2, <1>8, <1>10 DEF Kept
  <2>3. pc = "verify" => c.id \in verified'
    BY <1>6, <1>10, <2>1
  <2>. QED
    BY <1>2, <1>3, <1>10, <2>1, <2>2, <2>3 DEF PlaceSound, Place, PCs
<1>12. actor' \in [Actors -> Place] /\ ActorsSound'
  BY <1>6, <1>7, <1>8, <1>10, <1>11, Move
<1>. QED
  BY <1>6, <1>7, <1>8, <1>9, <1>12 DEF LedgerInv, TypeOK, Place

LEMMA ExecuteSound ==
    ASSUME LedgerInv, NEW a \in Actors, Execute(a)
    PROVE  LedgerInv'
<1>1. CASE Ready(a)
  BY <1>1, ReadySound
<1>2. CASE \E passed \in BOOLEAN : Effect(a, passed)
  BY <1>2, EffectSound
<1>3. CASE Run(a) \/ RunFails(a) \/ Verifying(a) \/ Complete(a) \/ Fail(a)
  <2>1. actor[a].pc \in Holding /\ actor[a].pc \in Running
    BY <1>3 DEF Run, RunFails, Verifying, Complete, Fail, At, Holding, Running, PCs
  <2>2. /\ Cur(a) \in Copy /\ CopySound(Cur(a))
        /\ actor[a].due \in SUBSET Copy
        /\ \A c \in actor[a].due : CopySound(c)
    BY <2>1, Holds
  <2>3. /\ Cur(a).row.decision = "run_safe_local_worker"
        /\ actor[a].pc \in {"verify", "complete"} => Cur(a).id \in verified
    BY <2>1, Checked
  <2>4. OthersTyped' /\ UNCHANGED <<artifacts, verified, dismissed>>
    BY <1>3, Untouched DEF Run, RunFails, Verifying, Complete, Fail
  <2>5. \A v \in {"pending", "passed", "failed"} :
          /\ Judged(a, v) \in Copy
          /\ Judged(a, v).id = Cur(a).id
          /\ Judged(a, v).row.item = Cur(a).row.item
          /\ Judged(a, v).row.decision = Cur(a).row.decision
          /\ Judged(a, v).row.verification = v
    BY <2>2, JudgedCopy
  <2>6. Back(a) \in PCs /\ Back(a) \notin Running \cup {"verify", "complete"}
    BY BackIsNotHolding DEF Running, Holding, PCs
  <2>7. CASE Run(a)
    <3>1. "running" \in Statuses \ {"absent", "archived"} /\ "running" # "completed"
          /\ "effect" \in PCs /\ "effect" \notin {"verify", "complete"}
      BY DEF Statuses, Moves, PCs
    <3>. QED
      BY <2>2, <2>3, <2>4, <2>5, <2>7, <3>1, TransitionStep DEF Run
  <2>8. CASE RunFails(a)
    <3>. DEFINE place == [pc |-> "fail", cur |-> Cur(a), due |-> actor[a].due]
    <3>1. place \in Place
      BY <2>2 DEF Place, PCs
    <3>2. PlaceSound(place)
      BY <2>2, <2>3 DEF PlaceSound
    <3>. QED
      BY <2>4, <2>8, <3>1, <3>2, MoveStep DEF RunFails
  <2>9. CASE Verifying(a)
    <3>. DEFINE pc == IF At(a, "verify") THEN "complete" ELSE "fail"
    <3>1. "verifying" \in Statuses \ {"absent", "archived"} /\ "verifying" # "completed" /\ pc \in PCs
      BY DEF Statuses, Moves, PCs
    <3>2. pc \in {"verify", "complete"} => Cur(a).id \in verified
      BY <2>3 DEF At
    <3>. QED
      BY <2>2, <2>3, <2>4, <2>9, <3>1, <3>2, TransitionStep DEF Verifying
  <2>10. CASE Complete(a)
    <3>1. Cur(a).id \in verified
      BY <2>3, <2>10 DEF Complete, At
    <3>2. "completed" \in Statuses \ {"absent", "archived"}
      BY DEF Statuses, Moves
    <3>. QED
      BY <2>2, <2>4, <2>5, <2>6, <2>10, <3>1, <3>2, TransitionStep DEF Complete
  <2>11. CASE Fail(a)
    <3>1. "failed" \in Statuses \ {"absent", "archived"} /\ "failed" # "completed"
      BY DEF Statuses, Moves
    <3>. QED
      BY <2>2, <2>4, <2>5, <2>6, <2>11, <3>1, TransitionStep DEF Fail
  <2>. QED
    BY <1>3, <2>7, <2>8, <2>9, <2>10, <2>11
<1>. QED
  BY <1>1, <1>2, <1>3 DEF Execute

-----------------------------------------------------------------------------
(* The operator's requests.                                                *)

LEMMA GetSound ==
    ASSUME LedgerInv, NEW h \in Handlers, NEW request \in Requests, NEW i \in Ids,
           Get(h, request, i)
    PROVE  LedgerInv'
<1>1. h \in Actors
  BY DEF Actors
<1>2. OthersTyped' /\ UNCHANGED <<op, artifacts, verified, dismissed>>
  BY Untouched DEF Get
<1>3. Stored(i) \in Copy /\ CopySound(Stored(i))
  BY StoredCopy DEF Get
<1>. DEFINE place == [pc |-> request, cur |-> Stored(i), due |-> {}]
<1>4. place \in Place
  BY <1>3 DEF Place, PCs, Requests
<1>5. PlaceSound(place)
  BY <1>3 DEF PlaceSound, Requests, Running
<1>. QED
  BY <1>1, <1>2, <1>4, <1>5, MoveStep DEF Get

LEMMA AnswerSound ==
    ASSUME LedgerInv, NEW h \in Handlers,
           Approve(h) \/ Reject(h) \/ Later(h) \/ AddRule(h) \/ BlockSimilar(h)
    PROVE  LedgerInv'
<1>1. h \in Actors
  BY DEF Actors
<1>2. actor[h].pc \in Holding
  BY DEF Approve, Reject, Later, AddRule, BlockSimilar, At, Holding, PCs
<1>3. Cur(h) \in Copy /\ CopySound(Cur(h))
  BY <1>1, <1>2, Holds
<1>4. UNCHANGED <<artifacts, verified>> /\ (~Reject(h) => UNCHANGED dismissed)
  BY DEF Approve, Reject, Later, AddRule, BlockSimilar
<1>5. "idle" \in PCs \ Holding /\ "idle" \notin Running \cup {"verify", "complete"}
      /\ {} \in SUBSET actor[h].due
  BY DEF PCs, Holding, Running
<1>6. CASE Approve(h) \/ Reject(h) \/ BlockSimilar(h)
  <2>1. PICK to \in {"approved", "dismissed", "blocked"} :
          Transition(h, Cur(h), to, "idle") /\ (to = "dismissed" <=> Reject(h))
    BY <1>6 DEF Approve, Reject, BlockSimilar, At
  <2>2. to \in Statuses \ {"absent", "archived"} /\ to # "completed"
    BY DEF Statuses, Moves
  <2>3. dismissed \subseteq dismissed' /\ dismissed' \subseteq dismissed \cup {Cur(h).id}
    BY <1>4, <1>6 DEF Reject
  <2>4. OthersTyped'
    BY <1>3, <1>6, <2>3 DEF Approve, Reject, BlockSimilar, LedgerInv, TypeOK, OthersTyped,
         Copy
  <2>5. to = "dismissed" /\ Update(Moved(Cur(h), to)) => Cur(h).id \in dismissed'
    <3>. SUFFICES ASSUME to = "dismissed", Update(Moved(Cur(h), to))
                  PROVE  Cur(h).id \in dismissed'
      OBVIOUS
    <3>1. CASE op' # op
      BY <2>1, <3>1 DEF Reject
    <3>2. CASE op' = op
      <4>1. /\ Cur(h).id \in Ids /\ op \in [Ids -> Row]
            /\ Moved(Cur(h), to).id = Cur(h).id
            /\ Moved(Cur(h), to).row.status = "dismissed"
        BY <1>3, <2>2, MovedCopy DEF Copy, LedgerInv, TypeOK
      <4>2. op[Cur(h).id].status = "dismissed"
        BY <3>2, <4>1 DEF Update
      <4>3. Cur(h).id \in dismissed
        BY <4>1, <4>2 DEF LedgerInv, TableSound, Sound, SoundIn
      <4>. QED
        BY <2>3, <4>3
    <3>. QED
      BY <3>1, <3>2
  <2>. QED
    BY <1>1, <1>3, <1>4, <1>5, <2>1, <2>2, <2>3, <2>4, <2>5, TransitionStep
<1>7. CASE Later(h)
  <2>1. OthersTyped'
    BY <1>7, Untouched DEF Later
  <2>2. CASE UNCHANGED op
    BY <1>1, <1>4, <1>5, <1>7, <2>1, <2>2, LeaveStep DEF Later
  <2>3. CASE Update(Cur(h))
    <3>1. SoundIn(Cur(h).id, Cur(h).row, verified, dismissed')
      BY <1>3, <1>7 DEF CopySound, Sound, Later
    <3>. QED
      BY <1>1, <1>3, <1>4, <1>5, <1>7, <2>1, <2>3, <3>1, SaveStep DEF Later
  <2>. QED
    BY <1>7, <2>2, <2>3 DEF Later
<1>8. CASE AddRule(h)
  <2>1. TypeOf[Cur(h).row.item] \in Types
    BY <1>3, ItemsAssumption DEF Copy, Row
  <2>2. OthersTyped' /\ UNCHANGED op
    BY <1>8, <2>1 DEF AddRule, LedgerInv, TypeOK, OthersTyped
  <2>. DEFINE place == [pc |-> "block", cur |-> Cur(h), due |-> {}]
  <2>3. place \in Place
    BY <1>3 DEF Place, PCs
  <2>4. PlaceSound(place)
    BY <1>3 DEF PlaceSound, Running
  <2>. QED
    BY <1>1, <1>4, <1>8, <2>2, <2>3, <2>4, MoveStep DEF AddRule
<1>. QED
  BY <1>6, <1>7, <1>8

LEMMA RecoverSound ==
    ASSUME LedgerInv, NEW h \in Handlers, Recover(h)
    PROVE  LedgerInv'
<1>1. h \in Actors
  BY DEF Actors
<1>2. OthersTyped' /\ UNCHANGED <<artifacts, verified, dismissed>>
  BY Untouched DEF Recover, ListRunning, ListVerifying, EndRecovery, Interrupt, Confirm,
       Recovered
<1>3. {"interrupt", "confirm", "idle"} \subseteq PCs \ Holding
      /\ {"interrupt", "confirm", "idle"} \cap (Running \cup {"verify", "complete"}) = {}
  BY DEF PCs, Holding, Running
<1>4. CASE ListRunning(h) \/ ListVerifying(h)
  <2>1. PICK status \in {"running", "verifying"}, pc \in {"interrupt", "confirm"} :
          Goto(h, pc, NoCopy, With(status)) /\ UNCHANGED op
    BY <1>4 DEF ListRunning, ListVerifying
  <2>2. \A c \in With(status) : c \in Copy /\ CopySound(c)
    BY StoredCopy DEF With
  <2>. DEFINE place == [pc |-> pc, cur |-> NoCopy, due |-> With(status)]
  <2>3. place \in Place
    BY <1>3, <2>2 DEF Place
  <2>4. PlaceSound(place)
    BY <1>3, <2>2 DEF PlaceSound
  <2>. QED
    BY <1>1, <1>2, <2>1, <2>3, <2>4, MoveStep
<1>5. CASE EndRecovery(h)
  BY <1>1, <1>2, <1>3, <1>5, LeaveStep DEF EndRecovery
<1>6. ASSUME NEW c \in actor[h].due, Interrupt(h, c) \/ Confirm(h, c)
      PROVE  LedgerInv'
  <2>1. PICK to \in {"interrupted", "awaiting_approval"}, pc \in {"interrupt", "confirm"} :
          /\ Update(Moved(c, to)) \/ UNCHANGED op
          /\ Goto(h, pc, NoCopy, actor[h].due \ {c})
    BY <1>6 DEF Interrupt, Confirm, Recovered, At
  <2>2. c \in Copy /\ CopySound(c)
    BY <1>1 DEF LedgerInv, TypeOK, ActorsSound, PlaceSound
  <2>3. to \in Statuses /\ to \notin {"absent", "archived", "completed", "dismissed"}
    BY DEF Statuses, Moves
  <2>. DEFINE d == Moved(c, to)
  <2>4. /\ d \in Copy /\ d.id = c.id
        /\ d.row.status = to
        /\ d.row.item = c.row.item
        /\ d.row.decision = c.row.decision
    BY <2>2, <2>3, MovedCopy
  <2>5. SoundIn(d.id, d.row, verified, dismissed')
    BY <2>2, <2>3, <2>4 DEF CopySound, Sound, SoundIn
  <2>6. pc \in PCs \ Holding /\ pc \notin Running \cup {"verify", "complete"}
        /\ actor[h].due \ {c} \in SUBSET actor[h].due
    BY <1>3
  <2>7. CASE Update(d)
    BY <1>1, <1>2, <2>1, <2>2, <2>4, <2>5, <2>6, <2>7, SaveStep
  <2>8. CASE UNCHANGED op
    BY <1>1, <1>2, <2>1, <2>6, <2>8, LeaveStep
  <2>. QED
    BY <2>1, <2>7, <2>8
<1>. QED
  BY <1>4, <1>5, <1>6 DEF Recover

-----------------------------------------------------------------------------
LEMMA NextSound == LedgerInv /\ [Next]_vars => LedgerInv'
<1>. SUFFICES ASSUME LedgerInv, [Next]_vars PROVE LedgerInv'
  OBVIOUS
<1>1. CASE StartPass \/ Ingest \/ Refresh
  BY <1>1, IngestSound
<1>2. CASE Halt \/ ListDue \/ Done
  BY <1>2, ListSound
<1>3. CASE \E c \in actor[Worker].due : Classify(c)
  BY <1>3, ClassifySound
<1>4. CASE Route \/ Draft
  BY <1>4, RouteSound
<1>5. CASE \E a \in Actors : Execute(a)
  BY <1>5, ExecuteSound
<1>6. ASSUME NEW h \in Handlers, \E request \in Requests, i \in Ids : Get(h, request, i)
      PROVE  LedgerInv'
  BY <1>6, GetSound
<1>7. ASSUME NEW h \in Handlers,
             Approve(h) \/ Reject(h) \/ Later(h) \/ AddRule(h) \/ BlockSimilar(h)
      PROVE  LedgerInv'
  BY <1>7, AnswerSound
<1>8. ASSUME NEW h \in Handlers, Recover(h) PROVE LedgerInv'
  BY <1>8, RecoverSound
<1>9. CASE Control
  <2>1. UNCHANGED <<op, actor, artifacts, verified, dismissed>> /\ OthersTyped'
    BY <1>9 DEF Control, LedgerInv, TypeOK, OthersTyped
  <2>2. ActorsSound'
    BY <2>1 DEF LedgerInv, ActorsSound, PlaceSound, CopySound, Sound, SoundIn
  <2>. QED
    BY <2>1, <2>2, NoWrite DEF LedgerInv, TypeOK, OthersTyped
<1>10. CASE Crash
  <2>1. UNCHANGED <<op, mode, stop, artifacts, verified, dismissed>>
        /\ rules' = {} /\ todo' = {} /\ actor' = [a \in Actors |-> Idle]
    BY <1>10 DEF Crash
  <2>2. ActorsSound'
    BY <2>1 DEF ActorsSound, PlaceSound, Idle, Holding, Running
  <2>3. TypeOK'
    BY <2>1 DEF LedgerInv, TypeOK, Idle, PCs
  <2>. QED
    BY <2>1, <2>2, <2>3, NoWrite DEF LedgerInv
<1>11. CASE UNCHANGED vars
  <2>1. UNCHANGED <<op, mode, stop, rules, todo, actor, artifacts, verified, dismissed>>
    BY <1>11 DEF vars
  <2>2. ActorsSound'
    BY <2>1 DEF LedgerInv, ActorsSound, PlaceSound, CopySound, Sound, SoundIn
  <2>. QED
    BY <2>1, <2>2, NoWrite DEF LedgerInv, TypeOK
<1>. QED
  BY <1>1, <1>2, <1>3, <1>4, <1>5, <1>6, <1>7, <1>8, <1>9, <1>10, <1>11 DEF Next, Program

LEMMA Invariance == Spec => []LedgerInv
  BY InitSound, NextSound, PTL DEF Spec

\* The ledger's variables keep their types (the statuses, decisions and
\* verifications of models.Operation), for any number of requests and faults.
THEOREM TypeCorrect == Spec => []TypeOK
<1>1. LedgerInv => TypeOK
  BY DEF LedgerInv
<1>. QED
  BY <1>1, Invariance, PTL

\* ExecuteSafeOperation's gate holds in the table: however many requests,
\* recoveries and passes save stale rows over one another, and wherever the
\* process crashes, a completed operation had a verified run of its own.
THEOREM CompletionsAreEarned == Spec => []CompletionIsEarned
<1>1. LedgerInv => CompletionIsEarned
  BY DEF LedgerInv, TableSound, Sound, SoundIn, CompletionIsEarned
<1>. QED
  BY <1>1, Invariance, PTL

\* The safe worker never runs an operation that Decide would not let run for
\* its risk, in whatever mode and by whatever request it got there.
THEOREM EffectsAreOfLowRisk == Spec => []EffectsAreLowRisk
<1>1. LedgerInv => EffectsAreLowRisk
  BY DEF LedgerInv, ArtifactsSound, EffectsAreLowRisk
<1>. QED
  BY <1>1, Invariance, PTL

\* FindByDedupeKey keeps repeated syncs from duplicating an item: however many
\* requests, passes and recoveries save stale rows over one another, and wherever
\* the process crashes, at most one operation of an item was never rejected.
THEOREM DuplicatesAreOfDismissed == Spec => []DuplicatesWereDismissed
<1>1. ASSUME LedgerInv, NEW item \in Items
      PROVE  Cardinality({i \in Ids : /\ op[i].status # "absent" /\ op[i].item = item
                                      /\ i \notin dismissed}) <= 1
  <2>. DEFINE kept == {i \in Ids : /\ op[i].status # "absent" /\ op[i].item = item
                                   /\ i \notin dismissed}
  <2>1. \A i, j \in kept : i = j
    BY <1>1 DEF LedgerInv, TableSound, NoTwins
  <2>. HIDE DEF kept
  <2>2. Cardinality(kept) <= 1
    <3>1. CASE kept = {}
      BY <3>1, FS_EmptySet
    <3>2. CASE kept # {}
      <4>1. PICK i \in kept : kept = {i}
        BY <2>1, <3>2
      <4>2. Cardinality({i}) = 1
        BY FS_Singleton
      <4>. QED
        BY <4>1, <4>2
    <3>. QED
      BY <3>1, <3>2
  <2>. QED
    BY <2>2 DEF kept
<1>2. LedgerInv => DuplicatesWereDismissed
  BY <1>1 DEF DuplicatesWereDismissed
<1>. QED
  BY <1>2, Invariance, PTL

=============================================================================
