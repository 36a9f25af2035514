------------------------ MODULE StartedServiceProofs ------------------------
(***************************************************************************)
(* Theorems about StartedService.  For any number of callers, parts and    *)
(* boxes: the types, and that a status in between has one call behind it.  *)
(* For one caller at a time, as hcore calls it under static.lock: what is  *)
(* open can be closed, and the promise of ServiceContract is kept.         *)
(***************************************************************************)
EXTENDS StartedService, TLAPS

\* A call that works on a box has one.
HasBox ==
    \A c \in Callers : pc[c] \in {"closeOld", "starting", "finish"} => mine[c] \in Boxes

TypeInv == TypeOK /\ HasBox

AnyBox == [next : 1..NumParts + 1, open : SUBSET Parts, done : BOOLEAN]

LEMMA ServiceInit == ASSUME ServiceAssumption PROVE Init => TypeInv
BY DEF ServiceAssumption, Init, TypeInv, TypeOK, HasBox, Statuses, Places, Boxes,
       Parts, NewBox

LEMMA GiveUpType ==
    ASSUME NEW b \in AnyBox
    PROVE  GiveUp(b) \in AnyBox
BY DEF GiveUp, ClosedBox, AnyBox

\* Making a box, or failing to.
LEMMA CreateType ==
    ASSUME ServiceAssumption, TypeInv, NEW c \in Callers, Create(c), UNCHANGED <<access, box>>
    PROVE  TypeInv'
<1> USE DEF ServiceAssumption, TypeInv, TypeOK, HasBox, Goto, Statuses, Places, Boxes
<1>1. CASE status' = "FATAL" /\ Goto(c, "idle") /\ UNCHANGED <<instance, made, mine, failed>>
  BY <1>1
<1>2. CASE /\ made < MaxBoxes
           /\ status' = "STARTING" /\ made' = made + 1 /\ instance' = made'
           /\ mine' = [mine EXCEPT ![c] = made']
           /\ failed' = [failed EXCEPT ![c] = FALSE]
           /\ Goto(c, "starting")
  <2>1. made' \in Boxes /\ made' \in 0..MaxBoxes
    BY <1>2
  <2>2. TypeOK'
    BY <1>2, <2>1
  <2>3. HasBox'
    BY <1>2, <2>1
  <2>4. QED BY <2>2, <2>3
<1>3. QED
  BY <1>1, <1>2 DEF Create

LEMMA ServiceTypeStep ==
    ASSUME ServiceAssumption, TypeInv, [Next]_vars
    PROVE  TypeInv'
<1> USE DEF ServiceAssumption, TypeInv, TypeOK, HasBox, Goto, Statuses, Places, Boxes
<1>1. CASE UNCHANGED vars
  BY <1>1 DEF vars
<1>2. ASSUME NEW c \in Callers, Call(c) PROVE TypeInv'
  <2>1. CASE StartFresh(c) BY <2>1, CreateType DEF StartFresh
  <2>2. CASE Reload(c) BY <2>2 DEF Reload
  <2>3. CASE CloseService(c) BY <2>3 DEF CloseService
  <2>4. CASE SetError(c) BY <2>4 DEF SetError
  <2>5. QED BY <1>2, <2>1, <2>2, <2>3, <2>4 DEF Call
<1>3. ASSUME NEW c \in Callers, Step(c) PROVE TypeInv'
  <2>1. CASE CloseOld(c)
    <3>1. mine[c] \in Boxes BY <2>1 DEF CloseOld
    <3>2. box' \in [Boxes -> AnyBox]
      BY <2>1, <3>1, GiveUpType DEF CloseOld, AnyBox
    <3>3. QED BY <2>1, <3>2 DEF CloseOld, AnyBox
  <2>2. CASE Relock(c) BY <2>2, CreateType DEF Relock
  <2>3. CASE StartPart(c)
    <3> DEFINE b == box[mine[c]]
               Past(open) == [b EXCEPT !.next = b.next + 1, !.open = open]
               more == b.open \cup {b.next}
    <3>1. mine[c] \in Boxes /\ b.next \in Parts
      BY <2>3 DEF StartPart, HasPart
    <3>2. b \in AnyBox
      BY <3>1 DEF AnyBox
    <3>3. b.next + 1 \in 1..NumParts + 1 /\ more \in SUBSET Parts
      BY <3>1, <3>2 DEF AnyBox, Parts
    <3>4. Past(more) \in AnyBox /\ Past(b.open) \in AnyBox
      BY <3>2, <3>3 DEF AnyBox
    <3>5. \/ box' = [box EXCEPT ![mine[c]] = Past(more)]
          \/ box' = [box EXCEPT ![mine[c]] = Past(b.open)]
      BY <2>3 DEF StartPart
    <3> HIDE DEF Past
    <3>6. box' \in [Boxes -> AnyBox]
      BY <3>1, <3>4, <3>5 DEF AnyBox
    <3>7. QED BY <2>3, <3>6 DEF StartPart, AnyBox
  <2>4. CASE StartFails(c)
    <3>1. mine[c] \in Boxes BY <2>4 DEF StartFails
    <3>2. box' \in [Boxes -> AnyBox]
      BY <2>4, <3>1, GiveUpType DEF StartFails, AnyBox
    <3>3. QED BY <2>4, <3>2 DEF StartFails, AnyBox
  <2>5. CASE StartDone(c) BY <2>5 DEF StartDone
  <2>6. CASE FinishStart(c) BY <2>6 DEF FinishStart, StatusAfterStart
  <2>7. CASE EndClose(c)
    <3>1. box' \in [Boxes -> AnyBox]
      <4>1. CASE instance = 0
        BY <2>7, <4>1 DEF EndClose, AnyBox
      <4>2. CASE instance # 0
        <5>1. box' = [box EXCEPT ![instance] = GiveUp(@)]
          BY <2>7, <4>2 DEF EndClose
        <5>2. instance \in Boxes /\ box[instance] \in AnyBox
          BY <4>2 DEF AnyBox
        <5>3. QED BY <5>1, <5>2, GiveUpType DEF AnyBox
      <4>3. QED BY <4>1, <4>2
    <3>2. instance' \in 0..MaxBoxes /\ status' \in Statuses /\ access' = Nobody
      BY <2>7 DEF EndClose, AfterClose
    <3>3. QED BY <2>7, <3>1, <3>2 DEF EndClose, AnyBox
  <2>8. QED BY <1>3, <2>1, <2>2, <2>3, <2>4, <2>5, <2>6, <2>7 DEF Step
<1>4. QED
  BY <1>1, <1>2, <1>3 DEF Next

LEMMA ServiceTypeInvariant == ASSUME ServiceAssumption PROVE Spec => []TypeInv
<1>1. Init => TypeInv
  BY ServiceInit
<1>2. TypeInv /\ [Next]_vars => TypeInv'
  BY ServiceTypeStep
<1>3. QED
  BY <1>1, <1>2, PTL DEF Spec

\* The fields of the service, its boxes and its calls hold what the Go types and
\* the program allow; a start opens no part beyond the last.
THEOREM ServiceTypes == ASSUME ServiceAssumption PROVE Spec => []TypeOK
<1>1. TypeInv => TypeOK
  BY DEF TypeInv
<1>2. QED
  BY <1>1, ServiceTypeInvariant, PTL

----------------------------------------------------------------------------
(* Any number of callers.                                                   *)

\* Only the status keeps a second call from taking the service down: as long as
\* it admits a call, none is doing so.
OwnerInv ==
    /\ TransientHasOwner
    /\ status \in {"IDLE", "STARTING", "STARTED"} => Stopping = {}
    /\ \A c, d \in Stopping : c = d

LEMMA OwnerInit == ASSUME ServiceAssumption PROVE Init => OwnerInv
BY DEF Init, OwnerInv, TransientHasOwner, Stopping, Starting

LEMMA OwnerStep ==
    ASSUME ServiceAssumption, TypeInv, OwnerInv, [Next]_vars
    PROVE  OwnerInv'
<1> USE DEF TypeInv, TypeOK, OwnerInv, TransientHasOwner, Stopping, Starting, Goto
<1>1. CASE UNCHANGED vars
  BY <1>1 DEF vars
<1>2. ASSUME NEW c \in Callers, Call(c) PROVE OwnerInv'
  <2>1. CASE StartFresh(c) BY <2>1 DEF StartFresh, Create, Startable
  <2>2. CASE Reload(c) BY <2>2 DEF Reload, Startable
  <2>3. CASE CloseService(c) BY <2>3 DEF CloseService
  <2>4. CASE SetError(c) BY <2>4 DEF SetError
  <2>5. QED BY <1>2, <2>1, <2>2, <2>3, <2>4 DEF Call
<1>3. ASSUME NEW c \in Callers, Step(c) PROVE OwnerInv'
  <2>1. CASE CloseOld(c) BY <2>1 DEF CloseOld
  <2>2. CASE Relock(c) BY <2>2 DEF Relock, Create
  <2>3. CASE StartPart(c) BY <2>3 DEF StartPart
  <2>4. CASE StartFails(c) BY <2>4 DEF StartFails
  <2>5. CASE StartDone(c) BY <2>5 DEF StartDone
  <2>6. CASE FinishStart(c) BY <2>6 DEF FinishStart, StatusAfterStart
  <2>7. CASE EndClose(c)
    <3>1. status' \in {"IDLE", "FATAL"}
      BY <2>7 DEF EndClose
    <3>2. pc[c] = "closing" /\ pc' = [pc EXCEPT ![c] = "idle"]
      BY <2>7 DEF EndClose
    <3>3. Stopping' = {}
      BY <3>2
    <3>4. QED BY <3>1, <3>3
  <2>8. QED BY <1>3, <2>1, <2>2, <2>3, <2>4, <2>5, <2>6, <2>7 DEF Step
<1>4. QED
  BY <1>1, <1>2, <1>3 DEF Next

LEMMA OwnerInvariant == ASSUME ServiceAssumption PROVE Spec => []OwnerInv
<1>1. Init => OwnerInv
  BY OwnerInit
<1>2. TypeInv /\ OwnerInv /\ [Next]_vars => OwnerInv'
  BY OwnerStep
<1>3. QED
  BY <1>1, <1>2, ServiceTypeInvariant, PTL DEF Spec

\* startOrReloadService gives the mutex up twice; whichever calls come in between,
\* a STARTING has a starting call behind it and a STOPPING a stopping one.
THEOREM TransientsHaveOwners ==
    ASSUME ServiceAssumption
    PROVE  Spec => []TransientHasOwner
<1>1. OwnerInv => TransientHasOwner
  BY DEF OwnerInv
<1>2. QED
  BY <1>1, OwnerInvariant, PTL

LEMMA StoppersApart == OwnerInv => OneStopper
BY DEF OwnerInv, OneStopper

\* No two calls take the service down at a time, though the one that reloads does
\* not hold the mutex while it closes the old box.
THEOREM StoppersAreAlone ==
    ASSUME ServiceAssumption
    PROVE  Spec => []OneStopper
<1>1. QED
  BY StoppersApart, OwnerInvariant, PTL

----------------------------------------------------------------------------
(* One caller at a time, and no SetError.                                   *)

OneCaller == ~ErrorCalls /\ \A c, d \in Callers : c = d

\* As long as only h calls, the others stay idle.
OnlyCaller(h) == \A c \in Callers \ {h} : pc[c] = "idle"

Contract == INSTANCE ServiceContract WITH phase <- Phase, on <- On

\* Boxes not made yet are new, nothing is open in a box that was closed, and only
\* the box s.instance holds has open parts.
BoxInv ==
    /\ instance <= made
    /\ \A b \in Boxes : b > made => box[b] = NewBox
    /\ \A b \in Boxes : box[b].done => box[b].open = {}
    /\ Open \subseteq {instance}

\* What the call of c may count on in each place, and c between two calls.
CallInv(c) ==
    /\ pc[c] = "idle" =>
          /\ status \in {"IDLE", "STARTED", "FATAL"}
          /\ Open # {} <=> status = "STARTED"
    /\ pc[c] = "closeOld" => status = "STOPPING" /\ mine[c] = instance
    /\ pc[c] = "relock" => status = "STOPPING" /\ Open = {}
    /\ pc[c] = "starting" =>
          /\ status = "STARTING" /\ mine[c] = instance /\ ~failed[c]
          /\ ~box[instance].done
          /\ box[instance].next > 1 => box[instance].open # {}
    /\ pc[c] = "finish" => status = "STARTING" /\ (Open = {} <=> failed[c])
    /\ pc[c] = "closing" => status = "STOPPING"

SoleInv(h) == TypeInv /\ BoxInv /\ CallInv(h) /\ OnlyCaller(h)

LEMMA SoleInit == ASSUME ServiceAssumption, NEW h \in Callers PROVE Init => SoleInv(h)
BY ServiceInit
DEF ServiceAssumption, Init, SoleInv, BoxInv, CallInv, OnlyCaller, Open, NewBox, Boxes

\* How the open parts change.
LEMMA OpenKept == ASSUME UNCHANGED box PROVE Open' = Open
BY DEF Open

LEMMA NothingOpen ==
    ASSUME ServiceAssumption, BoxInv, instance = 0
    PROVE  Open = {}
<1>1. Open \subseteq {0} /\ MaxBoxes \in Nat
  BY DEF BoxInv, ServiceAssumption
<1>2. \A b \in Boxes : b # 0
  BY <1>1 DEF Boxes
<1> QED
  BY <1>1, <1>2 DEF Open

LEMMA OpenAfterClose ==
    ASSUME TypeInv, BoxInv, NEW i \in Boxes, Open \subseteq {i}, box' = [box EXCEPT ![i] = GiveUp(@)]
    PROVE  /\ Open' = {}
           /\ \A b \in Boxes : b # i => box'[b] = box[b]
           /\ box'[i].done /\ box'[i].open = {}
<1>1. \A b \in Boxes : b # i => box'[b] = box[b]
  BY DEF TypeInv, TypeOK
<1>2. box'[i].done /\ box'[i].open = {}
  BY DEF TypeInv, TypeOK, BoxInv, GiveUp, ClosedBox
<1>3. QED
  BY <1>1, <1>2 DEF Open

\* A step that changes the box s.instance holds, and no other.
LEMMA OtherBoxesKept ==
    ASSUME ServiceAssumption, TypeInv, BoxInv, instance \in Boxes, instance' \in {0, instance},
           made' = made, \A b \in Boxes : b # instance => box'[b] = box[b],
           box'[instance].done => box'[instance].open = {}, Open' \subseteq {instance'}
    PROVE  BoxInv'
<1>1. instance' <= made'
  BY DEF BoxInv, TypeInv, TypeOK, ServiceAssumption
<1>2. ASSUME NEW b \in Boxes, b > made' PROVE box'[b] = NewBox
  BY <1>2 DEF BoxInv, Boxes, ServiceAssumption, TypeInv, TypeOK
<1>3. ASSUME NEW b \in Boxes, box'[b].done PROVE box'[b].open = {}
  BY <1>3 DEF BoxInv
<1>4. QED
  BY <1>1, <1>2, <1>3 DEF BoxInv, Boxes

LEMMA SoleCreate ==
    ASSUME ServiceAssumption, NEW c \in Callers, SoleInv(c), Create(c),
           UNCHANGED <<access, box>>, Open = {}
    PROVE  BoxInv' /\ CallInv(c)' /\ OnlyCaller(c)'
<1> USE DEF ServiceAssumption, SoleInv, TypeInv, TypeOK, BoxInv, CallInv, OnlyCaller,
            Goto, NewBox, Boxes
<1>1. Open' = {}
  BY OpenKept
<1>2. CASE status' = "FATAL" /\ Goto(c, "idle") /\ UNCHANGED <<instance, made, mine, failed>>
  BY <1>1, <1>2
<1>3. CASE /\ made < MaxBoxes
           /\ status' = "STARTING" /\ made' = made + 1 /\ instance' = made'
           /\ mine' = [mine EXCEPT ![c] = made']
           /\ failed' = [failed EXCEPT ![c] = FALSE]
           /\ Goto(c, "starting")
  <2>1. instance' \in Boxes /\ instance' > made /\ box' = box
    BY <1>3
  <2>2. box[instance'] = NewBox
    BY <2>1
  <2>3. BoxInv'
    BY <1>1, <1>3, <2>1
  <2>4. CallInv(c)' /\ OnlyCaller(c)'
    BY <1>1, <1>3, <2>1, <2>2
  <2>5. QED BY <2>3, <2>4
<1>4. QED
  BY <1>2, <1>3 DEF Create

LEMMA SoleCall ==
    ASSUME ServiceAssumption, ~ErrorCalls, NEW c \in Callers, SoleInv(c), Call(c)
    PROVE  BoxInv' /\ CallInv(c)' /\ OnlyCaller(c)'
<1> USE DEF ServiceAssumption, SoleInv, TypeInv, TypeOK, BoxInv, CallInv, OnlyCaller, Goto
<1>1. CASE StartFresh(c)
  <2>1. Open = {}
    BY <1>1, NothingOpen DEF StartFresh
  <2>2. QED BY <1>1, <2>1, SoleCreate DEF StartFresh
<1>2. CASE Reload(c)
  BY <1>2, OpenKept DEF Reload
<1>3. CASE CloseService(c)
  BY <1>3, OpenKept DEF CloseService
<1>4. CASE SetError(c)
  BY <1>4 DEF SetError
<1>5. QED
  BY <1>1, <1>2, <1>3, <1>4 DEF Call

LEMMA SoleStep ==
    ASSUME ServiceAssumption, NEW c \in Callers, SoleInv(c), Step(c)
    PROVE  BoxInv' /\ CallInv(c)' /\ OnlyCaller(c)'
<1> USE DEF ServiceAssumption, SoleInv, TypeInv, TypeOK, HasBox, BoxInv, CallInv,
            OnlyCaller, Goto
<1>1. CASE CloseOld(c)
  <2>1. mine[c] = instance /\ instance \in Boxes
    BY <1>1 DEF CloseOld
  <2>2. box' = [box EXCEPT ![instance] = GiveUp(@)]
    BY <1>1, <2>1 DEF CloseOld
  <2>3. Open' = {} /\ \A b \in Boxes : b # instance => box'[b] = box[b]
    BY <2>1, <2>2, OpenAfterClose
  <2>4. UNCHANGED <<status, instance, made, mine, failed>> /\ pc[c] = "closeOld"
        /\ pc' = [pc EXCEPT ![c] = "relock"]
    BY <1>1 DEF CloseOld
  <2>5. BoxInv'
    BY <2>1, <2>2, <2>3, <2>4, OpenAfterClose, OtherBoxesKept
  <2>6. CallInv(c)' /\ OnlyCaller(c)'
    BY <2>3, <2>4
  <2>7. QED BY <2>5, <2>6
<1>2. CASE Relock(c)
  BY <1>2, SoleCreate DEF Relock
<1>3. CASE StartPart(c)
  <2> DEFINE i == instance
             more == box[i].open \cup {box[i].next}
  <2>1. mine[c] = i /\ i \in Boxes /\ ~box[i].done /\ box[i].next \in Parts
    BY <1>3 DEF StartPart, HasPart
  <2>2. box' = [box EXCEPT ![i] = [box[i] EXCEPT !.next = box[i].next + 1, !.open = more]]
    BY <1>3, <2>1 DEF StartPart
  <2>3. box[i] \in AnyBox
    BY <2>1 DEF AnyBox
  <2>4. \A b \in Boxes : b # i => box'[b] = box[b]
    BY <2>1, <2>2
  <2>5. box'[i].open = more /\ box'[i].done = box[i].done
    <3>1. box'[i] = [box[i] EXCEPT !.next = box[i].next + 1, !.open = more]
      BY <2>1, <2>2
    <3>2. QED BY <2>3, <3>1 DEF AnyBox
  <2>6. UNCHANGED <<status, access, instance, made, pc, mine, failed>> /\ pc[c] = "starting"
    BY <1>3 DEF StartPart
  <2>7. Open' \subseteq {instance'}
    BY <2>1, <2>4, <2>6 DEF Open
  <2>8. BoxInv'
    BY <2>1, <2>4, <2>5, <2>6, <2>7, OtherBoxesKept
  <2>9. CallInv(c)' /\ OnlyCaller(c)'
    BY <2>1, <2>5, <2>6
  <2>10. QED BY <2>8, <2>9
<1>4. CASE StartFails(c)
  <2>1. mine[c] = instance /\ instance \in Boxes
    BY <1>4 DEF StartFails
  <2>2. box' = [box EXCEPT ![instance] = GiveUp(@)]
    BY <1>4, <2>1 DEF StartFails
  <2>3. Open' = {} /\ \A b \in Boxes : b # instance => box'[b] = box[b]
    BY <2>1, <2>2, OpenAfterClose
  <2>4. UNCHANGED <<status, instance, made, mine>> /\ pc[c] = "starting"
        /\ pc' = [pc EXCEPT ![c] = "finish"] /\ failed' = [failed EXCEPT ![c] = TRUE]
    BY <1>4 DEF StartFails
  <2>5. BoxInv'
    BY <2>1, <2>2, <2>3, <2>4, OpenAfterClose, OtherBoxesKept
  <2>6. CallInv(c)' /\ OnlyCaller(c)'
    BY <2>3, <2>4
  <2>7. QED BY <2>5, <2>6
<1>5. CASE StartDone(c)
  <2>1. instance \in Boxes /\ box[instance].open # {}
    BY <1>5 DEF StartDone
  <2>2. Open # {}
    BY <2>1 DEF Open
  <2>3. QED BY <1>5, <2>2, OpenKept DEF StartDone
<1>6. CASE FinishStart(c)
  BY <1>6, OpenKept DEF FinishStart, StatusAfterStart
<1>7. CASE EndClose(c)
  <2>1. CASE instance = 0
    <3>1. Open = {}
      BY <2>1, NothingOpen
    <3>2. QED BY <1>7, <2>1, <3>1, OpenKept DEF EndClose
  <2>2. CASE instance # 0
    <3>1. instance \in Boxes /\ box' = [box EXCEPT ![instance] = GiveUp(@)]
      BY <1>7, <2>2 DEF EndClose, Boxes
    <3>2. /\ status' \in {"IDLE", "FATAL"} /\ instance' \in {0, instance}
          /\ pc' = [pc EXCEPT ![c] = "idle"] /\ made' = made
      BY <1>7, <2>2 DEF EndClose
    <3>3. Open' = {} /\ \A b \in Boxes : b # instance => box'[b] = box[b]
      BY <3>1, OpenAfterClose
    <3>4. BoxInv'
      BY <3>1, <3>2, <3>3, OpenAfterClose, OtherBoxesKept
    <3>5. CallInv(c)' /\ OnlyCaller(c)'
      BY <3>2, <3>3
    <3>6. QED BY <3>4, <3>5
  <2>3. QED BY <2>1, <2>2
<1>8. QED
  BY <1>1, <1>2, <1>3, <1>4, <1>5, <1>6, <1>7 DEF Step

LEMMA SoleNext ==
    ASSUME ServiceAssumption, ~ErrorCalls, NEW h \in Callers, SoleInv(h),
           Call(h) \/ Step(h) \/ UNCHANGED vars
    PROVE  SoleInv(h)'
<1>1. TypeInv'
  BY ServiceTypeStep DEF SoleInv, Next
<1>2. CASE UNCHANGED vars
  BY <1>1, <1>2 DEF vars, SoleInv, BoxInv, CallInv, OnlyCaller, Open
<1>3. CASE Call(h) \/ Step(h)
  BY <1>1, <1>3, SoleCall, SoleStep DEF SoleInv
<1> QED
  BY <1>2, <1>3

LEMMA SoleInvariant ==
    ASSUME ServiceAssumption, OneCaller, NEW h \in Callers
    PROVE  Spec => []SoleInv(h)
<1>1. Init => SoleInv(h)
  BY SoleInit
<1>2. SoleInv(h) /\ [Next]_vars => SoleInv(h)'
  BY SoleNext DEF Next, OneCaller
<1>3. QED
  BY <1>1, <1>2, PTL DEF Spec

LEMMA SoleSettled == ASSUME NEW h \in Callers, SoleInv(h) PROVE OpenCanBeClosed
BY DEF SoleInv, BoxInv, CallInv, OpenCanBeClosed

\* Called by one thread at a time, the service is between two calls either up, with
\* a status that lets CloseService close what is open, or has nothing open; a
\* reload or a start that fails in the middle included.
THEOREM OpenPartsCanBeClosed ==
    ASSUME ServiceAssumption, OneCaller, Callers # {}
    PROVE  Spec => []OpenCanBeClosed
<1>1. PICK h \in Callers : TRUE
  OBVIOUS
<1>2. SoleInv(h) => OpenCanBeClosed
  BY SoleSettled
<1>3. Spec => []SoleInv(h)
  BY SoleInvariant
<1>4. QED
  BY <1>2, <1>3, PTL

LEMMA SoleContractStep ==
    ASSUME ServiceAssumption, ~ErrorCalls, NEW c \in Callers, SoleInv(c), SoleInv(c)',
           Call(c) \/ Step(c) \/ UNCHANGED vars
    PROVE  [Contract!Next]_(Contract!contractVars)
<1> USE DEF Contract!Next, Contract!contractVars, Phase, On
<1>1. CASE UNCHANGED vars
  BY <1>1 DEF vars, Open
<1>2. ASSUME Create(c), UNCHANGED box, Open = {},
             status \in {"IDLE", "STOPPING"}
      PROVE  Contract!BeginStart \/ Contract!Fail
  BY <1>2, OpenKept DEF Create, Contract!BeginStart, Contract!Fail
<1>3. ASSUME Call(c) PROVE Contract!Next
  <2>1. CASE StartFresh(c)
    <3>1. Open = {}
      BY <2>1, NothingOpen DEF StartFresh, SoleInv
    <3>2. status = "IDLE"
      BY <2>1, <3>1 DEF StartFresh, Startable, SoleInv, CallInv
    <3>3. QED BY <1>2, <2>1, <3>1, <3>2 DEF StartFresh
  <2>2. CASE Reload(c)
    BY <2>2, OpenKept DEF Reload, Startable, SoleInv, CallInv, Contract!BeginStop
  <2>3. CASE CloseService(c)
    BY <2>3, OpenKept DEF CloseService, SoleInv, CallInv, Contract!BeginStop
  <2>4. CASE SetError(c)
    BY <2>4 DEF SetError
  <2>5. QED BY <1>3, <2>1, <2>2, <2>3, <2>4 DEF Call
<1>4. ASSUME Step(c)
      PROVE  [Contract!Next]_(Contract!contractVars)
  <2>1. CASE CloseOld(c) \/ EndClose(c)
    <3>1. status = "STOPPING" /\ status' \in {"STOPPING", "IDLE", "FATAL"}
      BY <2>1 DEF CloseOld, EndClose, SoleInv, CallInv
    <3>2. Open' = {}
      <4>1. CASE CloseOld(c)
        BY <4>1 DEF CloseOld, SoleInv, TypeInv, TypeOK, CallInv, Goto
      <4>2. CASE EndClose(c)
        <5>1. pc'[c] = "idle" /\ status' # "STARTED"
          BY <4>2 DEF EndClose, SoleInv, TypeInv, TypeOK, Goto
        <5>2. QED BY <5>1 DEF SoleInv, CallInv
      <4>3. QED BY <2>1, <4>1, <4>2
    <3>3. QED BY <3>1, <3>2 DEF Contract!SwitchOff
  <2>2. CASE Relock(c)
    BY <1>2, <2>2 DEF Relock, SoleInv, CallInv
  <2>3. CASE StartPart(c) \/ StartFails(c)
    BY <2>3 DEF StartPart, StartFails, SoleInv, CallInv, Contract!SwitchParts
  <2>4. CASE StartDone(c)
    BY <2>4, OpenKept DEF StartDone
  <2>5. CASE FinishStart(c)
    BY <2>5, OpenKept DEF FinishStart, StatusAfterStart, SoleInv, TypeInv, TypeOK, CallInv,
                          Contract!Up, Contract!Fail
  <2>6. QED BY <1>4, <2>1, <2>2, <2>3, <2>4, <2>5 DEF Step
<1>5. QED
  BY <1>1, <1>3, <1>4

\* Called by one thread at a time, the service keeps the promise of ServiceContract,
\* on which hcore relies: it is up only with parts open and idle only with none.
THEOREM ServiceImplementsContract ==
    ASSUME ServiceAssumption, OneCaller
    PROVE  Spec => Contract!Spec
<1>1. Init => Contract!Init
  BY DEF Init, Contract!Init, Phase, On, Open, NewBox
<1>2. CASE Callers = {}
  <2>1. ~Next
    BY <1>2 DEF Next
  <2>2. UNCHANGED vars => UNCHANGED Contract!contractVars
    BY DEF vars, Contract!contractVars, Phase, On, Open
  <2>3. [Next]_vars => [Contract!Next]_(Contract!contractVars)
    BY <2>1, <2>2
  <2> QED
    BY <1>1, <2>3, PTL DEF Spec, Contract!Spec
<1>3. ASSUME NEW h \in Callers PROVE Spec => Contract!Spec
  <2>1. SoleInv(h) /\ SoleInv(h)' /\ [Next]_vars => [Contract!Next]_(Contract!contractVars)
    BY SoleContractStep DEF Next, OneCaller
  <2>2. Spec => []SoleInv(h)
    BY SoleInvariant
  <2> QED
    BY <1>1, <2>1, <2>2, PTL DEF Spec, Contract!Spec
<1>4. QED
  BY <1>2, <1>3

=============================================================================
