---------------------------- MODULE GroupsProofs ----------------------------
(***************************************************************************)
(* What MCGroups checks of a selector, of the checks of a URLTest group    *)
(* and of its loop, for every number of members, pickers, checkers,        *)
(* connections and loops, every tolerance and every idle timeout.          *)
(***************************************************************************)
EXTENDS MCGroups, WellFoundedInduction, TLAPS

-----------------------------------------------------------------------------
(***************************************************************************)
(* A selector.                                                             *)
(***************************************************************************)
PickPlaces == {"idle", "store", "interrupt", "ping", "test"}

\* A picker that has yet to ask for a test, of the selection as it will find it or
\* of the one it has loaded, which is still in force.
WillTest(p) ==
    \/ picking[p] \in {"store", "interrupt", "ping"}
    \/ picking[p] = "test" /\ pinged[p] = current

\* Whatever picks cross, the selection has been tested since it came into force or
\* will be: whoever brought it into force loads it again afterwards, and what it
\* finds then is either still in force or was replaced by another that does.
TestedInv ==
    /\ current \in Leaves /\ picking \in [Pickers -> PickPlaces]
    /\ pinged \in [Pickers -> Picked!Tags]
    /\ booted /\ current \in Pingable => current \in tested \/ \E p \in Pickers : WillTest(p)

\* With one picker, the cache file holds the selection except between the swap
\* and the store, and then what is stored is the selection; and what is loaded to
\* be tested stays the selection until it is.
PickedInv ==
    /\ want \in [Pickers -> Picked!Tags]
    /\ \A p \in Pickers : p # Picker \/ ~booted => picking[p] = "idle"
    /\ picking[Picker] = "store" => want[Picker] = current
    /\ picking[Picker] # "store" => Picked!StartFrom(cache) = current
    /\ picking[Picker] = "test" => pinged[Picker] = current
    /\ tested \subseteq {current}

LEMMA PickerIsOne == Picker \in Pickers
BY SelectorsAssumption DEF SelectorsAssumption, Picker

LEMMA StartsFromMember == \A tag : Picked!StartFrom(tag) \in Leaves
BY SelectorsAssumption DEF SelectorsAssumption, Picked!SelectorAssumption, Picked!StartFrom

\* Both instances of the selector move alike but for what they are allowed to.
LEMMA SelectorInit == Picked!Init => TestedInv /\ PickedInv
BY StartsFromMember, PickerIsOne
DEF Picked!Init, TestedInv, PickedInv, PickPlaces, Picked!Tags

LEMMA PickedPick ==
    ASSUME TestedInv, NEW p \in Pickers, NEW tag \in Picked!Tags, Picked!Pick(p, tag)
    PROVE  /\ TestedInv'
           /\ p = Picker /\ PickedInv => PickedInv'
<1>1. /\ booted /\ booted' /\ picking[p] = "idle" /\ want' = [want EXCEPT ![p] = tag]
      /\ cache' = cache /\ pinged' = pinged
      /\ \/ /\ picking' = [picking EXCEPT ![p] = "ping"]
            /\ current' = current /\ tested' = tested
         \/ /\ picking' = [picking EXCEPT ![p] = "store"]
            /\ current' = tag /\ tag \in Leaves /\ tested' = {}
  BY DEF Picked!Pick, Picked!Goto
<1>2. picking'[p] \in {"ping", "store"} /\ \A q \in Pickers \ {p} : picking'[q] = picking[q]
  BY <1>1 DEF TestedInv
<1>3. TestedInv'
  BY <1>1, <1>2 DEF TestedInv, PickPlaces, WillTest
<1>4. ASSUME p = Picker, PickedInv PROVE PickedInv'
  <2>1. want' \in [Pickers -> Picked!Tags] /\ want'[p] = tag
    BY <1>1, <1>4 DEF PickedInv
  <2>2. picking'[p] = "store" => want'[p] = current'
    BY <1>1, <2>1 DEF TestedInv
  <2>3. picking'[p] # "store" => Picked!StartFrom(cache') = current'
    BY <1>1, <1>4 DEF TestedInv, PickedInv
  <2>4. tested' \subseteq {current'}
    BY <1>1, <1>4 DEF PickedInv
  <2> QED
    BY <1>1, <1>2, <1>4, <2>1, <2>2, <2>3, <2>4 DEF PickedInv, Picked!StartFrom
<1> QED
  BY <1>3, <1>4

LEMMA PickedStep ==
    ASSUME TestedInv, NEW p \in Pickers, Picked!PickerStep(p)
    PROVE  /\ TestedInv'
           /\ p = Picker /\ PickedInv => PickedInv'
<1>1. CASE Picked!StoreSelected(p)
  <2>1. /\ picking[p] = "store" /\ picking' = [picking EXCEPT ![p] = "interrupt"]
        /\ cache' = want[p] /\ UNCHANGED <<current, booted, want, pinged, tested>>
    BY <1>1 DEF Picked!StoreSelected, Picked!Goto, Picked!Stored
  <2>2. picking'[p] = "interrupt" /\ \A q \in Pickers \ {p} : picking'[q] = picking[q]
    BY <2>1 DEF TestedInv
  <2>3. TestedInv'
    BY <2>1, <2>2 DEF TestedInv, PickPlaces, WillTest
  <2>4. ASSUME p = Picker, PickedInv PROVE PickedInv'
    BY <2>1, <2>2, <2>4 DEF TestedInv, PickedInv, Picked!StartFrom
  <2> QED
    BY <2>3, <2>4
<1>2. CASE Picked!Interrupt(p)
  <2>1. /\ picking[p] = "interrupt" /\ picking' = [picking EXCEPT ![p] = "ping"]
        /\ UNCHANGED <<current, booted, want, pinged, tested, cache>>
    BY <1>2 DEF Picked!Interrupt, Picked!AfterInterrupt, Picked!Goto
  <2>2. picking'[p] = "ping" /\ \A q \in Pickers \ {p} : picking'[q] = picking[q]
    BY <2>1 DEF TestedInv
  <2>3. TestedInv'
    BY <2>1, <2>2 DEF TestedInv, PickPlaces, WillTest
  <2>4. ASSUME p = Picker, PickedInv PROVE PickedInv'
    BY <2>1, <2>2, <2>4 DEF PickedInv, Picked!StartFrom
  <2> QED
    BY <2>3, <2>4
<1>3. CASE Picked!PingSelected(p)
  <2>1. /\ picking[p] = "ping" /\ picking' = [picking EXCEPT ![p] = "test"]
        /\ pinged' = [pinged EXCEPT ![p] = current]
        /\ UNCHANGED <<current, booted, want, tested, cache>>
    BY <1>3 DEF Picked!PingSelected, Picked!Goto
  <2>2. /\ picking'[p] = "test" /\ pinged'[p] = current
        /\ \A q \in Pickers \ {p} : picking'[q] = picking[q] /\ pinged'[q] = pinged[q]
    BY <2>1 DEF TestedInv
  <2>3. TestedInv'
    BY <2>1, <2>2 DEF TestedInv, PickPlaces, WillTest, Picked!Tags
  <2>4. ASSUME p = Picker, PickedInv PROVE PickedInv'
    BY <2>1, <2>2, <2>4 DEF PickedInv, Picked!StartFrom
  <2> QED
    BY <2>3, <2>4
<1>4. CASE Picked!TestNow(p)
  <2>1. /\ picking[p] = "test" /\ picking' = [picking EXCEPT ![p] = "idle"]
        /\ tested' = tested \cup ({pinged[p]} \cap Pingable)
        /\ want' = [want EXCEPT ![p] = Foreign] /\ pinged' = [pinged EXCEPT ![p] = Foreign]
        /\ UNCHANGED <<current, booted, cache>>
    BY <1>4 DEF Picked!TestNow, Picked!Goto, Picked!Tested
  <2>2. /\ picking'[p] = "idle"
        /\ \A q \in Pickers \ {p} : picking'[q] = picking[q] /\ pinged'[q] = pinged[q]
    BY <2>1 DEF TestedInv
  <2>3. TestedInv'
    BY <2>1, <2>2 DEF TestedInv, PickPlaces, WillTest, Picked!Tags
  <2>4. ASSUME p = Picker, PickedInv PROVE PickedInv'
    BY <2>1, <2>2, <2>4 DEF PickedInv, Picked!StartFrom, Picked!Tags
  <2> QED
    BY <2>3, <2>4
<1> QED
  BY <1>1, <1>2, <1>3, <1>4 DEF Picked!PickerStep

LEMMA PickedStart ==
    TestedInv /\ Picked!PostStart => TestedInv' /\ (PickedInv => PickedInv')
BY DEF Picked!PostStart, Picked!Tested, TestedInv, PickedInv, WillTest, Picked!StartFrom

LEMMA PickedKill ==
    TestedInv /\ Picked!Kill => TestedInv' /\ (PickedInv => PickedInv')
BY StartsFromMember, PickerIsOne
DEF Picked!Kill, TestedInv, PickedInv, PickPlaces, WillTest, Picked!StartFrom, Picked!Tags

\* The step of a selector whose cache may refuse a write.
LEMMA CrossedNext ==
    TestedInv /\ [Crossed!Next]_selectorVars => TestedInv'
<1> SUFFICES ASSUME TestedInv, [Crossed!Next]_selectorVars PROVE TestedInv'
  OBVIOUS
<1> USE DEF TestedInv, WillTest, PickPlaces
<1>1. CASE UNCHANGED selectorVars
  BY <1>1 DEF selectorVars
<1>2. CASE Crossed!PostStart
  BY <1>2 DEF Crossed!PostStart, Crossed!Tested
<1>3. CASE Crossed!Kill
  BY <1>3, SelectorsAssumption
  DEF Crossed!Kill, Crossed!StartFrom, SelectorsAssumption, Crossed!SelectorAssumption, Picked!Tags
<1>4. ASSUME NEW p \in Pickers, NEW tag \in Crossed!Tags, Crossed!Pick(p, tag) PROVE TestedInv'
  <2>1. /\ pinged' = pinged /\ picking[p] = "idle"
        /\ \/ /\ picking' = [picking EXCEPT ![p] = "ping"]
              /\ current' = current /\ tested' = tested /\ booted' = booted
           \/ picking' = [picking EXCEPT ![p] = "store"] /\ current' \in Leaves
    BY <1>4 DEF Crossed!Pick, Crossed!Goto
  <2>2. picking'[p] \in {"ping", "store"} /\ \A q \in Pickers \ {p} : picking'[q] = picking[q]
    BY <2>1
  <2> QED
    BY <2>1, <2>2
<1>5. ASSUME NEW p \in Pickers, Crossed!StoreSelected(p) \/ Crossed!Interrupt(p) PROVE TestedInv'
  <2>1. /\ picking[p] \in {"store", "interrupt"} /\ UNCHANGED <<current, booted, pinged, tested>>
        /\ \/ picking' = [picking EXCEPT ![p] = "interrupt"]
           \/ picking' = [picking EXCEPT ![p] = "ping"]
    BY <1>5 DEF Crossed!StoreSelected, Crossed!Interrupt, Crossed!AfterInterrupt, Crossed!Goto
  <2>2. /\ picking'[p] \in {"interrupt", "ping"}
        /\ \A q \in Pickers \ {p} : picking'[q] = picking[q]
    BY <2>1
  <2> QED
    BY <2>1, <2>2
<1>6. ASSUME NEW p \in Pickers, Crossed!PingSelected(p) PROVE TestedInv'
  <2>1. /\ picking[p] = "ping" /\ picking' = [picking EXCEPT ![p] = "test"]
        /\ pinged' = [pinged EXCEPT ![p] = current] /\ UNCHANGED <<current, booted, tested>>
    BY <1>6 DEF Crossed!PingSelected, Crossed!Goto
  <2>2. /\ picking'[p] = "test" /\ pinged'[p] = current
        /\ \A q \in Pickers \ {p} : picking'[q] = picking[q] /\ pinged'[q] = pinged[q]
    BY <2>1
  <2> QED
    BY <2>1, <2>2 DEF Picked!Tags
<1>7. ASSUME NEW p \in Pickers, Crossed!TestNow(p) PROVE TestedInv'
  <2>1. /\ picking[p] = "test" /\ picking' = [picking EXCEPT ![p] = "idle"]
        /\ tested' = tested \cup ({pinged[p]} \cap Pingable)
        /\ pinged' = [pinged EXCEPT ![p] = Foreign] /\ UNCHANGED <<current, booted>>
    BY <1>7 DEF Crossed!TestNow, Crossed!Goto, Crossed!Tested
  <2>2. /\ picking'[p] = "idle"
        /\ \A q \in Pickers \ {p} : picking'[q] = picking[q] /\ pinged'[q] = pinged[q]
    BY <2>1
  <2> QED
    BY <2>1, <2>2 DEF Picked!Tags
<1>8. ASSUME NEW c \in SelectorConns,
             \/ Crossed!LoadSelected(c) \/ Crossed!DialFails(c) \/ Crossed!NewConn(c)
             \/ Crossed!CloseConn(c)
      PROVE  TestedInv'
  BY <1>8 DEF Crossed!LoadSelected, Crossed!DialFails, Crossed!NewConn, Crossed!CloseConn, Crossed!Settle
<1> QED
  BY <1>1, <1>2, <1>3, <1>4, <1>5, <1>6, <1>7, <1>8 DEF Crossed!Next, Crossed!PickerStep

-----------------------------------------------------------------------------
(***************************************************************************)
(* The checks of a URLTest group.                                          *)
(***************************************************************************)
Delayed == Delays \cup {0, Checked!Failed}
Working == {"testing", "scanning", "interrupt"}

\* At most one checker is past the flag, and the flag is up while it is.
FlagHeld ==
    /\ pc \in [Checkers -> {"idle", "called"} \cup Working]
    /\ ~checking => \A k \in Checkers : pc[k] \notin Working
    /\ \A j, k \in Checkers : pc[j] \in Working /\ pc[k] \in Working => j = k

\* What the loop of Select has seen so far, as long as nothing it looks at
\* fails: it has the first of the lowest delays up to the tolerance, and has left
\* the selection it began with only for one better by more than the tolerance.
ScanSees(s) ==
    /\ s.net \in Checked!Nets /\ s.at \in 1..(N + 1)
    /\ s.best = 0 => s.delay = 0
    /\ s.best # 0 => s.best \in Checked!Supported(s.net)
    /\ (\A o \in Checked!Supported(s.net) : history[o] # Checked!Failed) =>
         /\ s.best # 0 => s.delay = history[s.best] /\ history[s.best] # 0
         /\ \A o \in Checked!Supported(s.net) : o < s.at /\ history[o] # 0 =>
              s.best # 0 /\ s.delay <= history[o] + Tolerance
         /\ selected[s.net] # 0 /\ history[selected[s.net]] # 0 /\ s.best # selected[s.net] =>
              s.best # 0 /\ s.delay + Tolerance < history[selected[s.net]]

CheckedInv ==
    /\ FlagHeld
    /\ history \in [Checked!Outbounds -> Delayed]
    /\ selected \in [Checked!Nets -> 0..N]
    /\ \A net \in Checked!Nets : selected[net] # 0 => selected[net] \in Checked!Supported(net)
    /\ scan \in [Checkers -> Checked!Scans]
    /\ \A k \in Checkers : pc[k] = "scanning" => ScanSees(scan[k])

LEMMA CheckedConstants ==
    /\ N \in Nat /\ Modulus \in Nat \ {0} /\ Tolerance \in Nat
    /\ Checked!Failed \in Nat /\ Delays \subseteq Nat \ {0}
    /\ \A d \in Delays : d # Checked!Failed /\ (d + Tolerance) % Modulus = d + Tolerance
    /\ \A net \in Checked!Nets : Checked!Supported(net) \subseteq 1..N
    /\ Boot \in Checkers
<1>1. /\ N \in Nat /\ Modulus \in Nat \ {0} /\ Tolerance \in Nat /\ Boot \in Checkers
      /\ Tcp \subseteq 1..N /\ Udp \subseteq 1..N
      /\ Delays \subseteq 1..(Modulus - 1 - 1) /\ \A d \in Delays : d + Tolerance < Modulus
  BY URLTestsAssumption
  DEF URLTestsAssumption, Checked!URLTestAssumption, Checked!Outbounds, Checked!Failed
<1>2. \A d \in Delays : d \in Nat \ {0} /\ d # Modulus - 1
  BY <1>1
<1>3. \A d \in Delays : (d + Tolerance) % Modulus = d + Tolerance
  BY <1>1, <1>2
<1>4. \A net \in Checked!Nets : Checked!Supported(net) \subseteq 1..N
  BY <1>1 DEF Checked!Supported
<1> QED
  BY <1>1, <1>2, <1>3, <1>4 DEF Checked!Failed

LEMMA DelayedIsNat == \A d \in Delayed : d \in 0..Checked!Failed
<1>1. Delays \subseteq 1..(Checked!Failed - 1) /\ Checked!Failed \in Nat
  BY CheckedConstants, URLTestsAssumption DEF URLTestsAssumption, Checked!URLTestAssumption
<1> QED
  BY <1>1 DEF Delayed

LEMMA CheckedInit == Checked!Init => CheckedInv
<1> SUFFICES ASSUME Checked!Init PROVE CheckedInv
  OBVIOUS
<1>1. FlagHeld
  BY DEF Checked!Init, FlagHeld, Working
<1>2. history \in [Checked!Outbounds -> Delayed] /\ selected \in [Checked!Nets -> 0..N]
  BY CheckedConstants DEF Checked!Init, Delayed
<1>3. [net |-> "tcp", at |-> 1, best |-> 0, delay |-> 0] \in Checked!Scans
  BY CheckedConstants DEF Checked!Scans, Checked!Nets
<1>4. scan \in [Checkers -> Checked!Scans]
  BY <1>3 DEF Checked!Init
<1>5. \A k \in Checkers : pc[k] # "scanning"
  BY DEF Checked!Init
<1> QED
  BY <1>1, <1>2, <1>4, <1>5 DEF CheckedInv, Checked!Init

\* A checker moves past the flag only when nobody holds it, and lets go of it
\* only when it comes back.
LEMMA FlagStays ==
    ASSUME FlagHeld, NEW k \in Checkers, NEW place \in {"idle", "called"} \cup Working,
           pc' = [pc EXCEPT ![k] = place],
           place \in Working => pc[k] \in Working \/ ~checking,
           \/ checking' = checking
           \/ checking' = TRUE
           \/ pc[k] \in Working /\ place \notin Working,
           place \in Working => checking'
    PROVE  FlagHeld'
<1>1. pc'[k] = place /\ \A j \in Checkers \ {k} : pc'[j] = pc[j]
  BY DEF FlagHeld
<1>2. pc' \in [Checkers -> {"idle", "called"} \cup Working]
  BY DEF FlagHeld
<1>3. ~checking' => \A j \in Checkers : pc'[j] \notin Working
  BY <1>1 DEF FlagHeld
<1>4. \A i, j \in Checkers : pc'[i] \in Working /\ pc'[j] \in Working => i = j
  BY <1>1 DEF FlagHeld
<1> QED
  BY <1>2, <1>3, <1>4 DEF FlagHeld

\* While Select looks, a delay changes only when a dial fails.
LEMMA ScanStays ==
    ASSUME CheckedInv, NEW s, ScanSees(s), selected' = selected,
           \A o \in Checked!Outbounds : history'[o] \in {history[o], Checked!Failed}
    PROVE  ScanSees(s)'
<1>1. /\ Checked!Supported(s.net) \subseteq Checked!Outbounds
      /\ selected[s.net] # 0 => selected[s.net] \in Checked!Supported(s.net)
      /\ s.best # 0 => s.best \in Checked!Supported(s.net)
  BY CheckedConstants DEF ScanSees, CheckedInv, Checked!Outbounds
<1>2. CASE \A o \in Checked!Supported(s.net) : history'[o] # Checked!Failed
  <2>1. \A o \in Checked!Supported(s.net) : history'[o] = history[o] /\ history[o] # Checked!Failed
    BY <1>1, <1>2
  <2> QED
    BY <1>1, <2>1 DEF ScanSees
<1>3. CASE ~(\A o \in Checked!Supported(s.net) : history'[o] # Checked!Failed)
  BY <1>3 DEF ScanSees
<1> QED
  BY <1>2, <1>3

LEMMA FirstScanSees ==
    ASSUME CheckedInv, NEW net \in Checked!Nets
    PROVE  Checked!FirstScan(net) \in Checked!Scans /\ ScanSees(Checked!FirstScan(net))
<1> DEFINE s == Checked!FirstScan(net)
           known == selected[net] # 0 /\ history[selected[net]] # 0
<1>1. s = [net |-> net, at |-> 1, best |-> IF known THEN selected[net] ELSE 0,
           delay |-> IF known THEN history[selected[net]] ELSE 0]
  BY DEF Checked!FirstScan
<1>2. /\ s.net = net /\ s.at = 1 /\ s.best = IF known THEN selected[net] ELSE 0
      /\ s.delay = IF known THEN history[selected[net]] ELSE 0
  BY <1>1
<1>3. /\ Checked!Supported(net) \subseteq 1..N /\ 1 \in 1..(N + 1)
      /\ selected[net] # 0 => selected[net] \in Checked!Supported(net) /\ selected[net] \in 1..N
  BY CheckedConstants DEF CheckedInv
<1>4. known => history[selected[net]] \in 0..Checked!Failed
  BY <1>3, DelayedIsNat DEF CheckedInv, Checked!Outbounds
<1>5. s \in Checked!Scans
  BY <1>1, <1>3, <1>4, CheckedConstants DEF Checked!Scans
<1> HIDE DEF s
<1>6. \A o \in Checked!Supported(net) : ~(o < 1)
  BY <1>3
<1>7. ScanSees(s)
  BY <1>2, <1>3, <1>6 DEF ScanSees
<1> QED
  BY <1>5, <1>7 DEF s

\* A step of a checker that leaves what Select reads as it was, or that is taken
\* when nobody scans.
LEMMA QuietStep ==
    ASSUME CheckedInv, FlagHeld', selected' = selected,
           history' \in [Checked!Outbounds -> Delayed],
           \A o \in Checked!Outbounds : history'[o] \in {history[o], Checked!Failed},
           scan' = scan, \A k \in Checkers : pc'[k] = "scanning" => pc[k] = "scanning"
    PROVE  CheckedInv'
<1>1. \A k \in Checkers : pc'[k] = "scanning" => ScanSees(scan[k])
  BY DEF CheckedInv
<1>2. \A k \in Checkers : pc'[k] = "scanning" => ScanSees(scan[k])'
  <2> SUFFICES ASSUME NEW k \in Checkers, pc'[k] = "scanning" PROVE ScanSees(scan[k])'
    OBVIOUS
  <2> PICK s : s = scan[k]
    OBVIOUS
  <2>1. ScanSees(s)
    BY <1>1
  <2>2. ScanSees(s)'
    BY <2>1, ScanStays
  <2> QED
    BY <2>2 DEF ScanSees
<1> QED
  BY <1>2 DEF CheckedInv

LEMMA CheckedCall ==
    ASSUME CheckedInv, NEW k \in Checkers, Checked!Call(k) \/ Checked!Refused(k)
    PROVE  CheckedInv'
<1>1. /\ UNCHANGED <<history, selected, scan, checking>> /\ pc[k] \in {"idle", "called"}
      /\ \E place \in {"idle", "called"} : pc' = [pc EXCEPT ![k] = place]
  BY DEF Checked!Call, Checked!Refused, Checked!Goto
<1> PICK place \in {"idle", "called"} : pc' = [pc EXCEPT ![k] = place]
  BY <1>1
<1>2. FlagHeld'
  BY <1>1, FlagStays DEF CheckedInv, Working
<1>3. \A j \in Checkers : pc'[j] = "scanning" => pc[j] = "scanning"
  BY DEF CheckedInv, FlagHeld
<1> QED
  BY <1>1, <1>2, <1>3, QuietStep DEF CheckedInv

LEMMA CheckedBegin ==
    ASSUME CheckedInv, NEW k \in Checkers, Checked!BeginTests(k)
    PROVE  CheckedInv'
<1>1. /\ UNCHANGED <<history, selected, scan>> /\ pc[k] = "called" /\ ~checking /\ checking'
      /\ checking' = TRUE /\ pc' = [pc EXCEPT ![k] = "testing"]
  BY DEF Checked!BeginTests, Checked!Goto, Checked!FirstChecker
<1>2. FlagHeld'
  BY <1>1, FlagStays DEF CheckedInv, Working
<1>3. \A j \in Checkers : pc'[j] = "scanning" => pc[j] = "scanning"
  BY <1>1 DEF CheckedInv, FlagHeld
<1> QED
  BY <1>1, <1>2, <1>3, QuietStep DEF CheckedInv

LEMMA CheckedTest ==
    ASSUME CheckedInv, NEW k \in Checkers, NEW o \in Checked!Outbounds, Checked!TestDone(k, o)
    PROVE  CheckedInv'
<1>1. /\ UNCHANGED <<selected, checking, pc, scan>> /\ pc[k] = "testing"
      /\ \E d \in Delays \cup {Checked!Failed} : history' = [history EXCEPT ![o] = d]
  BY DEF Checked!TestDone
<1>2. FlagHeld' /\ history' \in [Checked!Outbounds -> Delayed]
  BY <1>1 DEF CheckedInv, FlagHeld, Delayed
<1>3. \A j \in Checkers : pc'[j] # "scanning"
  BY <1>1 DEF CheckedInv, FlagHeld, Working
<1> QED
  BY <1>1, <1>2, <1>3 DEF CheckedInv

LEMMA CheckedUpdate ==
    ASSUME CheckedInv, NEW k \in Checkers, Checked!BeginUpdate(k)
    PROVE  CheckedInv'
<1>1. /\ UNCHANGED <<history, selected, checking>> /\ pc[k] = "testing"
      /\ pc' = [pc EXCEPT ![k] = "scanning"]
      /\ scan' = [scan EXCEPT ![k] = Checked!FirstScan("tcp")]
  BY DEF Checked!BeginUpdate, Checked!Goto
<1>2. FlagHeld'
  BY <1>1, FlagStays DEF CheckedInv, FlagHeld, Working
<1> PICK s : s = Checked!FirstScan("tcp")
  OBVIOUS
<1>3. s \in Checked!Scans /\ ScanSees(s)
  BY FirstScanSees DEF Checked!Nets
<1>4. scan' \in [Checkers -> Checked!Scans] /\ scan'[k] = s
  BY <1>1, <1>3 DEF CheckedInv
<1>5. \A j \in Checkers : pc'[j] = "scanning" => j = k
  BY <1>1, <1>2 DEF CheckedInv, FlagHeld, Working
<1>6. ScanSees(s)'
  BY <1>1, <1>3, ScanStays DEF CheckedInv
<1>7. \A j \in Checkers : pc'[j] = "scanning" => ScanSees(scan[j])'
  BY <1>4, <1>5, <1>6 DEF ScanSees
<1> QED
  BY <1>1, <1>2, <1>4, <1>7 DEF CheckedInv

LEMMA CheckedScan ==
    ASSUME CheckedInv, NEW k \in Checkers, Checked!ScanOne(k)
    PROVE  CheckedInv'
<1> PICK s : s = scan[k]
  OBVIOUS
<1> PICK better \in BOOLEAN :
      better <=> /\ s.at \in Checked!Supported(s.net) /\ history[s.at] # 0
                 /\ s.delay = 0 \/ s.delay > (history[s.at] + Tolerance) % Modulus
  OBVIOUS
<1> PICK t : t = [s EXCEPT !.at = s.at + 1, !.best = IF better THEN s.at ELSE s.best,
                           !.delay = IF better THEN history[s.at] ELSE s.delay]
  OBVIOUS
<1>1. /\ UNCHANGED <<history, selected, checking, pc>> /\ pc[k] = "scanning" /\ s.at <= N
      /\ scan' = [scan EXCEPT ![k] = t]
  BY DEF Checked!ScanOne, Checked!Better
<1>2. ScanSees(s) /\ s \in Checked!Scans /\ FlagHeld'
  BY <1>1 DEF CheckedInv, FlagHeld
<1>3. /\ s.net \in Checked!Nets /\ s.at \in 1..N /\ s.best \in 0..N /\ s.delay \in 0..Checked!Failed
      /\ N \in Nat /\ Tolerance \in Nat /\ Checked!Failed \in Nat
      /\ history[s.at] \in Delayed /\ history[s.at] \in 0..Checked!Failed
  BY <1>1, <1>2, CheckedConstants, DelayedIsNat DEF Checked!Scans, CheckedInv, Checked!Outbounds
<1>4. /\ t.net = s.net /\ t.at = s.at + 1 /\ t.best = IF better THEN s.at ELSE s.best
      /\ t.delay = IF better THEN history[s.at] ELSE s.delay
  BY <1>2 DEF Checked!Scans
<1>5. t \in Checked!Scans
  <2>1. s \in [net : Checked!Nets, at : 1..(N + 1), best : 0..N, delay : 0..Checked!Failed]
    BY <1>2 DEF Checked!Scans
  <2>2. t = [net |-> s.net, at |-> s.at + 1, best |-> IF better THEN s.at ELSE s.best,
             delay |-> IF better THEN history[s.at] ELSE s.delay]
    BY <2>1
  <2>3. /\ s.at + 1 \in 1..(N + 1) /\ (IF better THEN s.at ELSE s.best) \in 0..N
        /\ (IF better THEN history[s.at] ELSE s.delay) \in 0..Checked!Failed
    BY <1>3
  <2> QED
    BY <1>3, <2>2, <2>3 DEF Checked!Scans
<1>6. ScanSees(t)
  <2>1. t.net \in Checked!Nets /\ t.at \in 1..(N + 1)
    BY <1>3, <1>4
  <2>2. (t.best = 0 => t.delay = 0) /\ (t.best # 0 => t.best \in Checked!Supported(t.net))
    BY <1>2, <1>3, <1>4 DEF ScanSees
  <2>3. ASSUME \A o \in Checked!Supported(s.net) : history[o] # Checked!Failed
        PROVE  /\ t.best # 0 => t.delay = history[t.best] /\ history[t.best] # 0
               /\ \A o \in Checked!Supported(s.net) : o < t.at /\ history[o] # 0 =>
                    t.best # 0 /\ t.delay <= history[o] + Tolerance
               /\ selected[s.net] # 0 /\ history[selected[s.net]] # 0 /\ t.best # selected[s.net] =>
                    t.best # 0 /\ t.delay + Tolerance < history[selected[s.net]]
    <3>1. /\ s.best # 0 => s.delay = history[s.best] /\ history[s.best] # 0
          /\ \A o \in Checked!Supported(s.net) : o < s.at /\ history[o] # 0 =>
               s.best # 0 /\ s.delay <= history[o] + Tolerance
          /\ selected[s.net] # 0 /\ history[selected[s.net]] # 0 /\ s.best # selected[s.net] =>
               s.best # 0 /\ s.delay + Tolerance < history[selected[s.net]]
          /\ s.best = 0 => s.delay = 0
      BY <1>2, <2>3 DEF ScanSees
    <3>2. \A o \in Checked!Supported(s.net) : o \in 1..N /\ history[o] \in 0..Checked!Failed
      BY <1>3, CheckedConstants, DelayedIsNat DEF CheckedInv, Checked!Outbounds
    <3>3. selected[s.net] # 0 => history[selected[s.net]] \in 0..Checked!Failed
      BY <1>3, <3>2 DEF CheckedInv
    <3>4. CASE better
      <4>1. history[s.at] \in Delays
        BY <1>3, <2>3, <3>4 DEF Delayed
      <4>2. s.delay = 0 \/ s.delay > history[s.at] + Tolerance
        BY <3>4, <4>1, CheckedConstants
      <4>3. t.best = s.at /\ t.delay = history[s.at] /\ history[s.at] # 0
        BY <1>4, <3>4
      <4>4. \A o \in Checked!Supported(s.net) : o < t.at /\ history[o] # 0 =>
              t.best # 0 /\ t.delay <= history[o] + Tolerance
        BY <1>3, <1>4, <3>1, <3>2, <4>2, <4>3
      <4>5. selected[s.net] # 0 /\ history[selected[s.net]] # 0 /\ t.best # selected[s.net] =>
              t.best # 0 /\ t.delay + Tolerance < history[selected[s.net]]
        BY <1>3, <3>1, <3>3, <4>2, <4>3
      <4> QED
        BY <1>3, <4>3, <4>4, <4>5
    <3>5. CASE ~better
      <4>1. t.best = s.best /\ t.delay = s.delay
        BY <1>4, <3>5
      <4>2. s.at \in Checked!Supported(s.net) /\ history[s.at] # 0 =>
              s.best # 0 /\ s.delay <= history[s.at] + Tolerance
        <5>1. s.at \in Checked!Supported(s.net) /\ history[s.at] # 0 => history[s.at] \in Delays
          BY <1>3, <2>3 DEF Delayed
        <5>2. s.at \in Checked!Supported(s.net) /\ history[s.at] # 0 =>
                (history[s.at] + Tolerance) % Modulus = history[s.at] + Tolerance
          BY <5>1, CheckedConstants
        <5> QED
          BY <1>3, <3>1, <3>5, <5>2
      <4>3. \A o \in Checked!Supported(s.net) : o < t.at => o < s.at \/ o = s.at
        BY <1>3, <1>4, <3>2
      <4> QED
        BY <3>1, <4>1, <4>2, <4>3
    <3> QED
      BY <3>4, <3>5
  <2> QED
    BY <1>4, <2>1, <2>2, <2>3 DEF ScanSees
<1>7. ScanSees(t)'
  BY <1>1, <1>6, ScanStays DEF CheckedInv
<1>8. scan' \in [Checkers -> Checked!Scans] /\ scan'[k] = t
  BY <1>1, <1>5 DEF CheckedInv
<1>9. \A j \in Checkers : pc'[j] = "scanning" => j = k
  BY <1>1 DEF CheckedInv, FlagHeld, Working
<1>10. \A j \in Checkers : pc'[j] = "scanning" => ScanSees(scan[j])'
  BY <1>7, <1>8, <1>9 DEF ScanSees
<1> QED
  BY <1>1, <1>2, <1>8, <1>10 DEF CheckedInv

\* What Select falls back to is an outbound of the network, when there is one.
LEMMA FallbackIsSupported ==
    ASSUME NEW net \in Checked!Nets
    PROVE  Checked!Fallback(net) \in Checked!Supported(net) \cup {0}
<1>1. CASE Checked!Supported(net) = {}
  BY <1>1 DEF Checked!Fallback
<1>2. CASE Checked!Supported(net) # {}
  <2>1. Checked!Supported(net) \subseteq Nat
    BY CheckedConstants
  <2>2. PICK x \in Checked!Supported(net) :
          \A y \in Checked!Supported(net) : ~(<<y, x>> \in OpToRel(<, Nat))
    BY <1>2, <2>1, NatLessThanWellFounded, WFMin
  <2>5. \A y \in Checked!Supported(net) : ~(y < x)
    BY <2>1, <2>2 DEF OpToRel
  <2>3. \A y \in Checked!Supported(net) : x <= y
    BY <2>1, <2>5
  <2>4. (CHOOSE z \in Checked!Supported(net) : \A y \in Checked!Supported(net) : z <= y)
           \in Checked!Supported(net)
    BY <2>1, <2>3
  <2> QED
    BY <1>2, <2>4 DEF Checked!Fallback, Checked!Min
<1> QED
  BY <1>1, <1>2

LEMMA CheckedAssign ==
    ASSUME CheckedInv, NEW k \in Checkers, Checked!Assign(k)
    PROVE  CheckedInv'
<1> PICK s : s = scan[k]
  OBVIOUS
<1> PICK out : out = IF s.best # 0 THEN s.best ELSE Checked!Fallback(s.net)
  OBVIOUS
<1>1. /\ UNCHANGED <<history, checking>> /\ pc[k] = "scanning"
      /\ selected' \in {selected, [selected EXCEPT ![s.net] = out]}
      /\ \/ s.net = "tcp" /\ scan' = [scan EXCEPT ![k] = Checked!FirstScan("udp")] /\ pc' = pc
         \/ s.net # "tcp" /\ pc' = [pc EXCEPT ![k] = "interrupt"] /\ scan' = scan
  BY DEF Checked!Assign, Checked!Goto
<1>2. ScanSees(s) /\ s.net \in Checked!Nets
  BY <1>1 DEF CheckedInv, ScanSees
<1>3. out \in Checked!Supported(s.net) \cup {0}
  BY <1>2, FallbackIsSupported DEF ScanSees
<1>4. out \in 0..N
  BY <1>2, <1>3, CheckedConstants
<1>5. /\ selected' \in [Checked!Nets -> 0..N]
      /\ \A net \in Checked!Nets : selected'[net] # 0 => selected'[net] \in Checked!Supported(net)
      /\ \A net \in Checked!Nets \ {s.net} : selected'[net] = selected[net]
  BY <1>1, <1>2, <1>3, <1>4 DEF CheckedInv
<1>6. \A j \in Checkers : pc[j] = "scanning" => j = k
  BY <1>1 DEF CheckedInv, FlagHeld, Working
<1>7. FlagHeld'
  <2>1. CASE pc' = pc
    BY <1>1, <2>1 DEF CheckedInv, FlagHeld
  <2>2. CASE pc' = [pc EXCEPT ![k] = "interrupt"]
    BY <1>1, <2>2, FlagStays DEF CheckedInv, FlagHeld, Working
  <2> QED
    BY <1>1, <2>1, <2>2
<1>8. CASE s.net = "tcp"
  <2> PICK t : t = Checked!FirstScan("udp")
    OBVIOUS
  <2>1. t \in Checked!Scans /\ ScanSees(t) /\ t.net = "udp"
    BY FirstScanSees DEF Checked!Nets, Checked!FirstScan
  <2>2. selected'["udp"] = selected["udp"]
    BY <1>5, <1>8 DEF Checked!Nets
  <2>3. ScanSees(t)'
    BY <1>1, <2>1, <2>2 DEF ScanSees
  <2>4. scan' \in [Checkers -> Checked!Scans] /\ scan'[k] = t /\ pc' = pc
    BY <1>1, <1>8, <2>1 DEF CheckedInv
  <2>5. \A j \in Checkers : pc'[j] = "scanning" => ScanSees(scan[j])'
    BY <1>6, <2>3, <2>4 DEF ScanSees
  <2> QED
    BY <1>1, <1>5, <1>7, <2>4, <2>5 DEF CheckedInv
<1>9. CASE s.net # "tcp"
  <2>1. \A j \in Checkers : pc'[j] # "scanning"
    BY <1>1, <1>6, <1>9 DEF CheckedInv, FlagHeld
  <2> QED
    BY <1>1, <1>5, <1>7, <1>9, <2>1 DEF CheckedInv
<1> QED
  BY <1>8, <1>9

LEMMA CheckedInterrupt ==
    ASSUME CheckedInv, NEW k \in Checkers, Checked!Interrupt(k)
    PROVE  CheckedInv'
<1>1. /\ UNCHANGED <<history, selected, scan>> /\ pc[k] = "interrupt" /\ checking' = FALSE
      /\ pc' = [pc EXCEPT ![k] = "idle"]
  BY DEF Checked!Interrupt, Checked!Goto, Checked!CheckingAfter
<1>2. FlagHeld'
  BY <1>1, FlagStays DEF CheckedInv, FlagHeld, Working
<1>3. \A j \in Checkers : pc'[j] = "scanning" => pc[j] = "scanning"
  BY <1>1 DEF CheckedInv, FlagHeld
<1> QED
  BY <1>1, <1>2, <1>3, QuietStep DEF CheckedInv

\* Dials run beside the checks and may only spoil what they look at.
LEMMA CheckedConn ==
    ASSUME CheckedInv, NEW c \in Conns,
           \/ Checked!Dial(c) \/ Checked!DialFails(c) \/ Checked!NewConn(c)
           \/ Checked!CloseConn(c)
    PROVE  CheckedInv'
<1>1. /\ UNCHANGED <<selected, checking, pc, scan>>
      /\ history' = history \/ history' = [history EXCEPT ![via[c]] = Checked!Failed]
  BY DEF Checked!Dial, Checked!DialFails, Checked!NewConn, Checked!CloseConn, Checked!Settle
<1>2. /\ history' \in [Checked!Outbounds -> Delayed]
      /\ \A o \in Checked!Outbounds : history'[o] \in {history[o], Checked!Failed}
  BY <1>1 DEF CheckedInv, Delayed
<1>3. FlagHeld'
  BY <1>1 DEF CheckedInv, FlagHeld
<1> QED
  BY <1>1, <1>2, <1>3, QuietStep

LEMMA CheckedNext == CheckedInv /\ [Checked!Next]_checkVars => CheckedInv'
<1> SUFFICES ASSUME CheckedInv, [Checked!Next]_checkVars PROVE CheckedInv'
  OBVIOUS
<1>1. CASE UNCHANGED checkVars
  BY <1>1 DEF checkVars, CheckedInv, FlagHeld, ScanSees
<1>2. ASSUME NEW k \in Checkers, Checked!Call(k) \/ Checked!CheckerStep(k) PROVE CheckedInv'
  BY <1>2, CheckedCall, CheckedBegin, CheckedTest, CheckedUpdate, CheckedScan, CheckedAssign,
     CheckedInterrupt DEF Checked!CheckerStep
<1>3. ASSUME NEW c \in Conns,
             \/ Checked!Dial(c) \/ Checked!DialFails(c) \/ Checked!NewConn(c)
             \/ Checked!CloseConn(c)
      PROVE  CheckedInv'
  BY <1>3, CheckedConn
<1> QED
  BY <1>1, <1>2, <1>3 DEF Checked!Next

LEMMA CheckedHolds == CheckedInv => SelectedNearBest
<1> SUFFICES ASSUME CheckedInv PROVE Checked!SelectedNearBest /\ Checked!OneChecker
  BY DEF SelectedNearBest
<1>1. Checked!OneChecker
  BY DEF Checked!OneChecker, CheckedInv, FlagHeld, Working
<1>2. ASSUME NEW k \in Checkers, pc[k] = "scanning", scan[k].at = N + 1,
             \A o \in Checked!Supported(scan[k].net) : history[o] # Checked!Failed
      PROVE  /\ \A o \in Checked!Supported(scan[k].net) :
                  history[o] # 0 => scan[k].delay <= history[o] + Tolerance
             /\ /\ scan[k].best # 0 /\ selected[scan[k].net] \notin {0, scan[k].best}
                /\ history[selected[scan[k].net]] # 0
                => history[scan[k].best] + Tolerance < history[selected[scan[k].net]]
  <2>1. ScanSees(scan[k])
    BY <1>2 DEF CheckedInv
  <2>2. \A o \in Checked!Supported(scan[k].net) : o < N + 1
    BY <2>1, CheckedConstants DEF ScanSees
  <2> QED
    BY <1>2, <2>1, <2>2 DEF ScanSees
<1> QED
  BY <1>1, <1>2 DEF Checked!SelectedNearBest

-----------------------------------------------------------------------------
(***************************************************************************)
(* The loop of a URLTest group.                                            *)
(***************************************************************************)
LoopPlaces == {"none", "begin", "wait", "check", "idle", "done"}

LoopTypes ==
    /\ started \in BOOLEAN /\ closed \in BOOLEAN /\ closing \in BOOLEAN
    /\ ticker \in Nat
    /\ loop \in [Looped!Loops -> LoopPlaces]
    /\ active \in Nat /\ active <= Looped!Beyond
    /\ touched \in Nat /\ touched <= Looped!Beyond

\* Close stops whatever ticks, and from then on nothing ticks again; and once a
\* loop has begun, lastActive is at most one interval older than the last touch:
\* the touch that made the ticker is the only one that does not store it.
LoopedInv ==
    /\ LoopTypes
    /\ Looped!LoopOwnsTicker
    /\ closing => closed
    /\ closed => running = {} /\ registered = {}
    /\ \A i \in Looped!Loops : loop[i] \in {"wait", "check", "idle"} => active <= touched + Interval

LEMMA LoopConstants ==
    /\ Interval \in Nat /\ IdleTimeout \in Nat /\ Interval <= IdleTimeout
    /\ Looped!Beyond = IdleTimeout + 1
    /\ \A i \in Looped!Loops : i \in Nat /\ i # 0
BY URLTestsAssumption
DEF URLTestsAssumption, Looped!LoopAssumption, Looped!Beyond, Looped!Loops

LEMMA LoopedInit == Looped!Init => LoopedInv
<1> SUFFICES ASSUME Looped!Init PROVE LoopedInv
  OBVIOUS
<1>1. Looped!Beyond \in Nat /\ Looped!Beyond <= Looped!Beyond
  BY LoopConstants
<1>2. LoopTypes
  BY <1>1 DEF Looped!Init, LoopTypes, LoopPlaces
<1>3. Looped!LoopOwnsTicker
  BY DEF Looped!Init, Looped!LoopOwnsTicker, Looped!Live
<1> QED
  BY <1>2, <1>3 DEF Looped!Init, LoopedInv

\* The goroutine of a loop goes on to a place where it still owns the ticker.
LEMMA LoopGoesOn ==
    ASSUME LoopedInv, NEW i \in Looped!Loops, i \in Looped!Live,
           NEW place \in {"wait", "check", "idle"}, loop' = [loop EXCEPT ![i] = place],
           UNCHANGED <<started, closed, closing, ticker, running, registered, touched>>,
           active' \in Nat, active' <= active, active' <= touched + Interval
    PROVE  LoopedInv'
<1>1. loop' \in [Looped!Loops -> LoopPlaces] /\ loop'[i] = place
      /\ \A j \in Looped!Loops \ {i} : loop'[j] = loop[j]
  BY DEF LoopedInv, LoopTypes, LoopPlaces
<1>2. Looped!Live' = Looped!Live
  BY <1>1 DEF Looped!Live
<1>3. ticker = i /\ \A j \in Looped!Live : j = i
  BY DEF LoopedInv, Looped!LoopOwnsTicker
<1>4. Looped!LoopOwnsTicker'
  BY <1>2 DEF LoopedInv, Looped!LoopOwnsTicker
<1>5. \A j \in Looped!Loops : loop'[j] \in {"wait", "check", "idle"} => j = i
  <2> SUFFICES ASSUME NEW j \in Looped!Loops, loop'[j] \in {"wait", "check", "idle"} PROVE j = i
    OBVIOUS
  <2>1. j \in Looped!Live'
    BY DEF Looped!Live
  <2> QED
    BY <1>2, <1>3, <2>1
<1>6. LoopTypes'
  BY <1>1, LoopConstants DEF LoopedInv, LoopTypes
<1> QED
  BY <1>4, <1>5, <1>6 DEF LoopedInv

\* A loop that ends leaves no ticker, or finds the group closed.
LEMMA LoopEnds ==
    ASSUME LoopedInv, NEW i \in Looped!Loops, i \in Looped!Live,
           loop' = [loop EXCEPT ![i] = "done"],
           UNCHANGED <<started, closed, closing, active, touched>>,
           \/ closed /\ UNCHANGED <<ticker, running, registered>>
           \/ /\ ticker' = 0 /\ running' = running \ {ticker}
              /\ registered' = registered \ {ticker}
    PROVE  LoopedInv'
<1>1. loop' \in [Looped!Loops -> LoopPlaces] /\ loop'[i] = "done"
      /\ \A j \in Looped!Loops \ {i} : loop'[j] = loop[j]
  BY DEF LoopedInv, LoopTypes, LoopPlaces
<1>2. ticker = i /\ i # 0 /\ \A j \in Looped!Live : j = i
  BY LoopConstants DEF LoopedInv, Looped!LoopOwnsTicker
<1>3. Looped!Live' = {}
  BY <1>1, <1>2 DEF Looped!Live
<1>4. Looped!LoopOwnsTicker'
  BY <1>2, <1>3 DEF LoopedInv, Looped!LoopOwnsTicker
<1>5. LoopTypes'
  BY <1>1 DEF LoopedInv, LoopTypes
<1>6. closed' => running' = {} /\ registered' = {}
  BY DEF LoopedInv
<1>7. \A j \in Looped!Loops : loop'[j] \notin {"wait", "check", "idle"}
  BY <1>3 DEF Looped!Live
<1> QED
  BY <1>4, <1>5, <1>6, <1>7 DEF LoopedInv

LEMMA LoopedStart ==
    LoopedInv /\ Looped!PostStart => LoopedInv'
<1> SUFFICES ASSUME LoopedInv, Looped!PostStart PROVE LoopedInv'
  OBVIOUS
<1>1. /\ started' = TRUE /\ active' = 0
      /\ UNCHANGED <<closed, closing, ticker, running, registered, loop, touched>>
  BY DEF Looped!PostStart
<1>2. LoopTypes' /\ 0 <= touched + Interval
  BY <1>1, LoopConstants DEF LoopedInv, LoopTypes
<1>3. Looped!LoopOwnsTicker'
  BY <1>1 DEF LoopedInv, Looped!LoopOwnsTicker, Looped!Live
<1> QED
  BY <1>1, <1>2, <1>3 DEF LoopedInv

LEMMA LoopedTouch ==
    LoopedInv /\ Looped!TouchRunning => LoopedInv'
<1> SUFFICES ASSUME LoopedInv, Looped!TouchRunning PROVE LoopedInv'
  OBVIOUS
<1>1. /\ touched' = 0 /\ active' = 0
      /\ UNCHANGED <<started, closed, closing, ticker, running, registered, loop>>
  BY DEF Looped!TouchRunning, Looped!MayTouch, Looped!ActiveAfterTouch
<1>2. LoopTypes' /\ 0 <= 0 + Interval
  BY <1>1, LoopConstants DEF LoopedInv, LoopTypes
<1>3. Looped!LoopOwnsTicker'
  BY <1>1 DEF LoopedInv, Looped!LoopOwnsTicker, Looped!Live
<1> QED
  BY <1>1, <1>2, <1>3 DEF LoopedInv

\* The touch that makes a ticker finds no loop, and its own has not read
\* lastActive yet.
LEMMA LoopedTouchIdle ==
    LoopedInv /\ Looped!TouchIdle => LoopedInv'
<1> SUFFICES ASSUME LoopedInv, Looped!TouchIdle PROVE LoopedInv'
  OBVIOUS
<1>1. /\ ~closed /\ ticker = 0 /\ touched' = 0
      /\ UNCHANGED <<started, closed, closing, active>>
  BY DEF Looped!TouchIdle, Looped!MayTouch
<1>2. PICK i \in Looped!Loops : /\ ticker' = i /\ running' = running \cup {i}
                                /\ registered' = registered \cup {i}
                                /\ loop' = [loop EXCEPT ![i] = "begin"]
  BY DEF Looped!TouchIdle, Looped!Goto
<1>3. Looped!Live = {} /\ running = {} /\ registered = {}
  BY <1>1, LoopConstants DEF LoopedInv, Looped!LoopOwnsTicker, Looped!Live
<1>4. loop' \in [Looped!Loops -> LoopPlaces] /\ loop'[i] = "begin"
      /\ \A j \in Looped!Loops \ {i} : loop'[j] = loop[j]
  BY <1>2 DEF LoopedInv, LoopTypes, LoopPlaces
<1>5. Looped!Live' = {i}
  BY <1>3, <1>4 DEF Looped!Live
<1>6. Looped!LoopOwnsTicker'
  BY <1>2, <1>3, <1>5, LoopConstants DEF Looped!LoopOwnsTicker
<1>7. LoopTypes'
  BY <1>1, <1>2, <1>4, LoopConstants DEF LoopedInv, LoopTypes
<1>8. \A j \in Looped!Loops : loop'[j] \notin {"wait", "check", "idle"}
  BY <1>4, <1>5 DEF Looped!Live
<1> QED
  BY <1>1, <1>6, <1>7, <1>8 DEF LoopedInv

LEMMA LoopedClose ==
    LoopedInv /\ Looped!Close => LoopedInv'
<1> SUFFICES ASSUME LoopedInv, Looped!Close PROVE LoopedInv'
  OBVIOUS
<1>1. /\ ~closed /\ closed' = TRUE /\ closing' = (ticker # 0)
      /\ running' = running \ {ticker} /\ registered' = registered \ {ticker}
      /\ UNCHANGED <<started, ticker, loop, active, touched>>
  BY DEF Looped!Close
<1>2. running' = {} /\ registered' = {}
  BY <1>1 DEF LoopedInv, Looped!LoopOwnsTicker
<1>3. Looped!LoopOwnsTicker'
  BY <1>1, <1>2 DEF LoopedInv, Looped!LoopOwnsTicker, Looped!Live
<1>4. LoopTypes'
  BY <1>1 DEF LoopedInv, LoopTypes
<1> QED
  BY <1>1, <1>2, <1>3, <1>4 DEF LoopedInv

\* Ages grow together until both are beyond the idle timeout.
LEMMA LoopedPass ==
    LoopedInv /\ Looped!Pass => LoopedInv'
<1> SUFFICES ASSUME LoopedInv, Looped!Pass PROVE LoopedInv'
  OBVIOUS
<1>1. UNCHANGED <<started, closed, closing, ticker, running, registered, loop>>
  BY DEF Looped!Pass
<1>2. /\ active' = IF active = Looped!Beyond THEN active ELSE active + 1
      /\ touched' = IF touched = Looped!Beyond THEN touched ELSE touched + 1
  BY DEF Looped!Pass, Looped!Older
<1>3. /\ active \in Nat /\ touched \in Nat /\ active <= Looped!Beyond /\ touched <= Looped!Beyond
      /\ Interval \in Nat /\ Looped!Beyond \in Nat
  BY LoopConstants DEF LoopedInv, LoopTypes
<1>4. /\ active' \in Nat /\ touched' \in Nat
      /\ active' <= Looped!Beyond /\ touched' <= Looped!Beyond
      /\ active <= touched + Interval => active' <= touched' + Interval
  BY <1>2, <1>3
<1>5. LoopTypes'
  BY <1>1, <1>4, LoopConstants DEF LoopedInv, LoopTypes, Looped!Beyond
<1>6. Looped!LoopOwnsTicker'
  BY <1>1 DEF LoopedInv, Looped!LoopOwnsTicker, Looped!Live
<1> QED
  BY <1>1, <1>4, <1>5, <1>6 DEF LoopedInv

LEMMA LoopedLoop ==
    ASSUME LoopedInv, NEW i \in Looped!Loops, Looped!LoopStep(i)
    PROVE  /\ LoopedInv'
           /\ \A j \in Looped!Loops :
                 loop[j] = "wait" /\ loop'[j] = "idle" => touched + Interval > IdleTimeout
<1> USE DEF Looped!Goto
<1>1. /\ active \in Nat /\ touched \in Nat /\ Interval \in Nat /\ IdleTimeout \in Nat
      /\ loop \in [Looped!Loops -> LoopPlaces]
      /\ loop[i] \in {"wait", "check", "idle"} => active <= touched + Interval
  BY LoopConstants DEF LoopedInv, LoopTypes
<1>2. loop[i] \in {"begin", "wait", "check", "idle"} => i \in Looped!Live
  BY DEF Looped!Live
<1>3. CASE Looped!LoopBegin(i)
  <2>1. /\ loop[i] = "begin"
        /\ UNCHANGED <<started, closed, closing, ticker, running, registered, touched>>
        /\ \/ active' = 0 /\ loop' = [loop EXCEPT ![i] = "check"]
           \/ active <= Interval /\ active' = active /\ loop' = [loop EXCEPT ![i] = "wait"]
    BY <1>1, <1>3 DEF Looped!LoopBegin
  <2>2. active' \in Nat /\ active' <= active /\ active' <= touched + Interval
    BY <1>1, <2>1
  <2>3. LoopedInv'
    BY <1>2, <2>1, <2>2, LoopGoesOn
  <2> QED
    BY <1>1, <2>1, <2>3
<1>4. CASE Looped!CheckDone(i)
  <2>1. /\ loop[i] = "check" /\ loop' = [loop EXCEPT ![i] = "wait"]
        /\ UNCHANGED <<started, closed, closing, ticker, running, registered, active, touched>>
    BY <1>4 DEF Looped!CheckDone, Looped!ActiveAfterCheck
  <2>2. active' \in Nat /\ active' <= active /\ active' <= touched + Interval
    BY <1>1, <2>1
  <2>3. LoopedInv'
    BY <1>2, <2>1, <2>2, LoopGoesOn
  <2> QED
    BY <1>1, <2>1, <2>3
<1>5. CASE Looped!LoopClosed(i)
  <2>1. /\ loop[i] = "wait" /\ closing /\ loop' = [loop EXCEPT ![i] = "done"]
        /\ UNCHANGED <<started, closed, closing, ticker, running, registered, active, touched>>
    BY <1>5 DEF Looped!LoopClosed
  <2>2. LoopedInv'
    BY <1>2, <2>1, LoopEnds DEF LoopedInv
  <2> QED
    BY <1>1, <2>1, <2>2
<1>6. CASE Looped!LoopTick(i)
  <2>1. /\ loop[i] = "wait"
        /\ loop' = [loop EXCEPT ![i] = IF active > IdleTimeout THEN "idle" ELSE "check"]
        /\ UNCHANGED <<started, closed, closing, ticker, running, registered, active, touched>>
    BY <1>6 DEF Looped!LoopTick
  <2> PICK place \in {"wait", "check", "idle"} :
        place = IF active > IdleTimeout THEN "idle" ELSE "check"
    OBVIOUS
  <2>2. LoopedInv'
    <3>1. loop' = [loop EXCEPT ![i] = place] /\ i \in Looped!Live
      BY <1>2, <2>1
    <3>2. active' \in Nat /\ active' <= active /\ active' <= touched + Interval
      BY <1>1, <2>1
    <3> QED
      BY <2>1, <3>1, <3>2, LoopGoesOn
  <2>3. \A j \in Looped!Loops : loop[j] = "wait" /\ loop'[j] = "idle" => active > IdleTimeout
    BY <1>1, <2>1
  <2> QED
    BY <1>1, <2>1, <2>2, <2>3
<1>7. CASE Looped!LoopStop(i)
  <2>1. /\ loop[i] = "idle" /\ loop' = [loop EXCEPT ![i] = "done"]
        /\ ticker' = 0 /\ running' = running \ {ticker} /\ registered' = registered \ {ticker}
        /\ UNCHANGED <<started, closed, closing, active, touched>>
    BY <1>7 DEF Looped!LoopStop, Looped!TickerAfterStop, Looped!CallbacksAfterStop
  <2>2. LoopedInv'
    BY <1>2, <2>1, LoopEnds
  <2> QED
    BY <1>1, <2>1, <2>2
<1> QED
  BY <1>3, <1>4, <1>5, <1>6, <1>7 DEF Looped!LoopStep

LEMMA LoopedNext ==
    LoopedInv /\ [Looped!Next]_loopVars =>
        /\ LoopedInv'
        /\ \A j \in Looped!Loops :
              loop[j] = "wait" /\ loop'[j] = "idle" => touched + Interval > IdleTimeout
<1> SUFFICES ASSUME LoopedInv, [Looped!Next]_loopVars
             PROVE  /\ LoopedInv'
                    /\ \A j \in Looped!Loops :
                          loop[j] = "wait" /\ loop'[j] = "idle" => touched + Interval > IdleTimeout
  OBVIOUS
<1>1. CASE UNCHANGED loopVars
  BY <1>1 DEF loopVars, LoopedInv, LoopTypes, Looped!LoopOwnsTicker, Looped!Live
<1>2. CASE Looped!PostStart \/ Looped!TouchRunning \/ Looped!Close \/ Looped!Pass
  <2>1. LoopedInv'
    BY <1>2, LoopedStart, LoopedTouch, LoopedClose, LoopedPass
  <2>2. loop' = loop
    BY <1>2 DEF Looped!PostStart, Looped!TouchRunning, Looped!Close, Looped!Pass
  <2> QED
    BY <2>1, <2>2
<1>3. CASE Looped!TouchIdle
  <2>1. \A j \in Looped!Loops : loop'[j] \in {loop[j], "begin"}
    BY <1>3 DEF Looped!TouchIdle, Looped!Goto, LoopedInv, LoopTypes
  <2> QED
    BY <1>3, <2>1, LoopedTouchIdle
<1>4. ASSUME NEW i \in Looped!Loops, Looped!LoopStep(i)
      PROVE  /\ LoopedInv'
             /\ \A j \in Looped!Loops :
                   loop[j] = "wait" /\ loop'[j] = "idle" => touched + Interval > IdleTimeout
  BY <1>4, LoopedLoop
<1>5. ASSUME NEW i \in Looped!Loops, Looped!Fire(i)
      PROVE  LoopedInv' /\ loop' = loop
  BY <1>5 DEF Looped!Fire, LoopedInv, LoopTypes, Looped!LoopOwnsTicker, Looped!Live
<1> QED
  BY <1>1, <1>2, <1>3, <1>4, <1>5 DEF Looped!Next

-----------------------------------------------------------------------------
(***************************************************************************)
(* The parts side by side: one moves and the others stay as they were.     *)
(***************************************************************************)
GroupsInv ==
    /\ TestedInv
    /\ part = "picked" => PickedInv
    /\ CheckedInv
    /\ LoopedInv

LEMMA SelectorRests ==
    /\ TestedInv /\ UNCHANGED selectorVars => TestedInv'
    /\ PickedInv /\ UNCHANGED selectorVars => PickedInv'
BY DEF selectorVars, TestedInv, PickedInv, WillTest, Picked!StartFrom

LEMMA SelectorPicked ==
    ASSUME TestedInv, part = "picked", SelectorMoves
    PROVE  TestedInv' /\ (PickedInv => PickedInv')
BY PickerIsOne, PickedStart, PickedKill, PickedPick, PickedStep DEF SelectorMoves

LEMMA GroupsInit == Init => GroupsInv
BY SelectorInit, CheckedInit, LoopedInit DEF Init, GroupsInv

LEMMA GroupsNext == GroupsInv /\ [Next]_vars => GroupsInv'
<1> SUFFICES ASSUME GroupsInv, [Next]_vars PROVE GroupsInv'
  OBVIOUS
<1>1. part' = part
  BY DEF Next, vars
<1>2. TestedInv' /\ (part = "picked" => PickedInv')
  <2>1. CASE UNCHANGED selectorVars
    BY <2>1, SelectorRests DEF GroupsInv
  <2>2. CASE part = "picked" /\ SelectorMoves
    BY <2>2, SelectorPicked DEF GroupsInv
  <2>3. CASE part = "crossed" /\ Crossed!Next
    BY <2>3, CrossedNext DEF GroupsInv
  <2> QED
    BY <2>1, <2>2, <2>3 DEF Next, SelectorMoves, vars
<1>3. CheckedInv'
  <2>1. [Checked!Next]_checkVars
    BY DEF Next, vars
  <2> QED
    BY <2>1, CheckedNext DEF GroupsInv
<1>4. LoopedInv'
  <2>1. [Looped!Next]_loopVars
    BY DEF Next, vars
  <2> QED
    BY <2>1, LoopedNext DEF GroupsInv
<1> QED
  BY <1>1, <1>2, <1>3, <1>4 DEF GroupsInv

THEOREM GroupsHold == FairSpec => []GroupsInv
<1> QED
  BY GroupsInit, GroupsNext, PTL DEF FairSpec

\* With one pick at a time a restart after a pick comes back to the selection in
\* force (StoreSelected, LoadSelected), and nothing else has been tested since it
\* came into force; and when picks cross, a test of the selection in force is asked
\* for after it came into force, by the end of the last of them (pingSelected).
THEOREM PicksTakeHold == FairSpec => []PickTakesHold
<1>1. GroupsInv => PickTakesHold
  <2> SUFFICES ASSUME GroupsInv PROVE PickTakesHold
    OBVIOUS
  <2>1. Picked!SelectedIsTested
    BY DEF GroupsInv, TestedInv, WillTest, Picked!SelectedIsTested, Picked!Quiet
  <2>2. part = "picked" => Picked!RestartKeepsSelection /\ Picked!OnlySelectedTested
    BY PickerIsOne
    DEF GroupsInv, PickedInv, Picked!RestartKeepsSelection, Picked!OnlySelectedTested, Picked!Quiet
  <2> QED
    BY <2>1, <2>2 DEF PickTakesHold
<1> QED
  BY <1>1, GroupsHold, PTL

\* A check selects within the tolerance of the best, and replaces an outbound with
\* a history only for one better by more than it, while dials of any number of
\* connections go on beside it; and no two checks run at once (Select,
\* checking.Swap).
THEOREM SelectsNearBest == FairSpec => []SelectedNearBest
<1>1. GroupsInv => SelectedNearBest
  BY CheckedHolds DEF GroupsInv
<1> QED
  BY <1>1, GroupsHold, PTL

\* Until the URLTest group is closed, a ticker, its loop and its pause callback
\* come and go together (Touch, Close, loopCheck).
THEOREM LoopKeepsTicker == FairSpec => []LoopOwnsTicker
<1>1. GroupsInv => LoopOwnsTicker
  BY DEF GroupsInv, LoopedInv, LoopOwnsTicker
<1> QED
  BY <1>1, GroupsHold, PTL

\* The loop decides to stop only when nothing has touched the group for the idle
\* timeout less one interval (Touch, lastActive, loopCheck).
THEOREM LoopStopsOnlyIdle == FairSpec => StopsOnlyIdle
<1>1. GroupsInv /\ [Next]_vars =>
        [\A i \in Looped!Loops :
            loop[i] = "wait" /\ loop'[i] = "idle" => touched + Interval > IdleTimeout]_(Looped!vars)
  <2> SUFFICES ASSUME GroupsInv, [Next]_vars
               PROVE  \A i \in Looped!Loops :
                        loop[i] = "wait" /\ loop'[i] = "idle" => touched + Interval > IdleTimeout
    OBVIOUS
  <2>1. [Looped!Next]_loopVars
    BY DEF Next, vars
  <2> QED
    BY <2>1, LoopedNext DEF GroupsInv
<1> QED
  BY <1>1, GroupsHold, PTL DEF FairSpec, StopsOnlyIdle, Looped!StopsOnlyIdle
=============================================================================
