---------------------------- MODULE AccountProofs ----------------------------
(***************************************************************************)
(* What MCAccount checks, for every value of its constants: any number of  *)
(* subscriptions, titles, callers, documents, downloads, hosts and paths.  *)
(* One inductive invariant per part, each with its own lemmas; the last    *)
(* section puts the parts together.                                        *)
(***************************************************************************)
EXTENDS MCAccount, SequenceTheorems, FiniteSetTheorems, WellFoundedInduction, TLAPS

-----------------------------------------------------------------------------
(***************************************************************************)
(* The origin document, with calls that cross.                             *)
(***************************************************************************)
Pending == [what : {"config", "pool"}, by : Callers]
Queue == Seq(Pending)

\* A call that is under way has one write in the queue, and no other has one.
OneWriteEach ==
    /\ doing \in [Callers -> Origin!Documents \cup {Origin!NoDocument}]
    /\ writes \in Queue
    /\ \A i, j \in 1..Len(writes) : writes[i].by = writes[j].by => i = j
    /\ \A i \in 1..Len(writes) : doing[writes[i].by] # Origin!NoDocument
    /\ \A c \in Callers :
         doing[c] # Origin!NoDocument => \E i \in 1..Len(writes) : writes[i].by = c

\* The last endpoint pool to be written is that of the document on disk; if
\* none is to be written, memory has the document on disk.
LastPoolIsStored ==
    /\ \A i \in 1..Len(writes) :
         /\ writes[i].what = "pool"
         /\ \A j \in 1..Len(writes) : writes[j].what = "pool" => j <= i
         => stored = doing[writes[i].by]
    /\ (\A i \in 1..Len(writes) : writes[i].what # "pool") => stored = config

OriginInv ==
    /\ OneWriteEach /\ LastPoolIsStored
    /\ poolLost \/ pool = config
    /\ poolLost \in BOOLEAN

\* Who waits for a write is a caller.
LEMMA WriterIsCaller == ASSUME writes \in Queue PROVE \A i \in 1..Len(writes) : writes[i].by \in Callers
<1> SUFFICES ASSUME NEW i \in 1..Len(writes) PROVE writes[i].by \in Callers
  OBVIOUS
<1>1. writes[i] \in Pending
  BY ElementOfSeq DEF Queue
<1> QED
  BY <1>1 DEF Pending

\* The call at the head of the queue is under way, and the rest of the queue
\* is what comes after it.
LEMMA HeadFacts ==
    ASSUME writes \in Queue, writes # <<>>
    PROVE  /\ Len(writes) \in Nat \ {0} /\ Tail(writes) \in Queue
           /\ Head(writes) = writes[1] /\ writes[1].by \in Callers
           /\ Len(Tail(writes)) = Len(writes) - 1
           /\ \A i \in 1..Len(Tail(writes)) : Tail(writes)[i] = writes[i + 1]
           /\ \A j \in 2..Len(writes) : j - 1 \in 1..Len(Tail(writes)) /\ writes[j] = Tail(writes)[j - 1]
           /\ \A i \in 1..Len(writes) : writes[i].by \in Callers
<1>1. /\ Len(writes) \in Nat \ {0} /\ Tail(writes) \in Queue
      /\ Head(writes) = writes[1] /\ Len(Tail(writes)) = Len(writes) - 1
      /\ \A i \in 1..Len(Tail(writes)) : Tail(writes)[i] = writes[i + 1]
  BY HeadTailProperties DEF Queue
<1>2. ASSUME NEW j \in 2..Len(writes)
      PROVE  j - 1 \in 1..Len(Tail(writes)) /\ writes[j] = Tail(writes)[j - 1]
  <2>1. j - 1 \in 1..Len(Tail(writes)) /\ (j - 1) + 1 = j
    BY <1>1
  <2>2. Tail(writes)[j - 1] = writes[(j - 1) + 1]
    BY <1>1, <2>1
  <2> QED
    BY <2>1, <2>2
<1> QED
  BY <1>1, <1>2, WriterIsCaller

\* The record that a write is.
LEMMA WriteIsPending ==
    ASSUME NEW w \in {"config", "pool"}, NEW c \in Callers
    PROVE  /\ Origin!Write(w, c) \in Pending
           /\ Origin!Write(w, c).what = w /\ Origin!Write(w, c).by = c
BY DEF Pending, Origin!Write

LEMMA OriginInit == Origin!Init => OriginInv
<1> SUFFICES ASSUME Origin!Init PROVE OriginInv
  OBVIOUS
<1>1. writes \in Queue /\ Len(writes) = 0
  BY DEF Origin!Init, Queue
<1>2. doing \in [Callers -> Origin!Documents \cup {Origin!NoDocument}]
  BY DEF Origin!Init
<1>3. OneWriteEach
  BY <1>1, <1>2 DEF Origin!Init, OneWriteEach
<1>4. LastPoolIsStored
  BY <1>1 DEF Origin!Init, LastPoolIsStored
<1> QED
  BY <1>3, <1>4 DEF Origin!Init, OriginInv

LEMMA DocumentIsOne == Origin!NoDocument \notin Origin!Documents
BY OriginsAssumption DEF OriginsAssumption, Origin!OriginAssumption, Origin!Documents, Origin!NoDocument

LEMMA OriginReplace ==
    ASSUME OriginInv, NEW c \in Callers, NEW next \in Origin!Documents, Origin!Replace(c, next)
    PROVE  OriginInv'
<1> DEFINE n == Len(writes)
<1>1. /\ writes' \in Queue /\ Len(writes') = n + 1 /\ n \in Nat
      /\ writes'[n + 1].what = "config" /\ writes'[n + 1].by = c
      /\ \A i \in 1..n : writes'[i] = writes[i]
  <2>1. PICK e : e = Origin!Write("config", c)
    OBVIOUS
  <2>2. e \in Pending /\ e.what = "config" /\ e.by = c
    BY <2>1, WriteIsPending
  <2>3. PICK q \in Queue : q = writes
    BY DEF OriginInv, OneWriteEach
  <2>4. PICK r : r = Append(q, e)
    OBVIOUS
  <2>5. /\ r \in Queue /\ Len(r) = Len(q) + 1 /\ Len(q) \in Nat
        /\ r[Len(q) + 1] = e /\ \A i \in 1..Len(q) : r[i] = q[i]
    BY <2>2, <2>4, AppendProperties DEF Queue
  <2>6. writes' = r
    BY <2>1, <2>3, <2>4 DEF Origin!Replace
  <2> QED
    BY <2>2, <2>3, <2>5, <2>6
<1>2. \A i \in 1..n : writes[i].by # c
  BY DEF OriginInv, OneWriteEach, Origin!Replace
<1>3. \A i \in 1..n : writes[i].by \in Callers
  BY WriterIsCaller DEF OriginInv, OneWriteEach
<1>4. /\ doing' = [doing EXCEPT ![c] = next]
      /\ doing' \in [Callers -> Origin!Documents \cup {Origin!NoDocument}]
      /\ doing'[c] = next /\ next # Origin!NoDocument
      /\ \A d \in Callers \ {c} : doing'[d] = doing[d]
  BY DocumentIsOne DEF OriginInv, OneWriteEach, Origin!Replace
<1>5. OneWriteEach'
  <2>1. \A i, j \in 1..(n + 1) : writes'[i].by = writes'[j].by => i = j
    BY <1>1, <1>2 DEF OriginInv, OneWriteEach
  <2>2. \A i \in 1..(n + 1) : doing'[writes'[i].by] # Origin!NoDocument
    BY <1>1, <1>2, <1>3, <1>4 DEF OriginInv, OneWriteEach
  <2>3. \A d \in Callers : doing'[d] # Origin!NoDocument =>
            \E i \in 1..(n + 1) : writes'[i].by = d
    BY <1>1, <1>4 DEF OriginInv, OneWriteEach
  <2> QED
    BY <1>1, <1>4, <2>1, <2>2, <2>3 DEF OneWriteEach
<1>6. LastPoolIsStored'
  <2> USE DEF OriginInv, LastPoolIsStored, Origin!Replace
  <2>1. ASSUME NEW i \in 1..(n + 1), writes'[i].what = "pool",
               \A j \in 1..(n + 1) : writes'[j].what = "pool" => j <= i
        PROVE  stored' = doing'[writes'[i].by]
    <3>1. i \in 1..n
      BY <1>1, <2>1
    <3>2. writes[i].what = "pool" /\ \A j \in 1..n : writes[j].what = "pool" => j <= i
      BY <1>1, <2>1, <3>1
    <3> QED
      BY <1>1, <1>2, <1>3, <1>4, <3>1, <3>2
  <2>2. ASSUME \A i \in 1..(n + 1) : writes'[i].what # "pool"
        PROVE  stored' = config'
    BY <1>1, <2>2
  <2> QED
    BY <1>1, <2>1, <2>2
<1> QED
  BY <1>5, <1>6 DEF OriginInv, Origin!Replace

\* The head of the queue leaves it.
LEMMA OriginHeadLeaves ==
    ASSUME OneWriteEach, writes # <<>>, writes' = Tail(writes),
           doing' = [doing EXCEPT ![Head(writes).by] = Origin!NoDocument]
    PROVE  /\ OneWriteEach'
           /\ \A i \in 1..Len(writes') : /\ writes'[i] = writes[i + 1]
                                         /\ doing'[writes'[i].by] = doing[writes[i + 1].by]
           /\ \A j \in 2..Len(writes) : j - 1 \in 1..Len(writes') /\ writes[j] = writes'[j - 1]
<1> DEFINE n == Len(writes)
<1>1. /\ n \in Nat \ {0} /\ writes' \in Queue /\ Head(writes) = writes[1]
      /\ Len(writes') = n - 1 /\ \A i \in 1..(n - 1) : writes'[i] = writes[i + 1]
      /\ \A j \in 2..n : j - 1 \in 1..(n - 1) /\ writes[j] = writes'[j - 1]
      /\ \A i \in 1..n : writes[i].by \in Callers
  BY HeadFacts DEF OneWriteEach
<1>2. /\ doing' \in [Callers -> Origin!Documents \cup {Origin!NoDocument}]
      /\ doing'[writes[1].by] = Origin!NoDocument
      /\ \A d \in Callers : d # writes[1].by => doing'[d] = doing[d]
  BY <1>1 DEF OneWriteEach
<1>3. \A i \in 1..(n - 1) : writes[i + 1].by # writes[1].by /\ i + 1 \in 1..n
  BY <1>1 DEF OneWriteEach
<1>4. \A i, j \in 1..(n - 1) : writes'[i].by = writes'[j].by => i = j
  BY <1>1, <1>3 DEF OneWriteEach
<1>5. \A i \in 1..(n - 1) : doing'[writes'[i].by] = doing[writes[i + 1].by]
  BY <1>1, <1>2, <1>3
<1>6. \A i \in 1..(n - 1) : doing'[writes'[i].by] # Origin!NoDocument
  BY <1>1, <1>3, <1>5 DEF OneWriteEach
<1>7. ASSUME NEW c \in Callers, doing'[c] # Origin!NoDocument
      PROVE  \E i \in 1..(n - 1) : writes'[i].by = c
  <2>1. c # writes[1].by /\ doing[c] # Origin!NoDocument
    BY <1>2, <1>7
  <2>2. PICK i \in 1..n : writes[i].by = c
    BY <2>1 DEF OneWriteEach
  <2>3. i - 1 \in 1..(n - 1) /\ writes[i] = writes'[i - 1]
    BY <1>1, <2>1, <2>2
  <2> QED
    BY <1>1, <2>2, <2>3
<1> QED
  BY <1>1, <1>2, <1>4, <1>5, <1>6, <1>7 DEF OneWriteEach

\* The document whose write ends is on its way into memory by its pool.
LEMMA OriginConfigWritten == ASSUME OriginInv, Origin!ConfigWritten PROVE OriginInv'
<1> DEFINE n == Len(writes)
           c == writes[1].by
<1>1. /\ n \in Nat \ {0} /\ Tail(writes) \in Queue /\ Len(Tail(writes)) = n - 1
      /\ Head(writes) = writes[1] /\ c \in Callers
      /\ \A i \in 1..(n - 1) : Tail(writes)[i] = writes[i + 1]
      /\ \A j \in 2..n : j - 1 \in 1..(n - 1) /\ writes[j] = Tail(writes)[j - 1]
      /\ \A i \in 1..n : writes[i].by \in Callers
  BY HeadFacts DEF OriginInv, OneWriteEach, Origin!ConfigWritten
<1>0. n \in Nat \ {0} /\ n - 1 + 1 = n /\ n \in 1..n /\ 1 \in 1..n /\ 1..(n - 1) \subseteq 1..n
      /\ \A k \in 1..n : k = n \/ (k \in 1..(n - 1) /\ k + 1 \in 1..n /\ k + 1 # 1)
  <2>1. n \in Nat \ {0}
    BY <1>1
  <2> QED
    BY <2>1
<1>2. writes' = Append(Tail(writes), Origin!Write("pool", c)) /\ stored' = doing[c]
      /\ doing' = doing
  BY <1>1 DEF Origin!ConfigWritten, Origin!SecondWrite
<1>3. /\ writes' \in Queue /\ Len(writes') = n
      /\ writes'[n].what = "pool" /\ writes'[n].by = c
      /\ \A i \in 1..(n - 1) : writes'[i] = writes[i + 1]
      /\ \A j \in 2..n : writes[j] = writes'[j - 1]
  <2>1. /\ writes' \in Queue /\ Len(writes') = (n - 1) + 1
        /\ writes'[(n - 1) + 1].what = "pool" /\ writes'[(n - 1) + 1].by = c
        /\ \A i \in 1..(n - 1) : writes'[i] = Tail(writes)[i]
    <3>1. PICK q \in Queue : q = Tail(writes) /\ Len(q) = n - 1
      BY <1>1
    <3>2. PICK e : e = Origin!Write("pool", c)
      OBVIOUS
    <3>3. e \in Pending /\ e.what = "pool" /\ e.by = c
      BY <1>1, <3>2, WriteIsPending
    <3>4. PICK r : r = Append(q, e)
      OBVIOUS
    <3>5. /\ r \in Queue /\ Len(r) = Len(q) + 1
          /\ r[Len(q) + 1] = e /\ \A i \in 1..Len(q) : r[i] = q[i]
      BY <3>3, <3>4, AppendProperties DEF Queue
    <3>6. writes' = r
      BY <1>2, <3>1, <3>2, <3>4
    <3> QED
      BY <3>1, <3>3, <3>5, <3>6
  <2> QED
    BY <1>0, <1>1, <2>1
<1>4. OneWriteEach'
  <2>1. \A i \in 1..n : doing'[writes'[i].by] # Origin!NoDocument
    <3> SUFFICES ASSUME NEW i \in 1..n PROVE doing'[writes'[i].by] # Origin!NoDocument
      OBVIOUS
    <3>1. CASE i = n
      BY <1>1, <1>2, <1>3, <3>1 DEF OriginInv, OneWriteEach
    <3>2. CASE i # n
      <4>1. i \in 1..(n - 1) /\ i + 1 \in 1..n
        BY <1>0, <3>2
      <4> QED
        BY <1>2, <1>3, <4>1 DEF OriginInv, OneWriteEach
    <3> QED
      BY <3>1, <3>2
  <2>2. ASSUME NEW i \in 1..n, NEW j \in 1..n, writes'[i].by = writes'[j].by PROVE i = j
    <3>1. \A k, m \in 1..n : writes[k].by = writes[m].by => k = m
      BY DEF OriginInv, OneWriteEach
    <3>2. CASE i = n /\ j # n
      <4>1. writes[1].by = writes[j + 1].by /\ j + 1 \in 1..n /\ j + 1 # 1
        BY <1>0, <1>3, <2>2, <3>2
      <4> QED
        BY <1>0, <3>1, <4>1
    <3>3. CASE i # n /\ j = n
      <4>1. writes[1].by = writes[i + 1].by /\ i + 1 \in 1..n /\ i + 1 # 1
        BY <1>0, <1>3, <2>2, <3>3
      <4> QED
        BY <1>0, <3>1, <4>1
    <3>4. CASE i # n /\ j # n
      <4>1. i + 1 = j + 1
        <5>1. writes[i + 1].by = writes[j + 1].by /\ i + 1 \in 1..n /\ j + 1 \in 1..n
          BY <1>0, <1>3, <2>2, <3>4
        <5> QED
          BY <3>1, <5>1
      <4> QED
        BY <1>1, <4>1
    <3> QED
      BY <3>2, <3>3, <3>4
  <2>3. ASSUME NEW d \in Callers, doing'[d] # Origin!NoDocument
        PROVE  \E i \in 1..n : writes'[i].by = d
    <3>1. PICK i \in 1..n : writes[i].by = d
      BY <1>2, <2>3 DEF OriginInv, OneWriteEach
    <3>2. CASE i = 1
      BY <1>1, <1>3, <3>1, <3>2
    <3>3. CASE i # 1
      <4>1. i \in 2..n /\ i - 1 \in 1..n
        BY <1>1, <3>3
      <4> QED
        BY <1>3, <3>1, <4>1
    <3> QED
      BY <3>2, <3>3
  <2> QED
    BY <1>2, <1>3, <2>1, <2>2, <2>3 DEF OriginInv, OneWriteEach
<1>5. LastPoolIsStored'
  <2>1. n \in 1..n
    BY <1>0
  <2>2. ASSUME NEW i \in 1..n, \A j \in 1..n : writes'[j].what = "pool" => j <= i
        PROVE  i = n
    <3>1. n <= i
      BY <1>3, <2>1, <2>2
    <3>2. n \in Nat /\ i \in 1..n
      BY <1>0
    <3> QED
      BY <3>1, <3>2
  <2>3. stored' = doing'[writes'[n].by]
    BY <1>2, <1>3
  <2> QED
    BY <1>3, <2>1, <2>2, <2>3 DEF LastPoolIsStored
<1> QED
  BY <1>4, <1>5 DEF OriginInv, Origin!ConfigWritten

\* A refused write leaves the last pool as it was.
LEMMA OriginConfigRefused == ASSUME OriginInv, Origin!ConfigRefused PROVE OriginInv'
<1> DEFINE n == Len(writes)
<1>1. /\ n \in Nat \ {0} /\ Head(writes) = writes[1] /\ Len(writes') = n - 1
      /\ writes[1].what = "config" /\ stored' = stored /\ config' = config
  BY HeadFacts DEF OriginInv, OneWriteEach, Origin!ConfigRefused
<1>2. /\ OneWriteEach'
      /\ \A i \in 1..(n - 1) : /\ writes'[i] = writes[i + 1]
                               /\ doing'[writes'[i].by] = doing[writes[i + 1].by]
      /\ \A j \in 2..n : j - 1 \in 1..(n - 1) /\ writes[j] = writes'[j - 1]
  BY <1>1, OriginHeadLeaves DEF OriginInv, Origin!ConfigRefused
<1>3. LastPoolIsStored'
  <2>1. ASSUME NEW i \in 1..(n - 1), writes'[i].what = "pool",
               \A j \in 1..(n - 1) : writes'[j].what = "pool" => j <= i
        PROVE  stored' = doing'[writes'[i].by]
    <3>1. i + 1 \in 1..n /\ writes[i + 1].what = "pool"
      BY <1>1, <1>2, <2>1
    <3>2. ASSUME NEW j \in 1..n, writes[j].what = "pool" PROVE j <= i + 1
      <4>1. j \in 2..n
        BY <1>1, <3>2
      <4>2. j - 1 <= i
        BY <1>2, <2>1, <3>2, <4>1
      <4> QED
        BY <1>1, <4>2
    <3> QED
      BY <1>1, <1>2, <3>1, <3>2 DEF OriginInv, LastPoolIsStored
  <2>2. ASSUME \A i \in 1..(n - 1) : writes'[i].what # "pool" PROVE stored' = config'
    <3>1. ASSUME NEW j \in 1..n PROVE writes[j].what # "pool"
      <4>1. CASE j = 1
        BY <1>1, <4>1
      <4>2. CASE j # 1
        <5>1. j \in 2..n
          BY <1>1, <4>2
        <5> QED
          BY <1>2, <2>2, <5>1
      <4> QED
        BY <4>1, <4>2
    <3> QED
      BY <1>1, <3>1 DEF OriginInv, LastPoolIsStored
  <2> QED
    BY <1>1, <2>1, <2>2 DEF LastPoolIsStored
<1> QED
  BY <1>2, <1>3 DEF OriginInv, Origin!ConfigRefused

\* The last pool to be written brings the document on disk into memory.
LEMMA OriginPoolWritten == ASSUME OriginInv, Origin!PoolWritten PROVE OriginInv'
<1> DEFINE n == Len(writes)
<1>1. /\ n \in Nat \ {0} /\ Head(writes) = writes[1] /\ Len(writes') = n - 1
      /\ writes[1].what = "pool" /\ stored' = stored /\ config' = doing[writes[1].by]
  BY HeadFacts DEF OriginInv, OneWriteEach, Origin!PoolWritten, Origin!Assigned
<1>2. /\ OneWriteEach'
      /\ \A i \in 1..(n - 1) : /\ writes'[i] = writes[i + 1]
                               /\ doing'[writes'[i].by] = doing[writes[i + 1].by]
      /\ \A j \in 2..n : j - 1 \in 1..(n - 1) /\ writes[j] = writes'[j - 1]
  BY <1>1, OriginHeadLeaves DEF OriginInv, Origin!PoolWritten
<1>3. \A j \in 1..n : j = 1 \/ j \in 2..n
  BY <1>1
<1>4. LastPoolIsStored'
  <2>1. ASSUME NEW i \in 1..(n - 1), writes'[i].what = "pool",
               \A j \in 1..(n - 1) : writes'[j].what = "pool" => j <= i
        PROVE  stored' = doing'[writes'[i].by]
    <3>1. i + 1 \in 1..n /\ writes[i + 1].what = "pool"
      BY <1>1, <1>2, <2>1
    <3>2. ASSUME NEW j \in 1..n, writes[j].what = "pool" PROVE j <= i + 1
      <4>1. CASE j = 1
        BY <4>1
      <4>2. CASE j \in 2..n
        <5>1. j - 1 <= i
          BY <1>2, <2>1, <3>2, <4>2
        <5> QED
          BY <1>1, <5>1
      <4> QED
        BY <1>3, <4>1, <4>2
    <3> QED
      BY <1>1, <1>2, <3>1, <3>2 DEF OriginInv, LastPoolIsStored
  <2>2. ASSUME \A i \in 1..(n - 1) : writes'[i].what # "pool" PROVE stored' = config'
    <3>1. ASSUME NEW j \in 1..n, writes[j].what = "pool" PROVE j <= 1
      <4>1. j \notin 2..n
        BY <1>2, <2>2, <3>1
      <4> QED
        BY <1>3, <4>1
    <3>2. 1 \in 1..n
      BY <1>1
    <3> QED
      BY <1>1, <3>1, <3>2 DEF OriginInv, LastPoolIsStored
  <2> QED
    BY <1>1, <2>1, <2>2 DEF LastPoolIsStored
<1>5. (poolLost \/ pool = config)' /\ poolLost' \in BOOLEAN
  BY <1>1 DEF OriginInv, Origin!PoolWritten
<1> QED
  BY <1>2, <1>4, <1>5 DEF OriginInv

\* The next process starts from the document on disk.
LEMMA OriginKill == ASSUME OriginInv, Origin!Kill PROVE OriginInv'
<1>1. writes' \in Queue /\ Len(writes') = 0
  BY DEF Origin!Kill, Queue
<1>2. /\ doing' \in [Callers -> Origin!Documents \cup {Origin!NoDocument}]
      /\ \A c \in Callers : doing'[c] = Origin!NoDocument
  BY DEF Origin!Kill
<1>3. OneWriteEach' /\ LastPoolIsStored'
  BY <1>1, <1>2 DEF Origin!Kill, OneWriteEach, LastPoolIsStored
<1>4. CASE writes = <<>>
  <2>1. Len(writes) = 0
    BY <1>4
  <2> QED
    BY <1>3, <1>4, <2>1 DEF OriginInv, LastPoolIsStored, Origin!Kill
<1>5. CASE writes # <<>>
  BY <1>3, <1>5 DEF OriginInv, Origin!Kill
<1> QED
  BY <1>4, <1>5

LEMMA OriginNext == OriginInv /\ [Origin!Next]_originVars => OriginInv'
<1> SUFFICES ASSUME OriginInv, [Origin!Next]_originVars PROVE OriginInv'
  OBVIOUS
<1>1. CASE UNCHANGED originVars
  BY <1>1 DEF originVars, OriginInv, OneWriteEach, LastPoolIsStored
<1>2. CASE \E c \in Callers, next \in Origin!Documents : Origin!Replace(c, next)
  BY <1>2, OriginReplace
<1>3. ~Origin!PoolThrows
  BY DEF Origin!PoolThrows
<1> QED
  BY <1>1, <1>2, <1>3, OriginConfigWritten, OriginConfigRefused, OriginPoolWritten, OriginKill
  DEF Origin!Next

\* At rest nothing is to be written.
LEMMA OriginAgrees == OriginInv => Origin!AgreeAtRest
<1> SUFFICES ASSUME OriginInv, \A c \in Callers : doing[c] = Origin!NoDocument
             PROVE  stored = config /\ (poolLost \/ pool = config)
  BY DEF Origin!AgreeAtRest
<1>1. \A i \in 1..Len(writes) : writes[i].by \in Callers
  BY WriterIsCaller DEF OriginInv, OneWriteEach
<1>2. \A i \in 1..Len(writes) : FALSE
  BY <1>1 DEF OriginInv, OneWriteEach
<1> QED
  BY <1>2 DEF OriginInv, LastPoolIsStored

-----------------------------------------------------------------------------
(***************************************************************************)
(* The origin document, with one call at a time.                           *)
(***************************************************************************)
OneCall == Serial!Next /\ \A c \in Callers \ {Caller} : UNCHANGED doing[c]

MaybeDocuments == Serial!Documents \cup {Serial!NoDocument}

\* A call under way brings a later document than the one in use, and has one
\* write to do; when that is the second one, its document is on disk.
CallUnderWay ==
    \E w \in {"config", "pool"} :
        /\ writes = <<Serial!Write(w, Caller)>>
        /\ doing[Caller] \in Serial!Documents
        /\ doing[Caller].revision > config.revision
        /\ w = "pool" => stored = doing[Caller]

\* What is on disk is the document in use or a later one.
SerialInv ==
    /\ config \in MaybeDocuments /\ stored \in MaybeDocuments
    /\ doing \in [Callers -> MaybeDocuments]
    /\ \A c \in Callers \ {Caller} : doing[c] = Serial!NoDocument
    /\ CallUnderWay \/ (writes = <<>> /\ doing[Caller] = Serial!NoDocument)
    /\ stored = config \/ stored.revision > config.revision

LEMMA CallerIsOne == Caller \in Callers
BY OriginsAssumption DEF OriginsAssumption, Caller

LEMMA NoDocumentIsNone == Serial!NoDocument \notin Serial!Documents /\ Serial!NoDocument.revision = 0
BY OriginsAssumption DEF OriginsAssumption, Serial!OriginAssumption, Serial!Documents, Serial!NoDocument

LEMMA SerialInit == Origin!Init => SerialInv
BY CallerIsOne DEF Origin!Init, SerialInv, MaybeDocuments,
   Origin!Documents, Origin!NoDocument, Serial!Documents, Serial!NoDocument

\* The head of the queue of a call under way.
LEMMA HeadOfCall ==
    ASSUME NEW w, writes = <<Serial!Write(w, Caller)>>
    PROVE  /\ writes # <<>> /\ Head(writes).what = w /\ Head(writes).by = Caller
           /\ Tail(writes) = <<>>
BY DEF Serial!Write

LEMMA SerialReplace ==
    ASSUME SerialInv, NEW c \in Callers, NEW next \in Serial!Documents, Serial!Replace(c, next),
           \A d \in Callers \ {Caller} : doing'[d] = doing[d]
    PROVE  SerialInv' /\ Serial!MovesForward
<1>1. doing' = [doing EXCEPT ![c] = next] /\ doing'[c] = next /\ doing[c] = Serial!NoDocument
  BY DEF SerialInv, Serial!Replace
<1>2. c = Caller
  BY <1>1, NoDocumentIsNone
<1>3. writes = <<>> /\ writes' = Append(writes, Serial!Write("config", Caller))
  BY <1>1, <1>2, NoDocumentIsNone DEF SerialInv, CallUnderWay, Serial!Replace
<1>4. writes' = <<Serial!Write("config", Caller)>>
  BY <1>3
<1>5. next.revision > config.revision
  BY DEF Serial!Replace, Serial!Newer
<1>6. UNCHANGED <<config, stored>>
  BY DEF Serial!Replace
<1>7. CallUnderWay'
  BY <1>1, <1>2, <1>4, <1>5, <1>6 DEF CallUnderWay
<1> QED
  BY <1>1, <1>2, <1>6, <1>7 DEF SerialInv, MaybeDocuments, Serial!MovesForward

LEMMA SerialConfigWritten == SerialInv /\ Serial!ConfigWritten => SerialInv' /\ Serial!MovesForward
<1> SUFFICES ASSUME SerialInv, Serial!ConfigWritten PROVE SerialInv' /\ Serial!MovesForward
  OBVIOUS
<1>1. writes # <<>> /\ Head(writes).what = "config"
  BY DEF Serial!ConfigWritten
<1>2. /\ writes = <<Serial!Write("config", Caller)>>
      /\ doing[Caller] \in Serial!Documents /\ doing[Caller].revision > config.revision
  BY <1>1, HeadOfCall DEF SerialInv, CallUnderWay
<1>3. Head(writes).by = Caller /\ Tail(writes) = <<>>
  BY <1>2, HeadOfCall
<1>4. writes' = Append(<<>>, Serial!Write("pool", Caller)) /\ stored' = doing[Caller]
  BY <1>3 DEF Serial!ConfigWritten, Serial!SecondWrite
<1>5. writes' = <<Serial!Write("pool", Caller)>>
  BY <1>4
<1>6. UNCHANGED <<config, doing>>
  BY DEF Serial!ConfigWritten
<1>7. CallUnderWay'
  BY <1>2, <1>4, <1>5, <1>6 DEF CallUnderWay
<1> QED
  BY <1>2, <1>4, <1>6, <1>7 DEF SerialInv, MaybeDocuments, Serial!MovesForward

\* A call ends with its write.
LEMMA SerialCallEnds ==
    ASSUME SerialInv, writes # <<>>, writes' = Tail(writes),
           doing' = [doing EXCEPT ![Head(writes).by] = Serial!NoDocument]
    PROVE  /\ writes' = <<>> /\ doing' \in [Callers -> MaybeDocuments]
           /\ \A c \in Callers : doing'[c] = Serial!NoDocument
           /\ Head(writes).by = Caller /\ CallUnderWay
<1>1. CallUnderWay
  BY DEF SerialInv
<1>2. Head(writes).by = Caller /\ Tail(writes) = <<>>
  BY <1>1, HeadOfCall DEF CallUnderWay
<1> QED
  BY <1>1, <1>2, CallerIsOne DEF SerialInv, MaybeDocuments

LEMMA SerialRefused ==
    SerialInv /\ (Serial!ConfigRefused \/ Serial!PoolThrows) => SerialInv' /\ Serial!MovesForward
<1> SUFFICES ASSUME SerialInv, Serial!ConfigRefused \/ Serial!PoolThrows
             PROVE  SerialInv' /\ Serial!MovesForward
  OBVIOUS
<1>1. /\ writes # <<>> /\ writes' = Tail(writes) /\ UNCHANGED <<config, stored>>
      /\ doing' = [doing EXCEPT ![Head(writes).by] = Serial!NoDocument]
  BY DEF Serial!ConfigRefused, Serial!PoolThrows
<1> QED
  BY <1>1, SerialCallEnds, CallerIsOne DEF SerialInv, Serial!MovesForward, MaybeDocuments

LEMMA SerialPoolWritten == SerialInv /\ Serial!PoolWritten => SerialInv' /\ Serial!MovesForward
<1> SUFFICES ASSUME SerialInv, Serial!PoolWritten PROVE SerialInv' /\ Serial!MovesForward
  OBVIOUS
<1>1. /\ writes # <<>> /\ writes' = Tail(writes) /\ Head(writes).what = "pool"
      /\ doing' = [doing EXCEPT ![Head(writes).by] = Serial!NoDocument]
      /\ config' = doing[Head(writes).by] /\ stored' = stored
  BY DEF Serial!PoolWritten, Serial!Assigned
<1>2. /\ writes' = <<>> /\ doing' \in [Callers -> MaybeDocuments]
      /\ \A c \in Callers : doing'[c] = Serial!NoDocument
      /\ Head(writes).by = Caller /\ CallUnderWay
  BY <1>1, SerialCallEnds
<1>3. /\ stored = doing[Caller] /\ doing[Caller] \in Serial!Documents
      /\ doing[Caller].revision > config.revision
  BY <1>1, <1>2, HeadOfCall DEF CallUnderWay
<1> QED
  BY <1>1, <1>2, <1>3, CallerIsOne DEF SerialInv, MaybeDocuments, Serial!MovesForward

LEMMA SerialKill == SerialInv /\ Serial!Kill => SerialInv' /\ Serial!MovesForward
<1> SUFFICES ASSUME SerialInv, Serial!Kill PROVE SerialInv' /\ Serial!MovesForward
  OBVIOUS
<1>1. /\ config' = stored /\ stored' = stored /\ writes' = <<>>
      /\ doing' = [c \in Callers |-> Serial!NoDocument]
  BY DEF Serial!Kill
<1> QED
  BY <1>1, CallerIsOne DEF SerialInv, MaybeDocuments, Serial!MovesForward

LEMMA SerialNext == SerialInv /\ [OneCall]_originVars => SerialInv' /\ Serial!MovesForward
<1> SUFFICES ASSUME SerialInv, [OneCall]_originVars PROVE SerialInv' /\ Serial!MovesForward
  OBVIOUS
<1>1. CASE UNCHANGED originVars
  BY <1>1 DEF originVars, SerialInv, CallUnderWay, Serial!MovesForward
<1>2. CASE OneCall
  <2>1. CASE \E c \in Callers, next \in Serial!Documents : Serial!Replace(c, next)
    BY <1>2, <2>1, SerialReplace DEF OneCall
  <2> QED
    BY <1>2, <2>1, SerialConfigWritten, SerialRefused, SerialPoolWritten, SerialKill
    DEF OneCall, Serial!Next
<1> QED
  BY <1>1, <1>2

-----------------------------------------------------------------------------
(***************************************************************************)
(* The transports of a request to the panel.                               *)
(***************************************************************************)
\* While the network does not change, only dead paths have left the race, and
\* a request that has ended has what the paths allow.
TransportInv ==
    /\ speed \in [Paths -> {"quick", "slow", "dead"}]
    /\ preferred \in Paths \cup {None} /\ late \subseteq Paths /\ racing \subseteq Paths
    /\ progress \in {"idle", "preferred", "racing", "answered", "failed"}
    /\ progress = "preferred" => preferred # None
    /\ shifts \in Nat
    /\ shifts = 0 =>
         /\ progress = "racing" => \A p \in Paths \ racing : speed[p] = "dead"
         /\ Transport!FailsOnlyWithoutPath /\ Transport!QuickWins

LEMMA TransportInit == Transport!Init => TransportInv
BY DEF Transport!Init, TransportInv, Transport!FailsOnlyWithoutPath, Transport!QuickWins

LEMMA TransportNext == TransportInv /\ [Transport!Next]_transportVars => TransportInv'
<1> SUFFICES ASSUME TransportInv, [Transport!Next]_transportVars PROVE TransportInv'
  OBVIOUS
<1> USE DEF TransportInv, Transport!FailsOnlyWithoutPath, Transport!QuickWins
<1>0. None \notin Paths /\ Paths # {}
  BY PathsAssumption DEF PathsAssumption, Transport!PathAssumption
<1>1. CASE UNCHANGED transportVars
  BY <1>1 DEF transportVars
<1>2. CASE Transport!Begin
  BY <1>2 DEF Transport!Begin
<1>3. CASE Transport!PreferredAnswers
  BY <1>3 DEF Transport!PreferredAnswers, Transport!InThree
<1>4. CASE Transport!PreferredFails
  BY <1>4 DEF Transport!PreferredFails, Transport!Race
<1>5. CASE Transport!PreferredTimesOut
  BY <1>5 DEF Transport!PreferredTimesOut, Transport!Race
<1>6. ASSUME NEW p \in Paths, Transport!RaceAnswers(p) PROVE TransportInv'
  BY <1>6 DEF Transport!RaceAnswers, Transport!First
<1>7. ASSUME NEW p \in Paths, Transport!RaceFails(p) PROVE TransportInv'
  BY <1>7 DEF Transport!RaceFails, Transport!AllFailed
<1>8. ASSUME NEW p \in Paths, Transport!Change(p) PROVE TransportInv'
  BY <1>8 DEF Transport!Change
<1>9. ASSUME NEW p \in Paths, Transport!LateAnswer(p) PROVE TransportInv'
  BY <1>0, <1>9 DEF Transport!LateAnswer
<1>10. ASSUME NEW p \in Paths, Transport!LateEnds(p) PROVE TransportInv'
  BY <1>10 DEF Transport!LateEnds
<1> QED
  BY <1>1, <1>2, <1>3, <1>4, <1>5, <1>6, <1>7, <1>8, <1>9, <1>10
  DEF Transport!Next, Transport!Progress

-----------------------------------------------------------------------------
(***************************************************************************)
(* The transports of a subscription.                                       *)
(***************************************************************************)
Places == {"idle", "mapped", "direct", "proxy", "resolve", "discovery",
           "fallback", "ok", "failed", "cancelled"}
Direct(h) == "direct" \in routes[h]

\* What a download has found out by the place it has come to.
FoundOut(d) ==
    /\ place[d] \in {"proxy", "resolve", "discovery"} => ~Direct(host[d])
    /\ place[d] \in {"resolve", "discovery"} => ~proxied
    /\ place[d] = "fallback" => serving[d] \in Endpoints /\ Direct(serving[d])

\* While the network does not change: every endpoint is still to be probed or
\* known not to answer while a discovery is under way, also the one of the
\* download that began it, and an endpoint that is remembered answers.
DownloadInv ==
    /\ place \in [Downloads -> Places] /\ host \in [Downloads -> Hosts]
    /\ serving \in [Downloads -> Endpoints \cup {None}]
    /\ base \in Endpoints \cup {None} /\ probing \subseteq Endpoints
    /\ changes \in Nat
    /\ probing # {} <=> Downloading!Discovering
    /\ changes = 0 =>
         /\ \A d \in Downloads : FoundOut(d)
         /\ Downloading!Discovering => \A e \in Endpoints : e \in probing \/ ~Direct(e)
         /\ base # None => Direct(base)
         /\ Downloading!FindsRoute

LEMMA DownloadInit == Downloading!Init => DownloadInv
BY DEF Downloading!Init, DownloadInv, Places, FoundOut, Downloading!Discovering, Downloading!FindsRoute

\* A download that goes from one place to another outside the discovery leaves
\* the discovery and the remembered endpoint alone.
LEMMA DownloadMoves ==
    ASSUME DownloadInv, NEW d \in Downloads, NEW p \in Places,
           place[d] # "discovery", p # "discovery", Downloading!Goto(d, p),
           UNCHANGED <<routes, proxied, base, probing, host, changes>>,
           serving' \in [Downloads -> Endpoints \cup {None}],
           \A e \in Downloads \ {d} : serving'[e] = serving[e],
           changes = 0 => FoundOut(d)' /\ (p = "failed" => ~Downloading!PublicRoute(host[d]))
    PROVE  DownloadInv'
<1>1. place' \in [Downloads -> Places] /\ place'[d] = p /\ \A e \in Downloads \ {d} : place'[e] = place[e]
  BY DEF DownloadInv, Downloading!Goto
<1>2. Downloading!Discovering' <=> Downloading!Discovering
  BY <1>1 DEF Downloading!Discovering
<1>3. \A e \in Downloads \ {d} : FoundOut(e) => FoundOut(e)'
  BY <1>1 DEF FoundOut, Direct, DownloadInv
<1>4. \A h \in Hosts : Downloading!PublicRoute(h)' <=> Downloading!PublicRoute(h)
  BY DEF Downloading!PublicRoute, Downloading!Candidates
<1>5. changes = 0 => Downloading!FindsRoute'
  BY <1>1, <1>4 DEF DownloadInv, Downloading!FindsRoute
<1> QED
  BY <1>1, <1>2, <1>3, <1>5 DEF DownloadInv, Direct

LEMMA DownloadSteps ==
    ASSUME DownloadInv, NEW d \in Downloads,
           \/ Downloading!Begin(d) \/ Downloading!Cancel(d)
           \/ Downloading!Mapped(d) \/ Downloading!Direct(d) \/ Downloading!Proxy(d)
           \/ Downloading!NoFallback(d) \/ Downloading!UseRemembered(d)
    PROVE  DownloadInv'
<1> USE DEF Places
<1>1. CASE Downloading!Begin(d)
  <2>1. \E p \in {"direct", "mapped"} : Downloading!Goto(d, p) /\ place'[d] = p
    BY <1>1 DEF Downloading!Begin, Downloading!Goto, DownloadInv
  <2>2. FoundOut(d)'
    BY <2>1 DEF FoundOut
  <2> QED
    BY <1>1, <2>1, <2>2, DownloadMoves DEF Downloading!Begin, DownloadInv
<1>2. CASE Downloading!Cancel(d)
  <2>1. Downloading!Goto(d, "cancelled") /\ place'[d] = "cancelled"
    BY <1>2 DEF Downloading!Cancel, Downloading!Goto, DownloadInv
  <2>2. FoundOut(d)'
    BY <2>1 DEF FoundOut
  <2> QED
    BY <1>2, <2>1, <2>2, DownloadMoves DEF Downloading!Cancel, DownloadInv
<1>3. CASE Downloading!Mapped(d)
  <2>1. \E p \in {"ok", "direct"} : Downloading!Goto(d, p) /\ place'[d] = p
    BY <1>3 DEF Downloading!Mapped, Downloading!Goto, DownloadInv
  <2>2. FoundOut(d)'
    BY <2>1 DEF FoundOut
  <2> QED
    BY <1>3, <2>1, <2>2, DownloadMoves DEF Downloading!Mapped, DownloadInv
<1>4. CASE Downloading!Direct(d)
  <2>1. \/ Downloading!Goto(d, "ok") /\ place'[d] = "ok"
        \/ Downloading!Goto(d, "proxy") /\ place'[d] = "proxy" /\ ~Direct(host[d])
    BY <1>4 DEF Downloading!Direct, Downloading!Goto, Downloading!Works, DownloadInv, Direct
  <2>2. FoundOut(d)'
    BY <1>4, <2>1 DEF FoundOut, Downloading!Direct, Direct
  <2> QED
    BY <1>4, <2>1, <2>2, DownloadMoves DEF Downloading!Direct, DownloadInv
<1>5. CASE Downloading!Proxy(d)
  <2>1. \/ Downloading!Goto(d, "ok") /\ place'[d] = "ok"
        \/ Downloading!Goto(d, "resolve") /\ place'[d] = "resolve" /\ ~proxied
    BY <1>5 DEF Downloading!Proxy, Downloading!Goto, DownloadInv
  <2>2. changes = 0 => FoundOut(d)'
    BY <1>5, <2>1 DEF DownloadInv, FoundOut, Downloading!Proxy, Direct
  <2> QED
    BY <1>5, <2>1, <2>2, DownloadMoves DEF Downloading!Proxy, DownloadInv
<1>6. CASE Downloading!NoFallback(d)
  <2>1. Downloading!Goto(d, "failed") /\ place'[d] = "failed"
    BY <1>6 DEF Downloading!NoFallback, Downloading!Goto, DownloadInv
  <2>2. FoundOut(d)'
    BY <2>1 DEF FoundOut
  <2>3. host[d] \notin Endpoints \/ Downloading!Candidates(host[d]) = {}
    BY <1>6 DEF Downloading!NoFallback, Downloading!MayFallBack
  <2>4. changes = 0 => ~Downloading!PublicRoute(host[d])
    BY <1>6, <2>3 DEF Downloading!NoFallback, Downloading!PublicRoute, DownloadInv, FoundOut, Direct
  <2> QED
    BY <1>6, <2>1, <2>2, <2>4, DownloadMoves DEF Downloading!NoFallback, DownloadInv
<1>7. CASE Downloading!UseRemembered(d)
  <2>1. Downloading!Goto(d, "fallback") /\ place'[d] = "fallback" /\ serving' = [serving EXCEPT ![d] = base]
    BY <1>7 DEF Downloading!UseRemembered, Downloading!Goto, DownloadInv
  <2>2. base # None /\ base \in Endpoints
    BY <1>7 DEF Downloading!UseRemembered, Downloading!Remembered, DownloadInv
  <2>3. /\ serving' \in [Downloads -> Endpoints \cup {None}] /\ serving'[d] = base
        /\ \A e \in Downloads \ {d} : serving'[e] = serving[e]
    BY <2>1 DEF DownloadInv
  <2>4. changes = 0 => FoundOut(d)'
    BY <1>7, <2>1, <2>2, <2>3 DEF DownloadInv, FoundOut, Downloading!UseRemembered, Direct
  <2> QED
    BY <1>7, <2>1, <2>3, <2>4, DownloadMoves DEF Downloading!UseRemembered
<1> QED
  BY <1>1, <1>2, <1>3, <1>4, <1>5, <1>6, <1>7

LEMMA DownloadDiscovers ==
    ASSUME DownloadInv, NEW d \in Downloads, Downloading!Discover(d)
    PROVE  DownloadInv'
<1>1. /\ place' \in [Downloads -> Places] /\ place'[d] = "discovery" /\ place[d] = "resolve"
      /\ \A e \in Downloads \ {d} : place'[e] = place[e]
  BY DEF Downloading!Discover, Downloading!Goto, DownloadInv, Places
<1>2. UNCHANGED <<routes, proxied, base, host, serving, changes>>
  BY DEF Downloading!Discover
<1>3. Downloading!Discovering'
  BY <1>1 DEF Downloading!Discovering
<1>4. CASE Downloading!Discovering
  <2>1. probing' = probing
    BY <1>4 DEF Downloading!Discover
  <2> QED
    BY <1>1, <1>2, <1>3, <1>4, <2>1
    DEF DownloadInv, FoundOut, Direct, Downloading!FindsRoute, Downloading!PublicRoute,
        Downloading!Candidates
<1>5. CASE ~Downloading!Discovering
  <2>1. probing' = Endpoints \ {host[d]} /\ probing' # {}
    BY <1>5 DEF Downloading!Discover, Downloading!Candidates, Downloading!MayFallBack
  <2>2. changes = 0 => ~Direct(host[d])
    BY <1>1 DEF DownloadInv, FoundOut
  <2> QED
    BY <1>1, <1>2, <1>3, <1>5, <2>1, <2>2
    DEF DownloadInv, FoundOut, Direct, Downloading!FindsRoute, Downloading!PublicRoute,
        Downloading!Candidates
<1> QED
  BY <1>4, <1>5

LEMMA DownloadFinds ==
    ASSUME DownloadInv, NEW e \in Endpoints, Downloading!Found(e)
    PROVE  DownloadInv'
<1>1. /\ base' = e /\ probing' = {} /\ Direct(e)
      /\ UNCHANGED <<routes, proxied, host, changes>>
  BY DEF Downloading!Found, Direct
<1>2. \A d \in Downloads :
        \/ place[d] = "discovery" /\ place'[d] = "fallback" /\ serving'[d] = e
        \/ place[d] # "discovery" /\ place'[d] = place[d] /\ serving'[d] = serving[d]
  BY DEF Downloading!Found, Downloading!AllGoto, Downloading!Waiters
<1>3. place' \in [Downloads -> Places] /\ serving' \in [Downloads -> Endpoints \cup {None}]
  BY DEF Downloading!Found, Downloading!AllGoto, Downloading!Waiters, DownloadInv, Places
<1>4. ~Downloading!Discovering'
  BY <1>2 DEF Downloading!Discovering
<1>5. changes = 0 => \A d \in Downloads : FoundOut(d)'
  BY <1>1, <1>2 DEF DownloadInv, FoundOut, Direct
<1>6. changes = 0 => Downloading!FindsRoute'
  BY <1>1, <1>2
  DEF DownloadInv, Downloading!FindsRoute, Downloading!PublicRoute, Downloading!Candidates
<1> QED
  BY <1>1, <1>3, <1>4, <1>5, <1>6 DEF DownloadInv, Direct

\* The last probe that fails leaves no endpoint that answers, and who waited has
\* found no other route before.
LEMMA DownloadFindsNot ==
    ASSUME DownloadInv, NEW e \in Endpoints, Downloading!NotFound(e)
    PROVE  DownloadInv'
<1>1. /\ probing' = probing \ {e} /\ e \in probing /\ ~Direct(e)
      /\ UNCHANGED <<routes, proxied, base, host, serving, changes>>
  BY DEF Downloading!NotFound, Downloading!Left, Direct
<1>2. \A h \in Hosts : Downloading!PublicRoute(h)' <=> Downloading!PublicRoute(h)
  BY <1>1 DEF Downloading!PublicRoute, Downloading!Candidates
<1>3. changes = 0 => \A x \in Endpoints : x \in probing' \/ ~Direct(x)
  BY <1>1 DEF DownloadInv
<1>4. CASE probing' # {}
  <2>1. place' = place
    BY <1>4 DEF Downloading!NotFound
  <2>2. Downloading!Discovering /\ Downloading!Discovering'
    BY <1>1, <2>1 DEF DownloadInv, Downloading!Discovering
  <2> QED
    BY <1>1, <1>2, <1>3, <1>4, <2>1, <2>2
    DEF DownloadInv, FoundOut, Direct, Downloading!FindsRoute
<1>5. CASE probing' = {}
  <2>1. \A d \in Downloads :
          \/ place[d] = "discovery" /\ place'[d] = "failed"
          \/ place[d] # "discovery" /\ place'[d] = place[d]
    BY <1>5 DEF Downloading!NotFound, Downloading!AllGoto, Downloading!Waiters
  <2>2. place' \in [Downloads -> Places]
    BY <1>5 DEF Downloading!NotFound, Downloading!AllGoto, Downloading!Waiters, DownloadInv, Places
  <2>3. ~Downloading!Discovering'
    BY <2>1 DEF Downloading!Discovering
  <2>4. changes = 0 => \A x \in Endpoints : ~Direct(x)
    BY <1>3, <1>5
  <2>5. ASSUME changes = 0, NEW d \in Downloads, place[d] = "discovery"
        PROVE  ~Downloading!PublicRoute(host[d])
    BY <2>4, <2>5 DEF DownloadInv, FoundOut, Direct, Downloading!PublicRoute, Downloading!Candidates
  <2>6. changes = 0 => Downloading!FindsRoute'
    BY <1>1, <1>2, <2>1, <2>5 DEF DownloadInv, Downloading!FindsRoute
  <2>7. changes = 0 => \A d \in Downloads : FoundOut(d)'
    BY <1>1, <2>1 DEF DownloadInv, FoundOut, Direct
  <2> QED
    BY <1>1, <1>5, <2>2, <2>3, <2>6, <2>7 DEF DownloadInv, Direct
<1> QED
  BY <1>4, <1>5

LEMMA DownloadFallsBack ==
    ASSUME DownloadInv, NEW d \in Downloads, Downloading!Fallback(d)
    PROVE  DownloadInv'
<1> USE DEF Places
<1>1. /\ place[d] = "fallback"
      /\ UNCHANGED <<routes, proxied, probing, host, serving, changes>>
  BY DEF Downloading!Fallback
<1>2. CASE Direct(serving[d])
  <2>1. Downloading!Goto(d, "ok") /\ place'[d] = "ok" /\ base' = base
    BY <1>2 DEF Downloading!Fallback, Downloading!Goto, DownloadInv, Direct
  <2>2. FoundOut(d)'
    BY <2>1 DEF FoundOut
  <2>3. serving' \in [Downloads -> Endpoints \cup {None}]
    BY <1>1 DEF DownloadInv
  <2> QED
    BY <1>1, <2>1, <2>2, <2>3, DownloadMoves
<1>3. CASE ~Direct(serving[d])
  <2>1. changes # 0 /\ changes' # 0
    BY <1>1, <1>3 DEF DownloadInv, FoundOut
  <2>2. Downloading!Goto(d, "failed") /\ base' \in Endpoints \cup {None}
    BY <1>3 DEF Downloading!Fallback, Downloading!BaseAfterFailure, DownloadInv, Direct
  <2>3. /\ place' \in [Downloads -> Places] /\ place'[d] = "failed"
        /\ \A e \in Downloads \ {d} : place'[e] = place[e]
    BY <2>2 DEF Downloading!Goto, DownloadInv
  <2>4. Downloading!Discovering' <=> Downloading!Discovering
    BY <1>1, <2>3 DEF Downloading!Discovering
  <2> QED
    BY <1>1, <2>1, <2>2, <2>3, <2>4 DEF DownloadInv
<1> QED
  BY <1>2, <1>3

LEMMA DownloadNext == DownloadInv /\ [Downloading!Next]_downloadVars => DownloadInv'
<1> SUFFICES ASSUME DownloadInv, [Downloading!Next]_downloadVars PROVE DownloadInv'
  OBVIOUS
<1>1. CASE UNCHANGED downloadVars
  <2>1. \A h \in Hosts : Downloading!PublicRoute(h)' <=> Downloading!PublicRoute(h)
    BY <1>1 DEF downloadVars, Downloading!PublicRoute, Downloading!Candidates
  <2> QED
    BY <1>1, <2>1 DEF downloadVars, DownloadInv, FoundOut, Direct, Downloading!Discovering,
       Downloading!FindsRoute
<1>2. ASSUME NEW h \in Hosts, Downloading!Change(h) PROVE DownloadInv'
  BY <1>2 DEF Downloading!Change, DownloadInv
<1>3. ASSUME NEW h \in Hosts, Downloading!Cooled(h) PROVE DownloadInv'
  <2>1. UNCHANGED <<routes, proxied, base, probing, place, host, serving, changes>>
    BY <1>3 DEF Downloading!Cooled
  <2>2. \A x \in Hosts : Downloading!PublicRoute(x)' <=> Downloading!PublicRoute(x)
    BY <2>1 DEF Downloading!PublicRoute, Downloading!Candidates
  <2> QED
    BY <2>1, <2>2 DEF DownloadInv, FoundOut, Direct, Downloading!Discovering,
       Downloading!FindsRoute
<1>4. ASSUME NEW d \in Downloads,
             Downloading!Begin(d) \/ Downloading!Attempt(d) \/ Downloading!Cancel(d)
      PROVE  DownloadInv'
  BY <1>4, DownloadSteps, DownloadDiscovers, DownloadFallsBack DEF Downloading!Attempt
<1>5. ASSUME NEW e \in Endpoints, Downloading!Probe(e) PROVE DownloadInv'
  BY <1>5, DownloadFinds, DownloadFindsNot DEF Downloading!Probe
<1> QED
  BY <1>1, <1>2, <1>3, <1>4, <1>5 DEF Downloading!Next

-----------------------------------------------------------------------------
(***************************************************************************)
(* The session.                                                            *)
(***************************************************************************)
\* An import that is about to remove what is obsolete still has all that it has
\* added, unless a logout or an import of other profiles came between.
SessionInv ==
    /\ asked \in Accounts /\ who \in [Logins -> Accounts] /\ token \in Accounts \cup {None}
    /\ meta \subseteq Profiles
    /\ importing \in [Session!Importers -> {"off", "add", "remove"}]
    /\ want \in [Session!Importers -> SUBSET Profiles]
    /\ \A p \in Session!Importers :
         /\ importing[p] # "off" => want[p] # {}
         /\ importing[p] = "remove" /\ p \notin crossed => want[p] \subseteq db

LEMMA PlansAreProfiles == \A a \in Accounts : Session!PlansOf(a) \subseteq Profiles
<1>1. Session!Plans \in [Accounts -> Profiles \ Common]
  BY SessionsAssumption
  DEF SessionsAssumption, Session!SessionAssumption, Session!Plans, Session!Assignments
<1> QED
  BY <1>1, SessionsAssumption
  DEF SessionsAssumption, Session!SessionAssumption, Session!PlansOf

LEMMA AnswersAreProfiles ==
    \A a \in Accounts : \A w \in Session!Answers(a) : w \subseteq Profiles
BY PlansAreProfiles DEF Session!Answers

LEMMA SessionInit == Session!Init => SessionInv
<1> SUFFICES ASSUME Session!Init PROVE SessionInv
  OBVIOUS
<1>1. meta \subseteq Profiles
  BY PlansAreProfiles DEF Session!Init
<1> QED
  BY <1>1 DEF Session!Init, SessionInv

\* An import begins with what is stored, unless that is nothing.
LEMMA ImportBegins ==
    ASSUME SessionInv, NEW p \in Session!Importers, Session!BeginImport(p),
           UNCHANGED <<asked, who, token, meta, db, crossed>>
    PROVE  SessionInv'
<1>1. /\ want' = [want EXCEPT ![p] = meta]
      /\ importing' = [importing EXCEPT ![p] = IF meta = {} THEN "off" ELSE "add"]
  BY DEF Session!BeginImport
<1>2. /\ want'[p] = meta /\ importing'[p] # "remove" /\ (importing'[p] # "off" => meta # {})
      /\ \A q \in Session!Importers \ {p} : want'[q] = want[q] /\ importing'[q] = importing[q]
  BY <1>1 DEF SessionInv
<1>3. /\ want' \in [Session!Importers -> SUBSET Profiles]
      /\ importing' \in [Session!Importers -> {"off", "add", "remove"}]
  BY <1>1 DEF SessionInv
<1> QED
  BY <1>2, <1>3 DEF SessionInv

\* An import removes what it has not added: of what it has, nothing, nor of what
\* another import of the same profiles has.
LEMMA ObsoleteRemoved ==
    ASSUME SessionInv, NEW p \in Session!Importers, Session!RemoveObsolete(p)
    PROVE  SessionInv' /\ Session!KeepsOne
<1>1. /\ importing[p] = "remove" /\ importing' = [importing EXCEPT ![p] = "off"]
      /\ db' = db \cap want[p] /\ UNCHANGED <<asked, who, token, meta, want>>
      /\ crossed' = (crossed \cup {q \in Session!Removers : want[q] # want[p]}) \ {p}
  BY DEF Session!RemoveObsolete
<1>2. /\ importing'[p] = "off"
      /\ \A q \in Session!Importers \ {p} : importing'[q] = importing[q]
  BY <1>1 DEF SessionInv
<1>3. ASSUME NEW q \in Session!Importers, importing'[q] = "remove", q \notin crossed'
      PROVE  want'[q] \subseteq db'
  <2>1. q # p /\ importing[q] = "remove"
    BY <1>2, <1>3
  <2>2. q \notin crossed /\ want[q] = want[p]
    BY <1>1, <1>3, <2>1 DEF Session!Removers
  <2> QED
    BY <1>1, <2>1, <2>2 DEF SessionInv
<1>4. SessionInv'
  BY <1>1, <1>2, <1>3 DEF SessionInv
<1>5. CASE p \in crossed
  BY <1>1, <1>2, <1>4, <1>5 DEF Session!KeepsOne, Session!CrossedRemoves
<1>6. CASE p \notin crossed
  BY <1>1, <1>4, <1>6 DEF SessionInv, Session!KeepsOne
<1> QED
  BY <1>4, <1>5, <1>6

\* All steps but those of an import.
LEMMA SessionElse ==
    ASSUME SessionInv, UNCHANGED <<importing, want, db, crossed>>,
           asked' \in Accounts, who' = who, token' \in Accounts \cup {None},
           meta' \subseteq Profiles
    PROVE  SessionInv' /\ Session!KeepsOne
BY DEF SessionInv, Session!KeepsOne

LEMMA SessionNext ==
    SessionInv /\ [Session!Next]_sessionVars => SessionInv' /\ Session!KeepsOne
<1> SUFFICES ASSUME SessionInv, [Session!Next]_sessionVars
             PROVE  SessionInv' /\ Session!KeepsOne
  OBVIOUS
<1>1. CASE UNCHANGED <<asked, who, token, meta, db, importing, want, crossed>>
  BY <1>1, SessionElse DEF SessionInv
<1>2. ASSUME NEW l \in Logins,
             \/ Session!Login(l) \/ Session!LoginFails(l) \/ Session!LoginAnswered(l)
             \/ Session!LoginEnds(l) \/ Session!SyncEnds(l) \/ Session!SyncChecks(l)
      PROVE  UNCHANGED <<asked, who, token, meta, db, importing, want, crossed>>
  BY <1>2 DEF Session!Login, Session!LoginFails, Session!LoginAnswered, Session!LoginEnds,
     Session!SyncEnds, Session!SyncChecks, Session!Stored, Session!Session
<1>3. ASSUME NEW l \in Logins, Session!WriteToken(l) PROVE SessionInv' /\ Session!KeepsOne
  <2>1. /\ UNCHANGED <<asked, who, meta, db, importing, want, crossed>> /\ token' = who[l]
    BY <1>3 DEF Session!WriteToken, Session!Session
  <2> QED
    BY <2>1, SessionElse DEF SessionInv
<1>4. ASSUME NEW l \in Logins, Session!WriteMeta(l) PROVE SessionInv' /\ Session!KeepsOne
  <2>1. /\ UNCHANGED <<asked, who, token, db, importing, want, crossed>>
        /\ meta' \in Session!Answers(who[l])
    BY <1>4 DEF Session!WriteMeta, Session!Session
  <2> QED
    BY <2>1, AnswersAreProfiles, SessionElse DEF SessionInv
<1>5. CASE Session!RefreshAnswered
  <2>1. /\ UNCHANGED <<asked, who, token, db, importing, want, crossed>>
        /\ meta' \in Session!Answers(asked)
    BY <1>5 DEF Session!RefreshAnswered, Session!Session
  <2> QED
    BY <2>1, AnswersAreProfiles, SessionElse DEF SessionInv
<1>6. ASSUME NEW l \in Logins, Session!RemoveLegacy(l) PROVE SessionInv' /\ Session!KeepsOne
  <2>1. /\ UNCHANGED <<asked, who, token, meta, importing, want, crossed>>
        /\ sync[l] = "legacy" /\ sync' = [sync EXCEPT ![l] = "start"]
        /\ db' \in {db, db \ {Legacy}}
    BY <1>6 DEF Session!RemoveLegacy, Session!SyncTo, Session!Session
  <2>2. SessionInv'
    BY <2>1, SessionsAssumption DEF SessionInv, SessionsAssumption, Session!SessionAssumption
  <2>3. CASE db' = {} /\ db # {}
    <3>1. db = {Legacy}
      BY <2>1, <2>3
    <3> QED
      BY <2>1, <2>2, <3>1 DEF Session!KeepsOne, Session!LastLegacyGoes, Session!SyncTo
  <2> QED
    BY <2>2, <2>3 DEF Session!KeepsOne
<1>7. ASSUME NEW l \in Logins, Session!SyncRefreshes(l) PROVE SessionInv' /\ Session!KeepsOne
  <2>1. UNCHANGED <<who, token, meta, db, importing, want, crossed>> /\ asked' \in Accounts
    BY <1>7 DEF SessionInv, Session!SyncRefreshes, Session!CallRefresh, Session!Stored,
       Session!Session, Session!BeginRefresh, Session!MayRefresh
  <2> QED
    BY <2>1, SessionElse DEF SessionInv
<1>8. CASE Session!TimerFires
  <2>1. UNCHANGED <<who, token, meta, db, importing, want, crossed>> /\ asked' \in Accounts
    BY <1>8 DEF SessionInv, Session!TimerFires, Session!Stored, Session!Session,
       Session!BeginRefresh, Session!MayRefresh
  <2> QED
    BY <2>1, SessionElse DEF SessionInv
<1>9. CASE \/ Session!CancelLogin \/ Session!BootstrapEnds
           \/ Session!RefreshFails \/ Session!RefreshEnds
  <2>1. UNCHANGED <<asked, who, token, meta, db, importing, want, crossed>>
    BY <1>9 DEF Session!CancelLogin, Session!BootstrapEnds, Session!RefreshFails,
       Session!RefreshEnds, Session!Stored, Session!Session, Session!Tasks
  <2> QED
    BY <1>1, <2>1
<1>10. ASSUME NEW l \in Logins, Session!SyncImports(l) PROVE SessionInv' /\ Session!KeepsOne
  <2>1. Session!BeginImport(l) /\ UNCHANGED <<asked, who, token, meta, db, crossed>>
    BY <1>10 DEF Session!SyncImports, Session!Stored, Session!Session
  <2>2. l \in Session!Importers
    BY DEF Session!Importers
  <2> QED
    BY <2>1, <2>2, ImportBegins DEF Session!KeepsOne
<1>11. CASE Session!RefreshImports
  <2>1. Session!BeginImport("refresh") /\ UNCHANGED <<asked, who, token, meta, db, crossed>>
    BY <1>11 DEF Session!RefreshImports, Session!Stored, Session!Session, Session!Refresher
  <2>2. "refresh" \in Session!Importers
    BY DEF Session!Importers, Session!Refresher
  <2> QED
    BY <2>1, <2>2, ImportBegins DEF Session!KeepsOne
<1>12. ASSUME NEW p \in Session!Importers, Session!AddProfiles(p)
       PROVE  SessionInv' /\ Session!KeepsOne
  BY <1>12 DEF SessionInv, Session!AddProfiles, Session!Complete, Session!Session, Session!KeepsOne
<1>13. ASSUME NEW p \in Session!Importers, Session!RemoveObsolete(p)
       PROVE  SessionInv' /\ Session!KeepsOne
  BY <1>13, ObsoleteRemoved
<1>14. CASE Session!Logout \/ Session!LogoutMeta
  <2>1. /\ UNCHANGED <<asked, who, db, importing, want, crossed>>
        /\ token' \in {token, None} /\ meta' \in {meta, {}}
    BY <1>14 DEF Session!Logout, Session!LogoutMeta, Session!Tasks
  <2> QED
    BY <2>1, SessionElse DEF SessionInv
<1>15. CASE Session!LogoutEnds
  <2>1. /\ UNCHANGED <<asked, who, token, meta, importing, want>>
        /\ out = "files" /\ out' = "no" /\ crossed' = Session!Removers
    BY <1>15 DEF Session!LogoutEnds, Session!Tasks
  <2> QED
    BY <2>1 DEF SessionInv, Session!Removers, Session!KeepsOne, Session!LoggedOut
<1>16. CASE UNCHANGED sessionVars
  BY <1>1, <1>16 DEF sessionVars
<1> QED
  BY <1>1, <1>2, <1>3, <1>4, <1>5, <1>6, <1>7, <1>8, <1>9, <1>10, <1>11, <1>12, <1>13, <1>14,
     <1>15, <1>16
  DEF Session!Next

-----------------------------------------------------------------------------
(***************************************************************************)
(* Names and rows of the import.                                           *)
(***************************************************************************)
Chars == Bases \cup Digits

\* Names are sequences.
LEMMA NamesAreSequences == Rotation!Names \subseteq Seq(Chars)
<1> SUFFICES ASSUME NEW n \in Rotation!Names PROVE n \in Seq(Chars)
  OBVIOUS
<1>1. PICK b \in Bases, d \in Rotation!Numerals : n = <<b>> \o d
  BY DEF Rotation!Names
<1>2. PICK k \in 0..MaxDigits : d \in [1..k -> Digits]
  BY <1>1 DEF Rotation!Numerals
<1>3. k \in Nat
  BY ImportsAssumption DEF ImportsAssumption, Rotation!ImportAssumption
<1>4. d \in Seq(Chars)
  BY <1>2, <1>3 DEF Chars
<1>5. <<b>> \in Seq(Chars)
  BY DEF Chars
<1> QED
  BY <1>1, <1>4, <1>5

\* The name that a name has been made from, element by element.
LEMMA GeneratedByElement ==
    ASSUME NEW a \in Seq(Chars), NEW n \in Seq(Chars)
    PROVE  Rotation!Generated(a, n) <=> (Len(a) <= Len(n) /\ \A i \in 1..Len(a) : a[i] = n[i])
<1>1. Len(a) \in Nat /\ Len(n) \in Nat
  OBVIOUS
<1>2. /\ Len(SubSeq(a, 1, Len(a))) = Len(a)
      /\ \A i \in 1..Len(a) : SubSeq(a, 1, Len(a))[i] = a[i]
      /\ SubSeq(a, 1, Len(a)) \in Seq(Chars)
  OBVIOUS
<1>3. ASSUME Len(a) <= Len(n)
      PROVE  /\ Len(SubSeq(n, 1, Len(a))) = Len(a)
             /\ \A i \in 1..Len(a) : SubSeq(n, 1, Len(a))[i] = n[i]
             /\ SubSeq(n, 1, Len(a)) \in Seq(Chars)
  BY <1>1, <1>3
<1>4. ASSUME Len(a) <= Len(n)
      PROVE  SubSeq(a, 1, Len(a)) = SubSeq(n, 1, Len(a)) <=> \A i \in 1..Len(a) : a[i] = n[i]
  <2>1. ASSUME \A i \in 1..Len(a) : a[i] = n[i]
        PROVE  SubSeq(a, 1, Len(a)) = SubSeq(n, 1, Len(a))
    BY <1>2, <1>3, <1>4, <2>1, SeqEqual
  <2>2. ASSUME SubSeq(a, 1, Len(a)) = SubSeq(n, 1, Len(a))
        PROVE  \A i \in 1..Len(a) : a[i] = n[i]
    BY <1>2, <1>3, <1>4, <2>2
  <2> QED
    BY <2>1, <2>2
<1> QED
  BY <1>4 DEF Rotation!Generated, Rotation!IsPrefix

\* Of two names that a name has been made from, one is made from the other.
LEMMA OneBase ==
    ASSUME NEW a \in Seq(Chars), NEW b \in Seq(Chars), NEW n \in Seq(Chars),
           Rotation!Generated(a, n), Rotation!Generated(b, n)
    PROVE  Rotation!Generated(a, b) \/ Rotation!Generated(b, a)
<1>1. Len(a) \in Nat /\ Len(b) \in Nat
  OBVIOUS
<1>2. /\ \A i \in 1..Len(a) : a[i] = n[i]
      /\ \A i \in 1..Len(b) : b[i] = n[i]
  BY GeneratedByElement
<1>3. CASE Len(a) <= Len(b)
  <2>1. \A i \in 1..Len(a) : a[i] = b[i]
    BY <1>1, <1>2, <1>3
  <2> QED
    BY <1>3, <2>1, GeneratedByElement
<1>4. CASE Len(b) <= Len(a)
  <2>1. \A i \in 1..Len(b) : b[i] = a[i]
    BY <1>1, <1>2, <1>4
  <2> QED
    BY <1>4, <2>1, GeneratedByElement
<1> QED
  BY <1>1, <1>3, <1>4

LEMMA GeneratedFromItself == ASSUME NEW a \in Seq(Chars) PROVE Rotation!Generated(a, a)
<1>1. Len(a) \in Nat
  OBVIOUS
<1> QED
  BY <1>1, GeneratedByElement

\* When the titles of the subscriptions are not made from one another.
Apart(f, urls) == \A u, v \in urls : u # v => ~Rotation!Generated(f[u], f[v])

TaskPlaces == {"idle", "url", "name", "save", "dups", "purge", "done"}

-----------------------------------------------------------------------------
(***************************************************************************)
(* The import beside a periodic update.                                    *)
(***************************************************************************)
UpdateTyped ==
    /\ title \in [Update!Urls -> Update!Titles] /\ Apart(title, Update!Urls)
    /\ row \in [Update!Ids -> Update!Row \cup {Update!Gone}]
    /\ pc \in [Update!Tasks -> TaskPlaces]
    /\ url \in Update!Urls \cup {0}
    /\ target \in [Update!Tasks -> Update!Ids \cup {Update!NoId}]

\* A URL has one row, whose name is made from the title of the URL; the row a
\* subscription inserts is its own.
OneRowEach ==
    /\ \A i \in Update!Rows : Update!Generated(title[row[i].url], row[i].name)
    /\ \A i, j \in Update!Rows : row[i].url = row[j].url => i = j
    /\ \A s \in Update!Subs : Update!NewId(s) \in Update!Rows => row[Update!NewId(s)].url = s

\* What a task has found: its row, or that there is none; so it finds no
\* duplicate, and only an upsert that fails leaves its URL without a row.
TaskFound(t) ==
    /\ (pc[t] = "save" /\ target[t] # Update!NoId) \/ pc[t] = "dups" =>
         target[t] \in Update!Rows /\ row[target[t]].url = Update!UrlOf(t)
    /\ pc[t] \in {"idle", "url", "name"} => target[t] = Update!NoId
    /\ pc[t] = "name" \/ (pc[t] = "save" /\ target[t] = Update!NoId) =>
         t # Update!Updater /\ Update!WithUrl(t) = {}
    /\ t # Update!Updater /\ (pc[t] \in {"dups", "purge"} \/ (pc[t] = "done" /\ t \notin failed)) =>
         Update!WithUrl(t) # {}

UpdateInv ==
    /\ UpdateTyped /\ OneRowEach
    /\ \A t \in Update!Tasks : TaskFound(t)
    /\ pc[0] # "idle" => url \in Update!Urls /\ Update!WithUrl(url) # {}
    /\ dups = [t \in Update!Tasks |-> {}] /\ doomed = {}
    /\ stage # "upsert" => \A s \in Update!Subs : pc[s] = "done"

LEMMA UpdateConstants ==
    /\ NSubs \in Nat \ {0}
    /\ Update!Urls = 1..NSubs /\ Update!Subs = 1..NSubs /\ Update!Tasks = 0..NSubs
    /\ Update!Urls \subseteq Update!Ids /\ Update!NoId \notin Update!Ids
    /\ \A t \in Update!Tasks : Update!NewId(t) \in Update!Ids /\ Update!NewId(t) \notin Update!Urls
    /\ \A t, s \in Update!Tasks : Update!NewId(t) = Update!NewId(s) => t = s
    /\ Update!Gone \notin Update!Row
    /\ Update!Names = Rotation!Names /\ Update!Titles \subseteq Update!Names
    /\ \A a, n : Update!Generated(a, n) <=> Rotation!Generated(a, n)
<1>1. NSubs \in Nat \ {0}
  BY ImportsAssumption DEF ImportsAssumption, Update!ImportAssumption
<1>2. /\ Update!Urls = 1..NSubs /\ Update!Subs = 1..NSubs /\ Update!Tasks = 0..NSubs
  BY <1>1 DEF Update!Urls, Update!Subs, Update!Tasks, Update!Updater
<1>3. /\ Update!Urls \subseteq Update!Ids /\ Update!NoId \notin Update!Ids
      /\ \A t \in Update!Tasks : Update!NewId(t) \in Update!Ids /\ Update!NewId(t) \notin Update!Urls
      /\ \A t, s \in Update!Tasks : Update!NewId(t) = Update!NewId(s) => t = s
  BY <1>1, <1>2 DEF Update!Ids, Update!NoId, Update!NewId
<1>4. Update!Gone \notin Update!Row
  BY <1>2 DEF Update!Gone, Update!Row
<1>5. Update!Names = Rotation!Names /\ Update!Titles \subseteq Update!Names
  BY DEF Update!Names, Rotation!Names, Update!Titles, Update!Numerals, Rotation!Numerals
<1>6. \A a, n : Update!Generated(a, n) <=> Rotation!Generated(a, n)
  BY DEF Update!Generated, Rotation!Generated, Update!IsPrefix, Rotation!IsPrefix
<1> QED
  BY <1>1, <1>2, <1>3, <1>4, <1>5, <1>6

\* A name is made from the title of one URL at most.
LEMMA UrlOfName ==
    ASSUME UpdateTyped, NEW u \in Update!Urls, NEW v \in Update!Urls, NEW n \in Update!Names,
           Update!Generated(title[u], n), Update!Generated(title[v], n)
    PROVE  u = v
<1>1. title[u] \in Seq(Chars) /\ title[v] \in Seq(Chars) /\ n \in Seq(Chars)
  BY UpdateConstants, NamesAreSequences DEF UpdateTyped
<1>2. Rotation!Generated(title[u], title[v]) \/ Rotation!Generated(title[v], title[u])
  BY <1>1, OneBase, UpdateConstants
<1> QED
  BY <1>2 DEF UpdateTyped, Apart

LEMMA RowTyped ==
    ASSUME UpdateTyped, NEW i \in Update!Rows
    PROVE  /\ i \in Update!Ids /\ row[i] \in Update!Row /\ row[i].url \in Update!Urls
           /\ row[i].name \in Update!Names /\ row[i].active \in BOOLEAN
<1>1. i \in Update!Ids /\ row[i] \in Update!Row
  BY DEF UpdateTyped, Update!Rows
<1> QED
  BY <1>1 DEF Update!Row

\* A step that keeps the rows and their URLs, and gives a row its title at most,
\* keeps what the rows of the URLs are.
Renamed ==
    /\ Update!Rows' = Update!Rows
    /\ \A i \in Update!Rows : row'[i].url = row[i].url /\ row'[i].name \in {row[i].name, title[row[i].url]}

LEMMA RenamingKeepsRows ==
    ASSUME UpdateTyped, OneRowEach, UNCHANGED title, Renamed
    PROVE  OneRowEach' /\ \A u : Update!WithUrl(u)' = Update!WithUrl(u)
<1>1. \A i \in Update!Rows : Update!Generated(title[row[i].url], title[row[i].url])
  <2> TAKE i \in Update!Rows
  <2>1. title[row[i].url] \in Seq(Chars)
    BY RowTyped, UpdateConstants, NamesAreSequences DEF UpdateTyped
  <2> QED
    BY <2>1, GeneratedFromItself, UpdateConstants
<1>2. \A i \in Update!Rows : Update!Generated(title[row[i].url], row'[i].name)
  BY <1>1 DEF Renamed, OneRowEach
<1>3. OneRowEach'
  BY <1>2, RowTyped DEF Renamed, OneRowEach
<1> QED
  BY <1>3 DEF Renamed, Update!WithUrl

\* OnlyActive changes nothing but flags.
LEMMA OnlyActiveRenames ==
    ASSUME UpdateTyped, NEW i, row' = Update!OnlyActive(i, row)
    PROVE  Renamed /\ row' \in [Update!Ids -> Update!Row \cup {Update!Gone}]
<1>1. \A j \in Update!Ids : row'[j] = IF row[j] = Update!Gone THEN Update!Gone
                                      ELSE [row[j] EXCEPT !.active = j = i]
  BY DEF Update!OnlyActive
<1>2. ASSUME NEW j \in Update!Ids, row[j] # Update!Gone
      PROVE  /\ row'[j] \in Update!Row /\ row'[j] # Update!Gone
             /\ row'[j].url = row[j].url /\ row'[j].name = row[j].name
  <2>1. row[j] \in Update!Row
    BY <1>2 DEF UpdateTyped
  <2>2. /\ [row[j] EXCEPT !.active = j = i] \in Update!Row
        /\ [row[j] EXCEPT !.active = j = i].url = row[j].url
        /\ [row[j] EXCEPT !.active = j = i].name = row[j].name
    BY <2>1 DEF Update!Row
  <2>3. row'[j] = [row[j] EXCEPT !.active = j = i]
    BY <1>1, <1>2
  <2>4. Update!Gone \notin Update!Row
    BY UpdateConstants
  <2> QED
    BY <2>2, <2>3, <2>4
<1>3. Update!Rows' = Update!Rows
  BY <1>1, <1>2 DEF Update!Rows
<1>4. row' \in [Update!Ids -> Update!Row \cup {Update!Gone}]
  <2>1. \A j \in Update!Ids : row'[j] \in Update!Row \cup {Update!Gone}
    BY <1>1, <1>2
  <2> QED
    BY <2>1 DEF Update!OnlyActive
<1> QED
  BY <1>2, <1>3, <1>4 DEF Renamed, Update!Rows

LEMMA UpdateInit == Update!Init => UpdateInv
<1> SUFFICES ASSUME Update!Init PROVE UpdateInv
  OBVIOUS
<1>1. title \in [Update!Urls -> Update!Titles] /\ Apart(title, Update!Urls)
  BY UpdateConstants DEF Update!Init, Apart, Update!Urls
<1>2. PICK old \in SUBSET Update!Urls : \E top \in IF old = {} THEN {0} ELSE old :
        row = [i \in Update!Ids |-> IF i \in old
                                    THEN [url |-> i, name |-> title[i], active |-> i = top]
                                    ELSE Update!Gone]
  BY DEF Update!Init
<1>3. PICK top : row = [i \in Update!Ids |-> IF i \in old
                                    THEN [url |-> i, name |-> title[i], active |-> i = top]
                                    ELSE Update!Gone]
  BY <1>2
<1>0. old \subseteq Update!Ids /\ Update!Gone \notin Update!Row
  BY UpdateConstants
<1>4. \A i \in old : i \in Update!Ids /\ row[i] = [url |-> i, name |-> title[i], active |-> i = top]
  BY <1>0, <1>3
<1>5. \A i \in old : row[i] \in Update!Row /\ row[i].url = i /\ row[i].name = title[i]
  <2> TAKE i \in old
  <2>1. i \in Update!Urls /\ title[i] \in Update!Names
    BY <1>1, UpdateConstants
  <2>2. row[i] = [url |-> i, name |-> title[i], active |-> i = top]
    BY <1>4
  <2>3. row[i].url = i /\ row[i].name = title[i]
    BY <2>2
  <2>4. [url |-> i, name |-> title[i], active |-> i = top] \in Update!Row
    BY <2>1, Zenon DEF Update!Row
  <2> QED
    BY <2>2, <2>3, <2>4
<1>6. row \in [Update!Ids -> Update!Row \cup {Update!Gone}] /\ Update!Rows = old
  <2>1. \A i \in Update!Ids \ old : row[i] = Update!Gone
    BY <1>3
  <2>2. \A i \in Update!Ids : row[i] \in Update!Row \cup {Update!Gone}
    BY <1>5, <2>1
  <2>3. row \in [Update!Ids -> Update!Row \cup {Update!Gone}]
    BY <1>3, <2>2
  <2> QED
    BY <1>0, <1>4, <1>5, <2>1, <2>3 DEF Update!Rows
<1>7. OneRowEach
  <2>1. \A i \in old : Update!Generated(title[i], title[i])
    <3> TAKE i \in old
    <3>1. title[i] \in Seq(Chars)
      BY <1>1, UpdateConstants, NamesAreSequences
    <3> QED
      BY <3>1, GeneratedFromItself, UpdateConstants
  <2>2. \A s \in Update!Subs : Update!NewId(s) \notin Update!Rows
    <3>1. \A s \in Update!Subs : Update!NewId(s) \notin Update!Urls
      BY UpdateConstants
    <3> QED
      BY <1>6, <3>1
  <2> QED
    BY <1>5, <1>6, <2>1, <2>2 DEF OneRowEach
<1>8. /\ pc = [t \in Update!Tasks |-> IF t = 0 THEN "idle" ELSE "url"] /\ url = 0
      /\ target = [t \in Update!Tasks |-> Update!NoId] /\ dups = [t \in Update!Tasks |-> {}]
      /\ stage = "upsert" /\ doomed = {}
  BY DEF Update!Init, Update!Updater
<1>9. UpdateTyped
  BY <1>1, <1>6, <1>8 DEF UpdateTyped, TaskPlaces
<1>10. \A t \in Update!Tasks : TaskFound(t)
  BY <1>8 DEF TaskFound
<1>11. 0 \in Update!Tasks
  BY UpdateConstants
<1> QED
  BY <1>7, <1>8, <1>9, <1>10, <1>11 DEF UpdateInv

\* What the others have found stays found.
LEMMA OthersFound ==
    ASSUME Renamed, \A u : Update!WithUrl(u)' = Update!WithUrl(u), NEW s \in Update!Tasks,
           url' = url, failed \subseteq failed', pc'[s] = pc[s], target'[s] = target[s], TaskFound(s)
    PROVE  TaskFound(s)'
BY DEF Renamed, TaskFound, Update!UrlOf

\* A step that only renames, of no task or of one that has found what it says.
LEMMA UpdateRenames ==
    ASSUME UpdateInv, NEW t \in Update!Tasks,
           UNCHANGED <<title, url, dups, doomed>>, failed \subseteq failed', Renamed,
           row' \in [Update!Ids -> Update!Row \cup {Update!Gone}],
           pc' \in [Update!Tasks -> TaskPlaces], pc'[0] # "idle" => pc[0] # "idle",
           target' \in [Update!Tasks -> Update!Ids \cup {Update!NoId}],
           \A s \in Update!Tasks \ {t} : pc'[s] = pc[s] /\ target'[s] = target[s],
           (\A u : Update!WithUrl(u)' = Update!WithUrl(u)) => TaskFound(t)',
           stage' # "upsert" => \A s \in Update!Subs : pc'[s] = "done"
    PROVE  UpdateInv' /\ Update!Rows \subseteq Update!Rows'
<1>1. OneRowEach' /\ \A u : Update!WithUrl(u)' = Update!WithUrl(u)
  BY RenamingKeepsRows DEF UpdateInv
<1>2. \A s \in Update!Tasks : TaskFound(s)'
  BY <1>1, OthersFound DEF UpdateInv
<1>3. UpdateTyped'
  BY DEF UpdateInv, UpdateTyped, Apart
<1> QED
  BY <1>1, <1>2, <1>3 DEF UpdateInv, Renamed

\* A row that is not touched is not renamed.
LEMMA SameRows ==
    ASSUME UpdateTyped, UNCHANGED row
    PROVE  Renamed /\ row' \in [Update!Ids -> Update!Row \cup {Update!Gone}]
BY DEF Renamed, UpdateTyped, Update!Rows

LEMMA UpdateBegin ==
    UpdateInv /\ Update!UpdateBegins => UpdateInv' /\ Update!Rows \subseteq Update!Rows'
<1> SUFFICES ASSUME UpdateInv, Update!UpdateBegins
             PROVE  UpdateInv' /\ Update!Rows \subseteq Update!Rows'
  OBVIOUS
<1>1. PICK i \in Update!Rows : url' = row[i].url
  BY DEF Update!UpdateBegins
<1>2. /\ pc[0] = "idle" /\ pc' = [pc EXCEPT ![0] = "url"] /\ 0 \in Update!Tasks
      /\ UNCHANGED <<title, row, target, dups, failed, stage, doomed>>
  BY UpdateConstants DEF Update!UpdateBegins, Update!Go, Update!Updater
<1>3. url' \in Update!Urls /\ i \in Update!WithUrl(url') /\ \A u : Update!WithUrl(u)' = Update!WithUrl(u)
  BY <1>1, <1>2, RowTyped DEF UpdateInv, Update!WithUrl, Update!Rows
<1>4. UpdateTyped' /\ OneRowEach'
  BY <1>2, <1>3 DEF UpdateInv, UpdateTyped, OneRowEach, Apart, TaskPlaces, Update!Rows
<1>5. pc'[0] = "url" /\ \A s \in Update!Tasks \ {0} : pc'[s] = pc[s]
  BY <1>2 DEF UpdateInv, UpdateTyped
<1>6. \A s \in Update!Tasks : TaskFound(s)'
  BY <1>2, <1>3, <1>5 DEF UpdateInv, TaskFound, Update!UrlOf, Update!Updater, Update!Rows
<1>7. \A s \in Update!Subs : pc'[s] = pc[s]
  BY <1>5, UpdateConstants
<1> QED
  BY <1>2, <1>3, <1>4, <1>6, <1>7 DEF UpdateInv, Update!Rows

LEMMA UpdateFindByUrl ==
    ASSUME UpdateInv, NEW t \in Update!Tasks, Update!FindByUrl(t)
    PROVE  UpdateInv' /\ Update!Rows \subseteq Update!Rows'
<1>1. /\ pc[t] = "url" /\ target[t] = Update!NoId
      /\ UNCHANGED <<title, row, url, failed, stage, doomed, dups>>
  BY DEF Update!FindByUrl, Update!Rest, UpdateInv, TaskFound
<1>2. t = 0 => Update!WithUrl(Update!UrlOf(t)) # {}
  BY <1>1 DEF UpdateInv, Update!UrlOf, Update!Updater
<1>3. CASE \E i \in Update!WithUrl(Update!UrlOf(t)) :
             target' = [target EXCEPT ![t] = i] /\ Update!Go(t, "save")
  <2>1. PICK i \in Update!WithUrl(Update!UrlOf(t)) :
               target' = [target EXCEPT ![t] = i] /\ pc' = [pc EXCEPT ![t] = "save"]
    BY <1>3 DEF Update!Go
  <2>2. i \in Update!Rows /\ row[i].url = Update!UrlOf(t) /\ i \in Update!Ids /\ i # Update!NoId
    BY <2>1, UpdateConstants DEF Update!WithUrl, Update!Rows
  <2>3. /\ pc'[t] = "save" /\ target'[t] = i
        /\ pc' \in [Update!Tasks -> TaskPlaces]
        /\ target' \in [Update!Tasks -> Update!Ids \cup {Update!NoId}]
        /\ \A s \in Update!Tasks \ {t} : pc'[s] = pc[s] /\ target'[s] = target[s]
    BY <2>1, <2>2 DEF UpdateInv, UpdateTyped, TaskPlaces
  <2>4. TaskFound(t)'
    BY <1>1, <2>2, <2>3 DEF TaskFound, Update!UrlOf, Update!Rows
  <2> QED
    BY <1>1, <2>3, <2>4, SameRows, UpdateRenames, UpdateConstants DEF UpdateInv
<1>4. CASE /\ Update!WithUrl(Update!UrlOf(t)) = {} /\ UNCHANGED target
           /\ Update!Go(t, IF t = Update!Updater THEN "save" ELSE "name")
  <2>1. t # 0 /\ pc' = [pc EXCEPT ![t] = "name"]
    BY <1>2, <1>4 DEF Update!Go, Update!Updater
  <2>2. /\ pc'[t] = "name" /\ pc' \in [Update!Tasks -> TaskPlaces]
        /\ target' \in [Update!Tasks -> Update!Ids \cup {Update!NoId}]
        /\ \A s \in Update!Tasks \ {t} : pc'[s] = pc[s] /\ target'[s] = target[s]
    BY <1>4, <2>1 DEF UpdateInv, UpdateTyped, TaskPlaces
  <2>3. TaskFound(t)'
    BY <1>1, <1>4, <2>1, <2>2 DEF TaskFound, Update!UrlOf, Update!WithUrl, Update!Rows, Update!Updater
  <2> QED
    BY <1>1, <2>1, <2>2, <2>3, SameRows, UpdateRenames DEF UpdateInv
<1> QED
  BY <1>3, <1>4 DEF Update!FindByUrl

\* No row of another URL has a name made from its title.
LEMMA OnlyItsRows ==
    ASSUME UpdateInv, NEW u \in Update!Urls, NEW i \in Update!Rows,
           Update!Generated(title[u], row[i].name)
    PROVE  i \in Update!WithUrl(u)
<1>1. row[i].url \in Update!Urls /\ row[i].name \in Update!Names
  BY RowTyped DEF UpdateInv
<1>2. row[i].url = u
  BY <1>1, UrlOfName DEF UpdateInv, OneRowEach
<1> QED
  BY <1>2 DEF Update!WithUrl

LEMMA UpdateFindByName ==
    ASSUME UpdateInv, NEW t \in Update!Tasks, Update!FindByName(t)
    PROVE  UpdateInv' /\ Update!Rows \subseteq Update!Rows'
<1>1. /\ pc[t] = "name" /\ target[t] = Update!NoId /\ pc' = [pc EXCEPT ![t] = "save"]
      /\ UNCHANGED <<title, row, url, failed, stage, doomed, dups>>
      /\ t # 0 /\ Update!WithUrl(t) = {}
  BY DEF Update!FindByName, Update!Rest, Update!Go, UpdateInv, TaskFound, Update!Updater
<1>2. t \in Update!Urls /\ title[t] \in Update!Names
  BY <1>1, UpdateConstants DEF UpdateInv, UpdateTyped
<1>3. \A i \in Update!Rows : ~Update!Generated(title[t], row[i].name)
  BY <1>1, <1>2, OnlyItsRows
<1>4. Update!Generated(title[t], title[t])
  BY <1>2, GeneratedFromItself, UpdateConstants, NamesAreSequences
<1>5. Update!ByName(title[t]) = {}
  BY <1>3, <1>4 DEF Update!ByName, Update!Named
<1>6. target' = target
  BY <1>5 DEF Update!FindByName
<1>7. /\ pc'[t] = "save" /\ pc' \in [Update!Tasks -> TaskPlaces]
      /\ target' \in [Update!Tasks -> Update!Ids \cup {Update!NoId}]
      /\ \A s \in Update!Tasks \ {t} : pc'[s] = pc[s] /\ target'[s] = target[s]
  BY <1>1, <1>6 DEF UpdateInv, UpdateTyped, TaskPlaces
<1>8. TaskFound(t)'
  BY <1>1, <1>6, <1>7 DEF TaskFound, Update!WithUrl, Update!Rows, Update!Updater
<1> QED
  BY <1>1, <1>7, <1>8, SameRows, UpdateRenames DEF UpdateInv

LEMMA UpdateUpsertFails ==
    ASSUME UpdateInv, NEW t \in Update!Tasks, Update!UpsertFails(t)
    PROVE  UpdateInv' /\ Update!Rows \subseteq Update!Rows'
<1>1. /\ pc[t] = "save" /\ pc' = [pc EXCEPT ![t] = "done"]
      /\ failed' = failed \cup ({t} \cap Update!Subs)
      /\ UNCHANGED <<title, row, url, target, dups, stage, doomed>>
  BY DEF Update!UpsertFails, Update!Go, Update!FailedWith
<1>2. /\ pc'[t] = "done" /\ pc' \in [Update!Tasks -> TaskPlaces]
      /\ target' \in [Update!Tasks -> Update!Ids \cup {Update!NoId}]
      /\ \A s \in Update!Tasks \ {t} : pc'[s] = pc[s] /\ target'[s] = target[s]
  BY <1>1 DEF UpdateInv, UpdateTyped, TaskPlaces
<1>3. t # Update!Updater => t \in failed'
  BY <1>1 DEF Update!Tasks
<1>4. TaskFound(t)'
  BY <1>2, <1>3 DEF TaskFound
<1>5. stage' # "upsert" => \A s \in Update!Subs : pc'[s] = "done"
  BY <1>1, <1>2, UpdateConstants DEF UpdateInv
<1>6. pc'[0] # "idle" => pc[0] # "idle"
  BY <1>1, <1>2, UpdateConstants
<1> QED
  BY <1>1, <1>2, <1>4, <1>5, <1>6, SameRows, UpdateRenames DEF UpdateInv

\* The new row is the only one of its URL.
LEMMA UpdateInsert ==
    ASSUME UpdateInv, NEW t \in Update!Tasks, Update!Insert(t)
    PROVE  UpdateInv' /\ Update!Rows \subseteq Update!Rows'
<1> DEFINE new == Update!NewId(t)
<1>1. /\ pc[t] = "save" /\ target[t] = Update!NoId
      /\ pc' = [pc EXCEPT ![t] = "dups"] /\ target' = [target EXCEPT ![t] = new]
      /\ UNCHANGED <<title, url, failed, stage, doomed, dups>>
  BY DEF Update!Insert, Update!Go, Update!Rest
<1>2. t # 0 /\ Update!WithUrl(t) = {} /\ Update!UrlOf(t) = t
  BY <1>1 DEF UpdateInv, TaskFound, Update!Updater, Update!UrlOf
<1>3. t \in Update!Urls /\ t \in Update!Subs /\ new \in Update!Ids /\ 0 \notin Update!Ids
  BY <1>2, UpdateConstants DEF Update!NoId
<1>4. new \notin Update!Rows
  BY <1>2, <1>3 DEF UpdateInv, OneRowEach, Update!WithUrl
<1>5. PICK n \in Update!FreeNames(title[t]) :
        row' = Update!OnlyActive(new,
                   [row EXCEPT ![new] = [url |-> t, name |-> n, active |-> TRUE]])
  BY <1>2 DEF Update!Insert
<1>6. n \in Update!Names /\ Update!Generated(title[t], n)
  BY DEF Update!FreeNames
<1>7. [url |-> t, name |-> n, active |-> TRUE] \in Update!Row /\ Update!Gone \notin Update!Row
  BY <1>3, <1>6, UpdateConstants DEF Update!Row
<1> DEFINE rows == [row EXCEPT ![new] = [url |-> t, name |-> n, active |-> TRUE]]
<1>8. /\ rows \in [Update!Ids -> Update!Row \cup {Update!Gone}]
      /\ rows[new] = [url |-> t, name |-> n, active |-> TRUE]
      /\ \A i \in Update!Ids \ {new} : rows[i] = row[i]
  BY <1>3, <1>7 DEF UpdateInv, UpdateTyped
<1>9. \A i \in Update!Ids : row'[i] = IF rows[i] = Update!Gone THEN Update!Gone
                                      ELSE [rows[i] EXCEPT !.active = i = new]
  BY <1>5 DEF Update!OnlyActive
<1> HIDE DEF rows, new
<1>10. ASSUME NEW i \in Update!Ids, rows[i] # Update!Gone
       PROVE  /\ row'[i] \in Update!Row /\ row'[i] # Update!Gone
              /\ row'[i].url = rows[i].url /\ row'[i].name = rows[i].name
  <2>1. rows[i] \in Update!Row
    BY <1>8, <1>10
  <2>2. /\ [rows[i] EXCEPT !.active = i = new] \in Update!Row
        /\ [rows[i] EXCEPT !.active = i = new].url = rows[i].url
        /\ [rows[i] EXCEPT !.active = i = new].name = rows[i].name
    BY <2>1 DEF Update!Row
  <2>3. row'[i] = [rows[i] EXCEPT !.active = i = new]
    BY <1>9, <1>10
  <2> QED
    BY <1>7, <2>2, <2>3
<1>11. rows[new] # Update!Gone /\ row'[new].url = t /\ row'[new].name = n
  <2>1. rows[new] # Update!Gone
    BY <1>7, <1>8
  <2> QED
    BY <1>3, <1>8, <1>10, <2>1
<1>12. Update!Rows' = Update!Rows \cup {new}
  <2>1. ASSUME NEW i \in Update!Ids, i # new PROVE row'[i] # Update!Gone <=> row[i] # Update!Gone
    BY <1>8, <1>9, <1>10, <2>1
  <2>2. row'[new] # Update!Gone
    BY <1>3, <1>10, <1>11
  <2> QED
    BY <1>3, <2>1, <2>2 DEF Update!Rows
<1>13. \A i \in Update!Rows : /\ i # new /\ row'[i].url = row[i].url /\ row'[i].name = row[i].name
                              /\ row[i].url # t
  <2> TAKE i \in Update!Rows
  <2>1. i # new /\ i \in Update!Ids /\ row[i] # Update!Gone
    BY <1>4 DEF Update!Rows
  <2>2. rows[i] = row[i]
    BY <1>8, <2>1
  <2>3. row[i].url # t
    BY <1>2 DEF Update!WithUrl
  <2> QED
    BY <1>10, <2>1, <2>2, <2>3
<1>14. row' \in [Update!Ids -> Update!Row \cup {Update!Gone}]
  <2>1. \A i \in Update!Ids : row'[i] \in Update!Row \cup {Update!Gone}
    BY <1>9, <1>10
  <2> QED
    BY <1>5, <2>1 DEF Update!OnlyActive
<1>15. OneRowEach'
  <2>1. \A i \in Update!Rows' : Update!Generated(title'[row'[i].url], row'[i].name)
    BY <1>1, <1>6, <1>11, <1>12, <1>13 DEF UpdateInv, OneRowEach
  <2>2. \A i, j \in Update!Rows' : row'[i].url = row'[j].url => i = j
    BY <1>11, <1>12, <1>13 DEF UpdateInv, OneRowEach
  <2>3. \A s \in Update!Subs : Update!NewId(s) \in Update!Rows' => row'[Update!NewId(s)].url = s
    <3> TAKE s \in Update!Subs
    <3>1. CASE Update!NewId(s) = new
      <4>1. s = t
        BY <3>1, UpdateConstants DEF new
      <4> QED
        BY <1>11, <3>1, <4>1
    <3>2. CASE Update!NewId(s) # new
      BY <1>12, <1>13, <3>2 DEF UpdateInv, OneRowEach
    <3> QED
      BY <3>1, <3>2
  <2> QED
    BY <2>1, <2>2, <2>3 DEF OneRowEach
<1>16. new \in Update!WithUrl(t)' /\ \A u : u # t => Update!WithUrl(u)' = Update!WithUrl(u)
  BY <1>11, <1>12, <1>13 DEF Update!WithUrl
<1>17. /\ pc'[t] = "dups" /\ pc' \in [Update!Tasks -> TaskPlaces]
       /\ target'[t] = new /\ target' \in [Update!Tasks -> Update!Ids \cup {Update!NoId}]
       /\ \A s \in Update!Tasks \ {t} : pc'[s] = pc[s] /\ target'[s] = target[s]
  BY <1>1, <1>3 DEF UpdateInv, UpdateTyped, TaskPlaces
<1>18. TaskFound(t)'
  BY <1>1, <1>2, <1>11, <1>12, <1>16, <1>17 DEF TaskFound, Update!UrlOf
<1>19. pc[0] # "idle" => url # t
  BY <1>2 DEF UpdateInv
<1>20. ASSUME NEW s \in Update!Tasks, s # t PROVE TaskFound(s)'
  <2>1. TaskFound(s) /\ Update!UrlOf(s)' = Update!UrlOf(s)
    BY <1>1 DEF UpdateInv, Update!UrlOf
  <2>2. s # Update!Updater => Update!WithUrl(s)' = Update!WithUrl(s)
    BY <1>16, <1>20
  <2> QED
    BY <1>1, <1>12, <1>13, <1>17, <1>20, <2>1, <2>2 DEF TaskFound
<1>21. 0 \in Update!Tasks /\ \A s \in Update!Subs : s \in Update!Tasks
  BY UpdateConstants
<1>22. UpdateTyped'
  BY <1>1, <1>14, <1>17 DEF UpdateInv, UpdateTyped, Apart
<1>23. pc'[0] # "idle" => url' \in Update!Urls /\ Update!WithUrl(url)' # {}
  BY <1>1, <1>2, <1>16, <1>17, <1>19, <1>21 DEF UpdateInv
<1>24. stage' # "upsert" => \A s \in Update!Subs : pc'[s] = "done"
  BY <1>1, <1>3 DEF UpdateInv
<1> QED
  BY <1>1, <1>12, <1>15, <1>18, <1>20, <1>22, <1>23, <1>24 DEF UpdateInv

LEMMA UpdateEdit ==
    ASSUME UpdateInv, NEW t \in Update!Tasks, Update!Edit(t)
    PROVE  UpdateInv' /\ Update!Rows \subseteq Update!Rows'
<1> DEFINE i == target[t]
<1>1. /\ pc[t] = "save" /\ i # Update!NoId /\ pc' = [pc EXCEPT ![t] = "dups"]
      /\ UNCHANGED <<title, url, failed, stage, doomed, dups, target>>
  BY DEF Update!Edit, Update!Go, Update!Rest
<1>2. i \in Update!Rows /\ row[i].url = Update!UrlOf(t)
  BY <1>1 DEF UpdateInv, TaskFound
<1>3. /\ i \in Update!Ids /\ row[i] \in Update!Row /\ Update!UrlOf(t) \in Update!Urls
      /\ title[Update!UrlOf(t)] \in Update!Names /\ Update!Gone \notin Update!Row
  <2>1. i \in Update!Ids /\ row[i] \in Update!Row /\ row[i].url \in Update!Urls
    BY <1>2, RowTyped DEF UpdateInv
  <2> QED
    BY <1>2, <2>1, UpdateConstants DEF UpdateInv, UpdateTyped
<1>4. row' = [row EXCEPT ![i].url = Update!UrlOf(t), ![i].name = title[Update!UrlOf(t)]]
  BY <1>2 DEF Update!Edit
<1>5. /\ row'[i] = [row[i] EXCEPT !.url = Update!UrlOf(t), !.name = title[Update!UrlOf(t)]]
      /\ \A j \in Update!Ids \ {i} : row'[j] = row[j]
      /\ DOMAIN row' = Update!Ids /\ row' = [j \in Update!Ids |-> row'[j]]
  BY <1>3, <1>4 DEF UpdateInv, UpdateTyped
<1>6. /\ row'[i] \in Update!Row /\ row'[i].url = row[i].url
      /\ row'[i].name = title[row[i].url]
  BY <1>2, <1>3, <1>5 DEF Update!Row
<1>7. row' \in [Update!Ids -> Update!Row \cup {Update!Gone}]
  BY <1>5, <1>6 DEF UpdateInv, UpdateTyped
<1>8. Renamed
  <2>1. Update!Rows' = Update!Rows
    BY <1>2, <1>3, <1>5, <1>6 DEF Update!Rows
  <2> QED
    BY <1>5, <1>6, <2>1 DEF Renamed, Update!Rows
<1>9. /\ pc'[t] = "dups" /\ pc' \in [Update!Tasks -> TaskPlaces]
      /\ target' \in [Update!Tasks -> Update!Ids \cup {Update!NoId}]
      /\ \A s \in Update!Tasks \ {t} : pc'[s] = pc[s] /\ target'[s] = target[s]
  BY <1>1 DEF UpdateInv, UpdateTyped, TaskPlaces
<1>10. t # Update!Updater => i \in Update!WithUrl(t)
  BY <1>2 DEF Update!WithUrl, Update!UrlOf
<1>11. (\A u : Update!WithUrl(u)' = Update!WithUrl(u)) => TaskFound(t)'
  BY <1>1, <1>2, <1>6, <1>8, <1>9, <1>10 DEF TaskFound, Update!UrlOf, Renamed
<1>12. stage' # "upsert" => \A s \in Update!Subs : pc'[s] = "done"
  BY <1>1, <1>9, UpdateConstants DEF UpdateInv, TaskFound
<1>13. pc'[0] # "idle" => pc[0] # "idle"
  BY <1>1, <1>9, UpdateConstants
<1> QED
  BY <1>1, <1>7, <1>8, <1>9, <1>11, <1>12, <1>13, UpdateRenames

LEMMA UpdateFindDups ==
    ASSUME UpdateInv, NEW t \in Update!Tasks, Update!FindDups(t)
    PROVE  UpdateInv' /\ Update!Rows \subseteq Update!Rows'
<1>1. /\ pc[t] = "dups" /\ pc' = [pc EXCEPT ![t] = "purge"]
      /\ dups' = [dups EXCEPT ![t] = Update!Duplicates(t)]
      /\ UNCHANGED <<title, row, url, failed, stage, doomed, target>>
  BY DEF Update!FindDups, Update!Go, Update!Rest
<1>2. /\ target[t] \in Update!Rows /\ row[target[t]].url = Update!UrlOf(t)
      /\ Update!UrlOf(t) \in Update!Urls
  BY <1>1, RowTyped DEF UpdateInv, TaskFound
<1>3. Update!Duplicates(t) = {}
  <2> SUFFICES ASSUME NEW i \in Update!Rows, i # target[t],
                      Update!Generated(title[Update!UrlOf(t)], row[i].name)
               PROVE  FALSE
    BY DEF Update!Duplicates
  <2>1. row[i].url = Update!UrlOf(t)
    BY <1>2, OnlyItsRows DEF Update!WithUrl
  <2> QED
    BY <1>2, <2>1 DEF UpdateInv, OneRowEach
<1>4. dups' = dups
  BY <1>1, <1>3 DEF UpdateInv
<1>5. /\ pc'[t] = "purge" /\ pc' \in [Update!Tasks -> TaskPlaces]
      /\ target' \in [Update!Tasks -> Update!Ids \cup {Update!NoId}]
      /\ \A s \in Update!Tasks \ {t} : pc'[s] = pc[s] /\ target'[s] = target[s]
  BY <1>1 DEF UpdateInv, UpdateTyped, TaskPlaces
<1>6. (\A u : Update!WithUrl(u)' = Update!WithUrl(u)) => TaskFound(t)'
  BY <1>1, <1>5 DEF UpdateInv, TaskFound
<1>7. stage' # "upsert" => \A s \in Update!Subs : pc'[s] = "done"
  BY <1>1, <1>5, UpdateConstants DEF UpdateInv
<1>8. pc'[0] # "idle" => pc[0] # "idle"
  BY <1>1, <1>5, UpdateConstants
<1> QED
  BY <1>1, <1>4, <1>5, <1>6, <1>7, <1>8, SameRows, UpdateRenames DEF UpdateInv

LEMMA UpdatePurge ==
    ASSUME UpdateInv, NEW t \in Update!Tasks, Update!Purge(t)
    PROVE  UpdateInv' /\ Update!Rows \subseteq Update!Rows'
<1>1. dups[t] = {}
  BY DEF UpdateInv
<1>2. /\ pc[t] = "purge" /\ pc' = [pc EXCEPT ![t] = "done"]
      /\ UNCHANGED <<title, row, url, failed, stage, doomed, dups, target>>
  BY <1>1 DEF Update!Purge, Update!Go, Update!Rest
<1>3. /\ pc'[t] = "done" /\ pc' \in [Update!Tasks -> TaskPlaces]
      /\ target' \in [Update!Tasks -> Update!Ids \cup {Update!NoId}]
      /\ \A s \in Update!Tasks \ {t} : pc'[s] = pc[s] /\ target'[s] = target[s]
  BY <1>2 DEF UpdateInv, UpdateTyped, TaskPlaces
<1>4. (\A u : Update!WithUrl(u)' = Update!WithUrl(u)) => TaskFound(t)'
  BY <1>2, <1>3 DEF UpdateInv, TaskFound
<1>5. stage' # "upsert" => \A s \in Update!Subs : pc'[s] = "done"
  BY <1>2, <1>3, UpdateConstants DEF UpdateInv
<1>6. pc'[0] # "idle" => pc[0] # "idle"
  BY <1>2, <1>3, UpdateConstants
<1> QED
  BY <1>2, <1>3, <1>4, <1>5, <1>6, SameRows, UpdateRenames DEF UpdateInv

\* The import itself leaves the tasks alone.
LEMMA UpdateStage ==
    ASSUME UpdateInv, UNCHANGED <<title, pc, url, dups, failed, doomed>>,
           Renamed, row' \in [Update!Ids -> Update!Row \cup {Update!Gone}],
           \/ target' = target
           \/ /\ stage # "upsert" /\ target' \in [Update!Tasks -> Update!Ids \cup {Update!NoId}]
              /\ \A s \in Update!Tasks \ {1} : target'[s] = target[s],
           stage' # "upsert" => \A s \in Update!Subs : pc[s] = "done"
    PROVE  UpdateInv' /\ Update!Rows \subseteq Update!Rows'
<1>1. 1 \in Update!Tasks /\ 1 \in Update!Subs /\ 1 # Update!Updater
  BY UpdateConstants DEF Update!Updater
<1>2. /\ \A s \in Update!Tasks \ {1} : pc'[s] = pc[s] /\ target'[s] = target[s]
      /\ target' \in [Update!Tasks -> Update!Ids \cup {Update!NoId}]
      /\ pc' \in [Update!Tasks -> TaskPlaces] /\ failed \subseteq failed'
  BY DEF UpdateInv, UpdateTyped
<1>3. (\A u : Update!WithUrl(u)' = Update!WithUrl(u)) => TaskFound(1)'
  <2>1. CASE target' = target
    BY <1>1, <2>1, OthersFound DEF UpdateInv
  <2>2. CASE stage # "upsert"
    <3>1. pc[1] = "done" /\ pc'[1] = "done"
      BY <1>1, <2>2 DEF UpdateInv
    <3>2. TaskFound(1)
      BY <1>1 DEF UpdateInv
    <3> QED
      BY <3>1, <3>2 DEF TaskFound
  <2> QED
    BY <2>1, <2>2
<1> QED
  BY <1>1, <1>2, <1>3, UpdateRenames

LEMMA UpdateImport ==
    ASSUME UpdateInv,
           \/ Update!Outcomes \/ Update!PickActive \/ Update!Activate \/ Update!FindObsolete
           \/ Update!DeleteObsolete \/ Update!NormalizeNames
    PROVE  UpdateInv' /\ Update!Rows \subseteq Update!Rows'
<1> USE DEF Update!Quiet, Update!Stage
<1>1. CASE Update!Outcomes
  BY <1>1, SameRows, UpdateStage DEF Update!Outcomes, UpdateInv
<1>2. CASE Update!PickActive
  <2>1. /\ stage = "pick" /\ UNCHANGED <<title, pc, url, dups, failed, doomed, row>>
        /\ \/ target' = target
           \/ \E i \in Update!Ids : target' = [target EXCEPT ![1] = i]
    BY <1>2 DEF Update!PickActive, Update!WithUrl, Update!Rows
  <2>2. \/ target' = target
        \/ /\ stage # "upsert" /\ target' \in [Update!Tasks -> Update!Ids \cup {Update!NoId}]
           /\ \A s \in Update!Tasks \ {1} : target'[s] = target[s]
    BY <2>1 DEF UpdateInv, UpdateTyped
  <2>3. \A s \in Update!Subs : pc[s] = "done"
    BY <2>1 DEF UpdateInv
  <2>4. Renamed /\ row' \in [Update!Ids -> Update!Row \cup {Update!Gone}]
    BY <2>1, SameRows DEF UpdateInv
  <2> QED
    BY <2>1, <2>2, <2>3, <2>4, UpdateStage
<1>3. CASE Update!Activate
  <2>1. Renamed /\ row' \in [Update!Ids -> Update!Row \cup {Update!Gone}]
    BY <1>3, SameRows, OnlyActiveRenames DEF Update!Activate, UpdateInv
  <2> QED
    BY <1>3, <2>1, UpdateStage DEF Update!Activate, UpdateInv
<1>4. CASE Update!FindObsolete
  <2>1. Update!Obsolete = {}
    <3>1. Update!Urls = Update!Subs
      BY UpdateConstants
    <3> QED
      BY <3>1, RowTyped DEF Update!Obsolete, UpdateInv
  <2>2. doomed' = {}
    BY <1>4, <2>1 DEF Update!FindObsolete
  <2> QED
    BY <1>4, <2>2, SameRows, UpdateStage DEF Update!FindObsolete, UpdateInv
<1>5. CASE Update!DeleteObsolete
  <2>1. doomed = {}
    BY DEF UpdateInv
  <2>2. stage = "delete" /\ UNCHANGED <<title, pc, url, dups, failed, row, doomed, target>>
    BY <1>5, <2>1 DEF Update!DeleteObsolete
  <2> QED
    BY <2>2, SameRows, UpdateStage DEF UpdateInv
<1>6. CASE Update!NormalizeNames
  <2>1. /\ stage = "names" /\ UNCHANGED <<title, pc, url, dups, failed, doomed, target>>
        /\ row' = [i \in Update!Ids |->
                     IF /\ i \in Update!Rows /\ row[i].url \in Update!Successes
                        /\ Update!Named(title[row[i].url]) \subseteq {i}
                     THEN [row[i] EXCEPT !.name = title[row[i].url]] ELSE row[i]]
    BY <1>6 DEF Update!NormalizeNames
  <2>2. ASSUME NEW i \in Update!Ids
        PROVE  /\ row'[i] \in Update!Row \cup {Update!Gone}
               /\ row'[i] # Update!Gone <=> row[i] # Update!Gone
               /\ i \in Update!Rows => /\ row'[i].url = row[i].url
                                       /\ row'[i].name \in {row[i].name, title[row[i].url]}
    <3>1. CASE i \notin Update!Rows
      BY <2>1, <3>1 DEF UpdateInv, UpdateTyped
    <3>2. CASE i \in Update!Rows
      <4>1. row[i] \in Update!Row /\ row[i] # Update!Gone /\ title[row[i].url] \in Update!Names
        BY <3>2, RowTyped, UpdateConstants DEF UpdateInv, UpdateTyped, Update!Rows
      <4>2. [row[i] EXCEPT !.name = title[row[i].url]] \in Update!Row /\ Update!Gone \notin Update!Row
        BY <4>1, UpdateConstants DEF Update!Row
      <4>3. /\ [row[i] EXCEPT !.name = title[row[i].url]].url = row[i].url
            /\ [row[i] EXCEPT !.name = title[row[i].url]].name = title[row[i].url]
        BY <4>1 DEF Update!Row
      <4>4. row'[i] \in {row[i], [row[i] EXCEPT !.name = title[row[i].url]]}
        BY <2>1
      <4> QED
        BY <4>1, <4>2, <4>3, <4>4
    <3> QED
      BY <3>1, <3>2
  <2>3. row' \in [Update!Ids -> Update!Row \cup {Update!Gone}]
    BY <2>1, <2>2
  <2>4. Renamed
    BY <2>2 DEF Renamed, Update!Rows
  <2> QED
    BY <2>1, <2>3, <2>4, UpdateStage DEF UpdateInv
<1> QED
  BY <1>1, <1>2, <1>3, <1>4, <1>5, <1>6

LEMMA UpdateNext ==
    UpdateInv /\ [Update!Next]_importVars => UpdateInv' /\ Update!KeepsOne
<1> SUFFICES ASSUME UpdateInv, [Update!Next]_importVars
             PROVE  UpdateInv' /\ Update!Rows \subseteq Update!Rows'
  BY DEF Update!KeepsOne
<1>1. CASE UNCHANGED importVars
  <2>1. UNCHANGED <<title, row, pc, url, target, dups, failed, stage, doomed>>
    BY <1>1 DEF importVars
  <2> QED
    BY <2>1, SameRows, UpdateStage DEF UpdateInv
<1>2. ASSUME NEW t \in Update!Tasks,
             \/ Update!FindByUrl(t) \/ Update!FindByName(t) \/ Update!UpsertFails(t)
             \/ Update!Insert(t) \/ Update!Edit(t) \/ Update!FindDups(t) \/ Update!Purge(t)
      PROVE  UpdateInv' /\ Update!Rows \subseteq Update!Rows'
  BY <1>2, UpdateFindByUrl, UpdateFindByName, UpdateUpsertFails, UpdateInsert, UpdateEdit,
     UpdateFindDups, UpdatePurge
<1>3. ASSUME NEW i \in Update!Ids, Update!SetAsActive(i)
      PROVE  UpdateInv' /\ Update!Rows \subseteq Update!Rows'
  BY <1>3, OnlyActiveRenames, UpdateStage DEF Update!SetAsActive, UpdateInv
<1> QED
  BY <1>1, <1>2, <1>3, UpdateBegin, UpdateImport DEF Update!Next

LEMMA UpdateAppears == UpdateInv => Update!ImportedAppear
BY UpdateConstants DEF UpdateInv, TaskFound, Update!ImportedAppear, Update!Updater

-----------------------------------------------------------------------------
(***************************************************************************)
(* The import beside older profiles.                                       *)
(***************************************************************************)
RotationTyped ==
    /\ title \in [Rotation!Urls -> Rotation!Titles] /\ Apart(title, Rotation!Subs)
    /\ row \in [Rotation!Ids -> Rotation!Row \cup {Rotation!Gone}]
    /\ pc \in [Rotation!Tasks -> TaskPlaces] /\ pc[0] = "idle"
    /\ target \in [Rotation!Tasks -> Rotation!Ids \cup {Rotation!NoId}]
    /\ dups \in [Rotation!Tasks -> SUBSET Rotation!Ids]
    /\ failed \subseteq Rotation!Subs

\* A row may be a subscription's when its name is made from the title.
Fits(s, i) == Rotation!Generated(title[s], row[i].name)

\* Its upsert has written a row.
Saved(s) == pc[s] \in {"dups", "purge"} \/ (pc[s] = "done" /\ s \notin failed)

\* What an upsert holds: a row that fits, in the end with its URL; duplicates,
\* which fit too; and an identifier that nobody else uses before it does.
UpsertHolds(s) ==
    /\ (pc[s] = "save" /\ target[s] # Rotation!NoId) \/ pc[s] \in {"dups", "purge"} =>
         target[s] \in Rotation!Rows /\ Fits(s, target[s])
    /\ pc[s] \in {"dups", "purge"} => row[target[s]].url = s
    /\ pc[s] \in {"url", "name"} => target[s] = Rotation!NoId
    /\ target[s] \notin dups[s] /\ (pc[s] # "purge" => dups[s] = {})
    /\ \A i \in dups[s] \cap Rotation!Rows : Fits(s, i)
    /\ pc[s] \in {"url", "name"} \/ (pc[s] = "save" /\ target[s] = Rotation!NoId) =>
         /\ Rotation!NewId(s) \notin Rotation!Rows
         /\ \A r \in Rotation!Subs : Rotation!NewId(s) \notin dups[r]
    /\ Saved(s) => Rotation!WithUrl(s) # {}
    /\ s \in failed => pc[s] = "done"

\* At most one row is active; one is as long as no row has been written, and
\* again, with the URL of a success, once the import has seen to it.
ActiveRows ==
    /\ \A i, j \in Rotation!Rows : row[i].active /\ row[j].active => i = j
    /\ (\A s \in Rotation!Subs : ~Saved(s)) =>
         Rotation!Rows = {} \/ \E i \in Rotation!Rows : row[i].active
    /\ stage \in {"pick", "activate", "obsolete", "delete", "names"} => Rotation!Successes # {}
    /\ stage = "activate" =>
         target[1] \in Rotation!Rows /\ row[target[1]].url \in Rotation!Successes
    /\ stage \in {"obsolete", "delete", "names", "done"} /\ Rotation!Successes # {} =>
         \E i \in Rotation!Rows : row[i].active /\ row[i].url \in Rotation!Successes

\* Rows to be deleted have the URL of no subscription and are not active.
DoomedRows ==
    /\ doomed \subseteq Rotation!Ids \X BOOLEAN
    /\ doomed # {} => stage = "delete" /\ failed = {}
    /\ \A d \in doomed :
         /\ ~d[2]
         /\ d[1] \in Rotation!Rows => row[d[1]].url \notin Rotation!Subs

RotationInv ==
    /\ RotationTyped
    /\ \A i \in Rotation!Rows : row[i].url \in Rotation!Subs => Fits(row[i].url, i)
    /\ \A s \in Rotation!Subs : UpsertHolds(s)
    /\ ActiveRows /\ DoomedRows
    /\ stage # "upsert" => \A s \in Rotation!Subs : pc[s] = "done"
    /\ acts = 0

LEMMA RotationConstants ==
    /\ NSubs \in Nat \ {0} /\ NUrls \in Nat /\ NSubs <= NUrls
    /\ Rotation!Urls = 1..NUrls /\ Rotation!Subs = 1..NSubs /\ Rotation!Tasks = 0..NSubs
    /\ Rotation!Urls \subseteq Rotation!Ids /\ Rotation!NoId \notin Rotation!Ids
    /\ \A t \in Rotation!Tasks : Rotation!NewId(t) \in Rotation!Ids \ Rotation!Urls
    /\ \A t, s \in Rotation!Tasks : Rotation!NewId(t) = Rotation!NewId(s) => t = s
<1>1. NSubs \in Nat \ {0} /\ NUrls \in Nat /\ NSubs <= NUrls
  BY ImportsAssumption DEF ImportsAssumption, Rotation!ImportAssumption
<1>2. /\ Rotation!Urls = 1..NUrls /\ Rotation!Subs = 1..NSubs /\ Rotation!Tasks = 0..NSubs
  BY <1>1 DEF Rotation!Urls, Rotation!Subs, Rotation!Tasks, Rotation!Updater
<1>3. /\ Rotation!Urls \subseteq Rotation!Ids /\ Rotation!NoId \notin Rotation!Ids
      /\ \A t \in Rotation!Tasks : Rotation!NewId(t) \in Rotation!Ids \ Rotation!Urls
      /\ \A t, s \in Rotation!Tasks : Rotation!NewId(t) = Rotation!NewId(s) => t = s
  BY <1>1, <1>2 DEF Rotation!Ids, Rotation!NoId, Rotation!NewId
<1> QED
  BY <1>1, <1>2, <1>3

LEMMA SubsAreTasks ==
    /\ Rotation!Subs \subseteq Rotation!Tasks /\ Rotation!Subs \subseteq Rotation!Urls
    /\ 0 \notin Rotation!Subs /\ Rotation!Tasks = Rotation!Subs \cup {0}
    /\ 1 \in Rotation!Subs
BY RotationConstants

LEMMA NoRowIsGone == Rotation!Gone \notin Rotation!Row
BY RotationConstants DEF Rotation!Gone, Rotation!Row

LEMMA TitlesAreSequences ==
    ASSUME RotationTyped, NEW u \in Rotation!Urls
    PROVE  title[u] \in Rotation!Names /\ title[u] \in Seq(Chars)
BY NamesAreSequences DEF RotationTyped, Rotation!Titles

LEMMA RotationRowTyped ==
    ASSUME RotationTyped, NEW i \in Rotation!Rows
    PROVE  /\ i \in Rotation!Ids /\ row[i] \in Rotation!Row /\ row[i].url \in Rotation!Urls
           /\ row[i].name \in Rotation!Names /\ row[i].active \in BOOLEAN
<1>1. i \in Rotation!Ids /\ row[i] \in Rotation!Row
  BY DEF RotationTyped, Rotation!Rows
<1> QED
  BY <1>1 DEF Rotation!Row

\* A row fits one subscription at most.
LEMMA FitsOne ==
    ASSUME RotationTyped, NEW i \in Rotation!Rows, NEW s \in Rotation!Subs, NEW r \in Rotation!Subs,
           Fits(s, i), Fits(r, i)
    PROVE  s = r
<1>1. title[s] \in Seq(Chars) /\ title[r] \in Seq(Chars) /\ row[i].name \in Seq(Chars)
  BY SubsAreTasks, TitlesAreSequences, RotationRowTyped, NamesAreSequences
<1>2. Rotation!Generated(title[s], title[r]) \/ Rotation!Generated(title[r], title[s])
  BY <1>1, OneBase DEF Fits
<1> QED
  BY <1>2 DEF RotationTyped, Apart

\* What another upsert holds stays so in a step that leaves its fitting rows
\* alone, inserts nothing but its own row and reads nothing but rows.
LEMMA OthersHold ==
    ASSUME RotationInv, NEW s \in Rotation!Subs, NEW r \in Rotation!Subs, r # s,
           title' = title, pc'[r] = pc[r], target'[r] = target[r], dups'[r] = dups[r],
           r \in failed <=> r \in failed',
           \A j \in Rotation!Rows : Fits(r, j) =>
               j \in Rotation!Rows' /\ row'[j].url = row[j].url /\ row'[j].name = row[j].name,
           Rotation!Rows' \subseteq Rotation!Rows \cup {Rotation!NewId(s)},
           Rotation!NewId(s) \in Rotation!Rows' \ Rotation!Rows => Rotation!NewId(s) \notin dups[r],
           \A q \in Rotation!Subs : dups'[q] \subseteq dups[q] \cup Rotation!Rows
    PROVE  UpsertHolds(r)'
<1>1. UpsertHolds(r)
  BY DEF RotationInv
<1>2. Rotation!NewId(r) # Rotation!NewId(s)
  BY RotationConstants, SubsAreTasks
<1>3. (pc[r] = "save" /\ target[r] # Rotation!NoId) \/ pc[r] \in {"dups", "purge"} =>
        /\ target[r] \in Rotation!Rows' /\ Fits(r, target[r])'
        /\ row'[target[r]].url = row[target[r]].url
  BY <1>1 DEF UpsertHolds, Fits
<1>4. \A i \in dups[r] \cap Rotation!Rows' : i \in Rotation!Rows /\ Fits(r, i) /\ Fits(r, i)'
  BY <1>1 DEF UpsertHolds, Fits
<1>5. Saved(r)' => Rotation!WithUrl(r)' # {}
  <2> SUFFICES ASSUME Saved(r)' PROVE Rotation!WithUrl(r)' # {}
    OBVIOUS
  <2>1. Saved(r)
    BY DEF Saved
  <2>2. PICK j \in Rotation!Rows : row[j].url = r
    BY <1>1, <2>1 DEF UpsertHolds, Rotation!WithUrl
  <2>3. Fits(r, j)
    BY <2>2 DEF RotationInv
  <2> QED
    BY <2>2, <2>3 DEF Rotation!WithUrl
<1>6. pc[r] \in {"url", "name"} \/ (pc[r] = "save" /\ target[r] = Rotation!NoId) =>
        /\ Rotation!NewId(r) \notin Rotation!Rows'
        /\ \A q \in Rotation!Subs : Rotation!NewId(r) \notin dups'[q]
  BY <1>1, <1>2 DEF UpsertHolds
<1> QED
  BY <1>1, <1>3, <1>4, <1>5, <1>6 DEF UpsertHolds

\* A step of an upsert.
LEMMA UpsertSteps ==
    ASSUME RotationInv, NEW s \in Rotation!Subs, pc[s] # "done",
           UNCHANGED <<title, stage, doomed, acts>>, RotationTyped', UpsertHolds(s)',
           \A r \in Rotation!Subs \ {s} :
               /\ pc'[r] = pc[r] /\ target'[r] = target[r] /\ dups'[r] = dups[r]
               /\ r \in failed <=> r \in failed'
               /\ \A j \in Rotation!Rows : Fits(r, j) =>
                    j \in Rotation!Rows' /\ row'[j].url = row[j].url /\ row'[j].name = row[j].name
               /\ Rotation!NewId(s) \in Rotation!Rows' \ Rotation!Rows => Rotation!NewId(s) \notin dups[r],
           Rotation!Rows' \subseteq Rotation!Rows \cup {Rotation!NewId(s)},
           dups'[s] \subseteq dups[s] \cup Rotation!Rows,
           \A i \in Rotation!Rows' : row'[i].url \in Rotation!Subs => Fits(row[i].url, i)',
           \A i, j \in Rotation!Rows' : row'[i].active /\ row'[j].active => i = j,
           \/ Saved(s)'
           \/ row' = row /\ ~Saved(s)
    PROVE  RotationInv'
<1>1. stage = "upsert" /\ doomed = {}
  BY DEF RotationInv, DoomedRows
<1>2. \A r \in Rotation!Subs : UpsertHolds(r)'
  BY OthersHold
<1>3. ActiveRows'
  <2>1. CASE Saved(s)'
    BY <1>1, <2>1 DEF ActiveRows
  <2>2. CASE row' = row /\ ~Saved(s)
    <3>1. \A r \in Rotation!Subs \ {s} : Saved(r) <=> Saved(r)'
      BY DEF Saved
    <3>2. (\A r \in Rotation!Subs : ~Saved(r)') => \A r \in Rotation!Subs : ~Saved(r)
      BY <2>2, <3>1
    <3> QED
      BY <1>1, <2>2, <3>2 DEF RotationInv, ActiveRows, Rotation!Rows
  <2> QED
    BY <2>1, <2>2
<1>4. DoomedRows'
  BY <1>1 DEF DoomedRows
<1> QED
  BY <1>1, <1>2, <1>3, <1>4 DEF RotationInv

LEMMA RotationInit == Rotation!Init => RotationInv
<1> SUFFICES ASSUME Rotation!Init PROVE RotationInv
  OBVIOUS
<1>1. title \in [Rotation!Urls -> Rotation!Titles] /\ Apart(title, Rotation!Subs)
  <2>1. Rotation!Subs = 1..NSubs
    BY RotationConstants
  <2> QED
    BY <2>1 DEF Rotation!Init, Apart
<1>2. PICK old \in SUBSET Rotation!Urls :
        \E top \in IF old = {} THEN {0} ELSE old :
        row = [i \in Rotation!Ids |-> IF i \in old
                                      THEN [url |-> i, name |-> title[i], active |-> i = top]
                                      ELSE Rotation!Gone]
  BY DEF Rotation!Init
<1>3. PICK top :
        (old # {} => top \in old) /\ row = [i \in Rotation!Ids |-> IF i \in old
                                      THEN [url |-> i, name |-> title[i], active |-> i = top]
                                      ELSE Rotation!Gone]
  BY <1>2
<1>4. old \subseteq Rotation!Ids
  BY RotationConstants
<1>5. \A i \in old : i \in Rotation!Ids /\ row[i] = [url |-> i, name |-> title[i], active |-> i = top]
  BY <1>3, <1>4
<1>6. \A i \in old : /\ row[i] \in Rotation!Row /\ row[i].url = i /\ row[i].name = title[i]
                     /\ row[i].active = (i = top)
  <2> TAKE i \in old
  <2>1. i \in Rotation!Urls /\ title[i] \in Rotation!Names
    <3>1. i \in Rotation!Urls
      OBVIOUS
    <3>2. title[i] \in Rotation!Titles /\ Rotation!Titles \subseteq Rotation!Names
      BY <1>1, <3>1 DEF Rotation!Titles
    <3> QED
      BY <3>1, <3>2
  <2>2. row[i] = [url |-> i, name |-> title[i], active |-> i = top]
    BY <1>5
  <2>3. row[i].url = i /\ row[i].name = title[i] /\ row[i].active = (i = top)
    BY <2>2
  <2>4. [url |-> i, name |-> title[i], active |-> i = top] \in Rotation!Row
    BY <2>1, Zenon DEF Rotation!Row
  <2> QED
    BY <2>2, <2>3, <2>4
<1>7. row \in [Rotation!Ids -> Rotation!Row \cup {Rotation!Gone}] /\ Rotation!Rows = old
  <2>1. \A i \in Rotation!Ids \ old : row[i] = Rotation!Gone
    BY <1>3
  <2>2. \A i \in Rotation!Ids : row[i] \in Rotation!Row \cup {Rotation!Gone}
    BY <1>6, <2>1
  <2>3. row \in [Rotation!Ids -> Rotation!Row \cup {Rotation!Gone}]
    BY <1>3, <2>2
  <2> QED
    BY <1>4, <1>6, <2>1, <2>3, NoRowIsGone DEF Rotation!Rows
<1>8. /\ pc = [t \in Rotation!Tasks |-> IF t = 0 THEN "idle" ELSE "url"]
      /\ target = [t \in Rotation!Tasks |-> Rotation!NoId]
      /\ dups = [t \in Rotation!Tasks |-> {}]
      /\ stage = "upsert" /\ doomed = {} /\ acts = 0 /\ failed = {}
  BY DEF Rotation!Init, Rotation!Updater
<1>9. RotationTyped
  BY <1>1, <1>7, <1>8, SubsAreTasks DEF RotationTyped, TaskPlaces
<1>10. \A i \in Rotation!Rows : Rotation!Generated(title[i], title[i])
  BY <1>7, <1>9, TitlesAreSequences, GeneratedFromItself
<1>11. \A i \in Rotation!Rows : row[i].url \in Rotation!Subs => Fits(row[i].url, i)
  BY <1>6, <1>7, <1>10 DEF Fits
<1>12. \A s \in Rotation!Subs : UpsertHolds(s)
  <2> TAKE s \in Rotation!Subs
  <2>1. pc[s] = "url" /\ target[s] = Rotation!NoId /\ \A r \in Rotation!Subs : dups[r] = {}
    BY <1>8, SubsAreTasks
  <2>2. Rotation!NewId(s) \notin Rotation!Rows
    BY <1>7, SubsAreTasks, RotationConstants
  <2> QED
    BY <1>8, <2>1, <2>2 DEF UpsertHolds, Saved
<1>13. ActiveRows
  <2>1. \A i, j \in Rotation!Rows : row[i].active /\ row[j].active => i = j
    BY <1>6, <1>7
  <2>2. Rotation!Rows = {} \/ \E i \in Rotation!Rows : row[i].active
    BY <1>3, <1>6, <1>7
  <2> QED
    BY <1>8, <2>1, <2>2 DEF ActiveRows
<1> QED
  BY <1>8, <1>9, <1>11, <1>12, <1>13 DEF RotationInv, DoomedRows

\* A subscription whose upsert has not ended.
LEMMA UpsertTask ==
    ASSUME RotationInv, NEW t \in Rotation!Tasks, pc[t] \notin {"idle", "done"}
    PROVE  t \in Rotation!Subs /\ Rotation!UrlOf(t) = t
BY SubsAreTasks DEF RotationInv, RotationTyped, Rotation!UrlOf, Rotation!Updater

LEMMA RotationFindByUrl ==
    ASSUME RotationInv, NEW t \in Rotation!Tasks, Rotation!FindByUrl(t)
    PROVE  RotationInv'
<1>1. /\ pc[t] = "url" /\ UNCHANGED <<title, row, failed, stage, doomed, dups, acts>>
  BY DEF Rotation!FindByUrl, Rotation!Rest
<1>2. t \in Rotation!Subs /\ Rotation!UrlOf(t) = t /\ t # Rotation!Updater /\ UpsertHolds(t)
  BY <1>1, UpsertTask, SubsAreTasks DEF Rotation!Updater, RotationInv
<1>3. \E p \in {"save", "name"} : \E i \in Rotation!WithUrl(t) \cup {Rotation!NoId} :
        /\ pc' = [pc EXCEPT ![t] = p] /\ target' = [target EXCEPT ![t] = i]
        /\ p = "name" => i = Rotation!NoId
  <2>1. CASE \E i \in Rotation!WithUrl(t) :
               target' = [target EXCEPT ![t] = i] /\ pc' = [pc EXCEPT ![t] = "save"]
    BY <2>1
  <2>2. CASE target' = target /\ pc' = [pc EXCEPT ![t] = "name"]
    <3>1. target' = [target EXCEPT ![t] = Rotation!NoId]
      BY <1>1, <1>2, <2>2 DEF UpsertHolds, RotationInv, RotationTyped
    <3> QED
      BY <2>2, <3>1
  <2> QED
    BY <1>2, <2>1, <2>2 DEF Rotation!FindByUrl, Rotation!Go
<1>4. PICK p \in {"save", "name"}, i \in Rotation!WithUrl(t) \cup {Rotation!NoId} :
        /\ pc' = [pc EXCEPT ![t] = p] /\ target' = [target EXCEPT ![t] = i]
        /\ p = "name" => i = Rotation!NoId
  BY <1>3
<1>5. i = Rotation!NoId \/ (i \in Rotation!Rows /\ i \in Rotation!Ids /\ i # Rotation!NoId /\ Fits(t, i))
  BY <1>2, RotationConstants DEF RotationInv, Rotation!WithUrl, Rotation!Rows
<1>6. /\ pc'[t] = p /\ target'[t] = i /\ RotationTyped'
      /\ \A r \in Rotation!Subs \ {t} : pc'[r] = pc[r] /\ target'[r] = target[r]
  BY <1>1, <1>2, <1>4, <1>5, SubsAreTasks DEF RotationInv, RotationTyped, Apart, TaskPlaces
<1>7. UpsertHolds(t)'
  BY <1>1, <1>2, <1>4, <1>5, <1>6, RotationConstants
  DEF UpsertHolds, Saved, Fits, Rotation!Rows
<1>8. ~Saved(t)
  BY <1>1 DEF Saved
<1>9. /\ Rotation!Rows' = Rotation!Rows
      /\ \A j \in Rotation!Rows : row[j].url \in Rotation!Subs => Fits(row[j].url, j)'
      /\ \A j, k \in Rotation!Rows : row[j].active /\ row[k].active => j = k
  BY <1>1 DEF Rotation!Rows, RotationInv, ActiveRows, Fits
<1> QED
  BY <1>1, <1>2, <1>6, <1>7, <1>8, <1>9, UpsertSteps

\* A row of the name itself, or of one made from it.
LEMMA ByNameFits ==
    ASSUME RotationInv, NEW s \in Rotation!Subs, NEW i \in Rotation!ByName(title[s])
    PROVE  i \in Rotation!Rows /\ i \in Rotation!Ids /\ Fits(s, i)
<1>1. i \in Rotation!Rows /\ (row[i].name = title[s] \/ Rotation!Generated(title[s], row[i].name))
  BY DEF Rotation!ByName, Rotation!Named
<1>2. title[s] \in Seq(Chars)
  BY SubsAreTasks, TitlesAreSequences DEF RotationInv
<1>3. Rotation!Generated(title[s], title[s])
  BY <1>2, GeneratedFromItself
<1> QED
  BY <1>1, <1>3 DEF Fits, Rotation!Rows

LEMMA RotationFindByName ==
    ASSUME RotationInv, NEW t \in Rotation!Tasks, Rotation!FindByName(t)
    PROVE  RotationInv'
<1>1. /\ pc[t] = "name" /\ pc' = [pc EXCEPT ![t] = "save"]
      /\ UNCHANGED <<title, row, failed, stage, doomed, dups, acts>>
  BY DEF Rotation!FindByName, Rotation!Rest, Rotation!Go
<1>2. t \in Rotation!Subs /\ UpsertHolds(t)
  BY <1>1, UpsertTask DEF RotationInv
<1>3. \E i \in Rotation!ByName(title[t]) \cup {Rotation!NoId} : target' = [target EXCEPT ![t] = i]
  <2>1. CASE target' = target
    <3>1. target' = [target EXCEPT ![t] = Rotation!NoId]
      BY <1>1, <1>2, <2>1 DEF UpsertHolds, RotationInv, RotationTyped
    <3> QED
      BY <3>1
  <2> QED
    BY <2>1 DEF Rotation!FindByName
<1>4. PICK i \in Rotation!ByName(title[t]) \cup {Rotation!NoId} : target' = [target EXCEPT ![t] = i]
  BY <1>3
<1>5. i = Rotation!NoId \/ (i \in Rotation!Rows /\ i \in Rotation!Ids /\ i # Rotation!NoId /\ Fits(t, i))
  BY <1>2, <1>4, ByNameFits, RotationConstants
<1>6. /\ pc'[t] = "save" /\ target'[t] = i /\ RotationTyped'
      /\ \A r \in Rotation!Subs \ {t} : pc'[r] = pc[r] /\ target'[r] = target[r]
  BY <1>1, <1>2, <1>4, <1>5, SubsAreTasks DEF RotationInv, RotationTyped, Apart, TaskPlaces
<1>7. UpsertHolds(t)'
  BY <1>1, <1>2, <1>5, <1>6, RotationConstants DEF UpsertHolds, Saved, Fits, Rotation!Rows
<1>8. ~Saved(t)
  BY <1>1 DEF Saved
<1>9. /\ Rotation!Rows' = Rotation!Rows
      /\ \A j \in Rotation!Rows : row[j].url \in Rotation!Subs => Fits(row[j].url, j)'
      /\ \A j, k \in Rotation!Rows : row[j].active /\ row[k].active => j = k
  BY <1>1 DEF Rotation!Rows, RotationInv, ActiveRows, Fits
<1> QED
  BY <1>1, <1>2, <1>6, <1>7, <1>8, <1>9, UpsertSteps

LEMMA RotationUpsertFails ==
    ASSUME RotationInv, NEW t \in Rotation!Tasks, Rotation!UpsertFails(t)
    PROVE  RotationInv'
<1>1. /\ pc[t] = "save" /\ pc' = [pc EXCEPT ![t] = "done"]
      /\ failed' = failed \cup ({t} \cap Rotation!Subs)
      /\ UNCHANGED <<title, row, target, stage, doomed, dups, acts>>
  BY DEF Rotation!UpsertFails, Rotation!Go, Rotation!FailedWith
<1>2. t \in Rotation!Subs /\ UpsertHolds(t) /\ failed' = failed \cup {t}
  BY <1>1, UpsertTask DEF RotationInv
<1>3. /\ pc'[t] = "done" /\ RotationTyped'
      /\ \A r \in Rotation!Subs \ {t} : pc'[r] = pc[r]
  BY <1>1, <1>2, SubsAreTasks DEF RotationInv, RotationTyped, Apart, TaskPlaces
<1>4. UpsertHolds(t)'
  BY <1>1, <1>2, <1>3 DEF UpsertHolds, Saved
<1>5. ~Saved(t)
  BY <1>1 DEF Saved
<1>6. /\ Rotation!Rows' = Rotation!Rows
      /\ \A j \in Rotation!Rows : row[j].url \in Rotation!Subs => Fits(row[j].url, j)'
      /\ \A j, k \in Rotation!Rows : row[j].active /\ row[k].active => j = k
  BY <1>1 DEF Rotation!Rows, RotationInv, ActiveRows, Fits
<1> QED
  BY <1>1, <1>2, <1>3, <1>4, <1>5, <1>6, UpsertSteps

\* What a write of a row of a type does to the database.
LEMMA ActiveRowAdded ==
    ASSUME RotationTyped, NEW new \in Rotation!Ids, NEW u \in Rotation!Urls,
           NEW n \in Rotation!Names, new \notin Rotation!Rows,
           row' = Rotation!OnlyActive(new,
                      [row EXCEPT ![new] = [url |-> u, name |-> n, active |-> TRUE]])
    PROVE  /\ row' \in [Rotation!Ids -> Rotation!Row \cup {Rotation!Gone}]
           /\ Rotation!Rows' = Rotation!Rows \cup {new}
           /\ row'[new].url = u /\ row'[new].name = n
           /\ \A i \in Rotation!Rows : row'[i].url = row[i].url /\ row'[i].name = row[i].name
           /\ \A i \in Rotation!Rows' : row'[i].active => i = new
<1> DEFINE rows == [row EXCEPT ![new] = [url |-> u, name |-> n, active |-> TRUE]]
<1>1. [url |-> u, name |-> n, active |-> TRUE] \in Rotation!Row
  BY DEF Rotation!Row
<1>2. /\ rows \in [Rotation!Ids -> Rotation!Row \cup {Rotation!Gone}]
      /\ rows[new] = [url |-> u, name |-> n, active |-> TRUE]
      /\ \A i \in Rotation!Ids \ {new} : rows[i] = row[i]
  BY <1>1 DEF RotationTyped
<1>3. \A i \in Rotation!Ids : row'[i] = IF rows[i] = Rotation!Gone THEN Rotation!Gone
                                        ELSE [rows[i] EXCEPT !.active = i = new]
  BY DEF Rotation!OnlyActive
<1>4. DOMAIN row' = Rotation!Ids /\ row' = [i \in Rotation!Ids |-> row'[i]]
  BY DEF Rotation!OnlyActive
<1> HIDE DEF rows
<1>5. ASSUME NEW i \in Rotation!Ids, rows[i] # Rotation!Gone
      PROVE  /\ row'[i] \in Rotation!Row /\ row'[i] # Rotation!Gone
             /\ row'[i].url = rows[i].url /\ row'[i].name = rows[i].name
  <2>1. rows[i] \in Rotation!Row
    BY <1>2, <1>5
  <2>2. /\ [rows[i] EXCEPT !.active = i = new] \in Rotation!Row
        /\ [rows[i] EXCEPT !.active = i = new].url = rows[i].url
        /\ [rows[i] EXCEPT !.active = i = new].name = rows[i].name
    BY <2>1 DEF Rotation!Row
  <2>4. row'[i] = [rows[i] EXCEPT !.active = i = new]
    BY <1>3, <1>5
  <2> QED
    BY <2>2, <2>4, NoRowIsGone
<1>6. rows[new] # Rotation!Gone /\ rows[new].url = u /\ rows[new].name = n
  <2>1. rows[new] \in Rotation!Row /\ rows[new] = [url |-> u, name |-> n, active |-> TRUE]
    BY <1>1, <1>2
  <2>2. rows[new].url = u /\ rows[new].name = n
    BY <2>1
  <2> QED
    BY <2>1, <2>2, NoRowIsGone
<1>7. \A i \in Rotation!Ids : row'[i] \in Rotation!Row \cup {Rotation!Gone}
  BY <1>3, <1>5
<1>8. Rotation!Rows' = Rotation!Rows \cup {new}
  <2>1. ASSUME NEW i \in Rotation!Ids, i # new PROVE row'[i] # Rotation!Gone <=> row[i] # Rotation!Gone
    BY <1>2, <1>3, <1>5, <2>1
  <2>2. row'[new] # Rotation!Gone
    BY <1>5, <1>6
  <2> QED
    BY <2>1, <2>2 DEF Rotation!Rows
<1>9. \A i \in Rotation!Rows : row'[i].url = row[i].url /\ row'[i].name = row[i].name
  <2> TAKE i \in Rotation!Rows
  <2>1. i \in Rotation!Ids /\ i # new /\ row[i] # Rotation!Gone
    BY DEF Rotation!Rows
  <2>2. rows[i] = row[i]
    BY <1>2, <2>1
  <2> QED
    BY <1>5, <2>1, <2>2
<1>10. \A i \in Rotation!Rows' : i \in Rotation!Ids /\ rows[i] # Rotation!Gone
  BY <1>3 DEF Rotation!Rows
<1>11. ASSUME NEW i \in Rotation!Rows', row'[i].active PROVE i = new
  <2>1. rows[i] \in Rotation!Row
    BY <1>2, <1>10
  <2>2. row'[i].active = (i = new)
    <3>1. row'[i] = [rows[i] EXCEPT !.active = i = new]
      BY <1>3, <1>10
    <3> QED
      BY <2>1, <3>1 DEF Rotation!Row
  <2> QED
    BY <1>11, <2>2
<1> QED
  BY <1>4, <1>5, <1>6, <1>7, <1>8, <1>9, <1>11

LEMMA RotationInsert ==
    ASSUME RotationInv, NEW t \in Rotation!Tasks, Rotation!Insert(t)
    PROVE  RotationInv' /\ Rotation!Rows' # {}
<1> DEFINE new == Rotation!NewId(t)
<1>1. /\ pc[t] = "save" /\ target[t] = Rotation!NoId
      /\ pc' = [pc EXCEPT ![t] = "dups"] /\ target' = [target EXCEPT ![t] = new]
      /\ UNCHANGED <<title, failed, stage, doomed, dups, acts>>
  BY DEF Rotation!Insert, Rotation!Go, Rotation!Rest
<1>2. t \in Rotation!Subs /\ Rotation!UrlOf(t) = t /\ UpsertHolds(t) /\ t \in Rotation!Urls
  BY <1>1, UpsertTask, SubsAreTasks DEF RotationInv
<1>3. new \in Rotation!Ids /\ new \notin Rotation!Rows /\ \A r \in Rotation!Subs : new \notin dups[r]
  BY <1>1, <1>2, RotationConstants DEF UpsertHolds
<1>4. PICK n \in Rotation!FreeNames(title[t]) :
        row' = Rotation!OnlyActive(new,
                   [row EXCEPT ![new] = [url |-> t, name |-> n, active |-> TRUE]])
  BY <1>2 DEF Rotation!Insert
<1>5. n \in Rotation!Names /\ Rotation!Generated(title[t], n)
  BY DEF Rotation!FreeNames
<1> HIDE DEF new
<1>6. /\ row' \in [Rotation!Ids -> Rotation!Row \cup {Rotation!Gone}]
      /\ Rotation!Rows' = Rotation!Rows \cup {new}
      /\ row'[new].url = t /\ row'[new].name = n
      /\ \A i \in Rotation!Rows : row'[i].url = row[i].url /\ row'[i].name = row[i].name
      /\ \A i \in Rotation!Rows' : row'[i].active => i = new
  BY <1>2, <1>3, <1>4, <1>5, ActiveRowAdded DEF RotationInv
<1>7. /\ pc'[t] = "dups" /\ target'[t] = new /\ RotationTyped'
      /\ \A r \in Rotation!Subs \ {t} : pc'[r] = pc[r] /\ target'[r] = target[r]
  BY <1>1, <1>2, <1>3, <1>6, SubsAreTasks DEF RotationInv, RotationTyped, Apart, TaskPlaces
<1>8. UpsertHolds(t)'
  <2>1. new \in Rotation!WithUrl(t)'
    BY <1>6 DEF Rotation!WithUrl
  <2>2. Fits(t, new)'
    BY <1>1, <1>5, <1>6 DEF Fits
  <2>3. dups'[t] = {} /\ t \notin failed'
    BY <1>1, <1>2 DEF UpsertHolds
  <2> QED
    BY <1>6, <1>7, <2>1, <2>2, <2>3 DEF UpsertHolds, Saved
<1>9. Saved(t)'
  BY <1>7 DEF Saved
<1>10. \A i \in Rotation!Rows' : row'[i].url \in Rotation!Subs => Fits(row[i].url, i)'
  BY <1>1, <1>5, <1>6 DEF RotationInv, Fits
<1>11. \A r \in Rotation!Subs \ {t} :
         /\ \A j \in Rotation!Rows : j \in Rotation!Rows' /\ row'[j].url = row[j].url /\ row'[j].name = row[j].name
         /\ new \notin dups[r]
  BY <1>3, <1>6
<1>12. Rotation!Rows' # {} /\ Rotation!Rows' \subseteq Rotation!Rows \cup {new}
  BY <1>6
<1> QED
  BY <1>1, <1>2, <1>6, <1>7, <1>8, <1>9, <1>10, <1>11, <1>12, UpsertSteps DEF new

LEMMA RotationEdit ==
    ASSUME RotationInv, NEW t \in Rotation!Tasks, Rotation!Edit(t)
    PROVE  RotationInv' /\ Rotation!Rows' # {}
<1>0. PICK i : i = target[t]
  OBVIOUS
<1>1. /\ pc[t] = "save" /\ i # Rotation!NoId /\ pc' = [pc EXCEPT ![t] = "dups"]
      /\ UNCHANGED <<title, target, failed, stage, doomed, dups, acts>>
  BY <1>0 DEF Rotation!Edit, Rotation!Go, Rotation!Rest
<1>2. t \in Rotation!Subs /\ Rotation!UrlOf(t) = t /\ UpsertHolds(t) /\ t \in Rotation!Urls
  BY <1>1, UpsertTask, SubsAreTasks DEF RotationInv
<1>3. i \in Rotation!Rows /\ Fits(t, i) /\ i \in Rotation!Ids /\ row[i] \in Rotation!Row
  BY <1>0, <1>1, <1>2, RotationRowTyped DEF UpsertHolds, RotationInv
<1>4. title[t] \in Rotation!Names /\ Rotation!Generated(title[t], title[t])
  BY <1>2, TitlesAreSequences, GeneratedFromItself DEF RotationInv
<1>5. row' = [row EXCEPT ![i].url = t, ![i].name = title[t]]
  BY <1>0, <1>2, <1>3 DEF Rotation!Edit
<1>6. /\ row'[i] = [row[i] EXCEPT !.url = t, !.name = title[t]]
      /\ \A j \in Rotation!Ids \ {i} : row'[j] = row[j]
      /\ DOMAIN row' = Rotation!Ids /\ row' = [j \in Rotation!Ids |-> row'[j]]
  BY <1>3, <1>5 DEF RotationInv, RotationTyped
<1>7. row'[i] \in Rotation!Row /\ row'[i].url = t /\ row'[i].name = title[t]
  BY <1>2, <1>3, <1>4, <1>6 DEF Rotation!Row
<1>8. row'[i].active = row[i].active
  BY <1>3, <1>6 DEF Rotation!Row
<1>9. row' \in [Rotation!Ids -> Rotation!Row \cup {Rotation!Gone}]
  BY <1>6, <1>7 DEF RotationInv, RotationTyped
<1>10. Rotation!Rows' = Rotation!Rows
  BY <1>3, <1>6, <1>7, NoRowIsGone DEF Rotation!Rows
<1>11. /\ pc'[t] = "dups" /\ target'[t] = i /\ RotationTyped'
       /\ \A r \in Rotation!Subs \ {t} : pc'[r] = pc[r] /\ target'[r] = target[r]
  BY <1>0, <1>1, <1>2, <1>9, SubsAreTasks DEF RotationInv, RotationTyped, Apart, TaskPlaces
<1>12. UpsertHolds(t)'
  <2>1. i \in Rotation!WithUrl(t)'
    BY <1>3, <1>7, <1>10 DEF Rotation!WithUrl
  <2>2. Fits(t, i)'
    BY <1>1, <1>4, <1>7 DEF Fits
  <2>3. dups'[t] = {} /\ t \notin failed'
    BY <1>1, <1>2 DEF UpsertHolds
  <2> QED
    BY <1>3, <1>7, <1>10, <1>11, <2>1, <2>2, <2>3 DEF UpsertHolds, Saved
<1>13. Saved(t)'
  BY <1>11 DEF Saved
<1>14. \A j \in Rotation!Rows : j # i => j \in Rotation!Ids /\ row'[j] = row[j]
  BY <1>6 DEF Rotation!Rows
<1>15. ASSUME NEW j \in Rotation!Rows', row'[j].url \in Rotation!Subs
       PROVE  Fits(row[j].url, j)'
  <2>1. CASE j = i
    BY <1>1, <1>4, <1>7, <2>1 DEF Fits
  <2>2. CASE j # i
    BY <1>1, <1>10, <1>14, <1>15, <2>2 DEF RotationInv, Fits
  <2> QED
    BY <2>1, <2>2
<1>16. \A r \in Rotation!Subs \ {t} : \A j \in Rotation!Rows : Fits(r, j) =>
         j \in Rotation!Rows' /\ row'[j].url = row[j].url /\ row'[j].name = row[j].name
  <2> TAKE r \in Rotation!Subs \ {t}
  <2> TAKE j \in Rotation!Rows
  <2> HAVE Fits(r, j)
  <2>1. j # i
    BY <1>2, <1>3, FitsOne DEF RotationInv
  <2> QED
    BY <1>10, <1>14, <2>1
<1>17. \A j \in Rotation!Rows : row'[j].active = row[j].active
  BY <1>8, <1>14
<1>18. \A j, k \in Rotation!Rows' : row'[j].active /\ row'[k].active => j = k
  BY <1>10, <1>17 DEF RotationInv, ActiveRows
<1> QED
  BY <1>1, <1>2, <1>3, <1>10, <1>11, <1>12, <1>13, <1>15, <1>16, <1>18, UpsertSteps

LEMMA RotationFindDups ==
    ASSUME RotationInv, NEW t \in Rotation!Tasks, Rotation!FindDups(t)
    PROVE  RotationInv'
<1>1. /\ pc[t] = "dups" /\ pc' = [pc EXCEPT ![t] = "purge"]
      /\ dups' = [dups EXCEPT ![t] = Rotation!Duplicates(t)]
      /\ UNCHANGED <<title, row, target, failed, stage, doomed, acts>>
  BY DEF Rotation!FindDups, Rotation!Go, Rotation!Rest
<1>2. t \in Rotation!Subs /\ Rotation!UrlOf(t) = t /\ UpsertHolds(t)
  BY <1>1, UpsertTask DEF RotationInv
<1>3. /\ Rotation!Duplicates(t) \subseteq Rotation!Rows \ {target[t]}
      /\ \A i \in Rotation!Duplicates(t) : Fits(t, i)
      /\ Rotation!Rows \subseteq Rotation!Ids
  BY <1>2 DEF Rotation!Duplicates, Fits, Rotation!Rows
<1>4. /\ pc'[t] = "purge" /\ dups'[t] = Rotation!Duplicates(t) /\ RotationTyped'
      /\ \A r \in Rotation!Subs \ {t} : pc'[r] = pc[r] /\ dups'[r] = dups[r]
  <2>1. Rotation!Duplicates(t) \in SUBSET Rotation!Ids
    BY <1>3
  <2> QED
    BY <1>1, <1>2, <2>1, SubsAreTasks DEF RotationInv, RotationTyped, Apart, TaskPlaces
<1>5. UpsertHolds(t)'
  BY <1>1, <1>2, <1>3, <1>4 DEF UpsertHolds, Saved, Fits, Rotation!Rows, Rotation!WithUrl
<1>6. Saved(t)'
  BY <1>4 DEF Saved
<1>7. /\ Rotation!Rows' = Rotation!Rows
      /\ \A j \in Rotation!Rows : row[j].url \in Rotation!Subs => Fits(row[j].url, j)'
      /\ \A j, k \in Rotation!Rows : row[j].active /\ row[k].active => j = k
  BY <1>1 DEF Rotation!Rows, RotationInv, ActiveRows, Fits
<1>8. dups'[t] \subseteq Rotation!Rows
  BY <1>3, <1>4
<1> QED
  BY <1>1, <1>2, <1>4, <1>5, <1>6, <1>7, <1>8, UpsertSteps

\* The row an upsert has written outlives its duplicates.
LEMMA RotationPurge ==
    ASSUME RotationInv, NEW t \in Rotation!Tasks, Rotation!Purge(t)
    PROVE  RotationInv' /\ Rotation!Rows' # {}
<1>1. pc[t] = "purge" /\ UNCHANGED <<title, target, failed, stage, doomed, acts>>
  BY DEF Rotation!Purge, Rotation!Rest
<1>2. t \in Rotation!Subs /\ UpsertHolds(t) /\ target[t] \in Rotation!Rows
  BY <1>1, UpsertTask DEF RotationInv, UpsertHolds
<1>3. CASE dups[t] = {} /\ pc' = [pc EXCEPT ![t] = "done"] /\ UNCHANGED <<row, dups>>
  <2>1. /\ pc'[t] = "done" /\ RotationTyped'
        /\ \A r \in Rotation!Subs \ {t} : pc'[r] = pc[r]
    BY <1>1, <1>2, <1>3, SubsAreTasks DEF RotationInv, RotationTyped, Apart, TaskPlaces
  <2>2. Rotation!Rows' = Rotation!Rows /\ Rotation!WithUrl(t)' = Rotation!WithUrl(t)
    BY <1>3 DEF Rotation!Rows, Rotation!WithUrl
  <2>3. UpsertHolds(t)' /\ Saved(t)'
    BY <1>1, <1>2, <1>3, <2>1, <2>2 DEF UpsertHolds, Saved
  <2>4. /\ \A j \in Rotation!Rows : row[j].url \in Rotation!Subs => Fits(row[j].url, j)'
        /\ \A j, k \in Rotation!Rows : row[j].active /\ row[k].active => j = k
    BY <1>1, <1>3 DEF RotationInv, ActiveRows, Fits
  <2> QED
    BY <1>1, <1>2, <1>3, <2>1, <2>2, <2>3, <2>4, UpsertSteps
<1>4. CASE \E i \in dups[t] : /\ row' = [row EXCEPT ![i] = Rotation!Gone]
                              /\ dups' = [dups EXCEPT ![t] = @ \ {i}]
                              /\ UNCHANGED pc
  <2>1. PICK i \in dups[t] : /\ row' = [row EXCEPT ![i] = Rotation!Gone]
                             /\ dups' = [dups EXCEPT ![t] = @ \ {i}]
                             /\ UNCHANGED pc
    BY <1>4
  <2>2. i \in Rotation!Ids /\ i # target[t] /\ (i \in Rotation!Rows => Fits(t, i))
    BY <1>2, SubsAreTasks DEF RotationInv, RotationTyped, UpsertHolds
  <2>3. /\ row' \in [Rotation!Ids -> Rotation!Row \cup {Rotation!Gone}]
        /\ Rotation!Rows' = Rotation!Rows \ {i}
        /\ \A j \in Rotation!Rows' : row'[j] = row[j]
    BY <2>1, <2>2 DEF RotationInv, RotationTyped, Rotation!Rows
  <2>4. /\ dups'[t] = dups[t] \ {i} /\ RotationTyped'
        /\ \A r \in Rotation!Subs \ {t} : dups'[r] = dups[r]
    BY <1>1, <1>2, <2>1, <2>3, SubsAreTasks DEF RotationInv, RotationTyped, Apart
  <2>5. target[t] \in Rotation!Rows' /\ target[t] \in Rotation!WithUrl(t)'
    BY <1>1, <1>2, <2>2, <2>3 DEF UpsertHolds, Rotation!WithUrl
  <2>6. UpsertHolds(t)'
    BY <1>1, <1>2, <2>1, <2>3, <2>4, <2>5 DEF UpsertHolds, Fits
  <2>7. Saved(t)'
    BY <1>1, <2>1 DEF Saved
  <2>8. \A j \in Rotation!Rows' : row'[j].url \in Rotation!Subs => Fits(row[j].url, j)'
    BY <1>1, <2>3 DEF RotationInv, Fits
  <2>9. \A r \in Rotation!Subs \ {t} : \A j \in Rotation!Rows : Fits(r, j) =>
          j \in Rotation!Rows' /\ row'[j].url = row[j].url /\ row'[j].name = row[j].name
    <3> TAKE r \in Rotation!Subs \ {t}
    <3> TAKE j \in Rotation!Rows
    <3> HAVE Fits(r, j)
    <3>1. j # i
      BY <1>2, <2>2, FitsOne DEF RotationInv
    <3> QED
      BY <2>3, <3>1
  <2>10. \A j, k \in Rotation!Rows' : row'[j].active /\ row'[k].active => j = k
    BY <2>3 DEF RotationInv, ActiveRows
  <2> QED
    BY <1>1, <1>2, <2>1, <2>3, <2>4, <2>5, <2>6, <2>7, <2>8, <2>9, <2>10, UpsertSteps
<1> QED
  BY <1>2, <1>3, <1>4 DEF Rotation!Purge, Rotation!Go

\* A step of the import once all outcomes are in.
LEMMA StageSteps ==
    ASSUME RotationInv, UNCHANGED <<title, pc, dups, failed, acts>>,
           \A s \in Rotation!Subs : pc[s] = "done",
           row' \in [Rotation!Ids -> Rotation!Row \cup {Rotation!Gone}],
           target' \in [Rotation!Tasks -> Rotation!Ids \cup {Rotation!NoId}],
           \A s \in Rotation!Subs : Rotation!WithUrl(s) # {} => Rotation!WithUrl(s)' # {},
           \A i \in Rotation!Rows' : row'[i].url \in Rotation!Subs => Fits(row[i].url, i)',
           ActiveRows', DoomedRows'
    PROVE  RotationInv'
<1>1. RotationTyped'
  BY DEF RotationInv, RotationTyped, Apart
<1>2. ASSUME NEW s \in Rotation!Subs PROVE UpsertHolds(s)'
  <2>1. dups'[s] = {} /\ pc'[s] = "done" /\ UpsertHolds(s)
    BY DEF RotationInv, UpsertHolds
  <2> QED
    BY <2>1 DEF UpsertHolds, Saved
<1> QED
  BY <1>1, <1>2 DEF RotationInv

\* The rows of the subscriptions that have succeeded.
LEMMA SuccessHasRow ==
    ASSUME RotationInv, stage # "upsert", NEW s \in Rotation!Successes
    PROVE  s \in Rotation!Subs /\ Rotation!WithUrl(s) # {}
BY DEF RotationInv, UpsertHolds, Saved, Rotation!Successes

\* With the rows unchanged, only the stage, the target and the rows to be
\* deleted matter.
LEMMA StageReads ==
    ASSUME RotationInv, UNCHANGED <<title, row, pc, dups, failed, acts>>,
           \A s \in Rotation!Subs : pc[s] = "done",
           target' \in [Rotation!Tasks -> Rotation!Ids \cup {Rotation!NoId}],
           stage' \in {"pick", "activate", "obsolete", "delete", "names"} => Rotation!Successes # {},
           stage' = "activate" =>
               target'[1] \in Rotation!Rows /\ row[target'[1]].url \in Rotation!Successes,
           stage' \in {"obsolete", "delete", "names", "done"} /\ Rotation!Successes # {} =>
               \E i \in Rotation!Rows : row[i].active /\ row[i].url \in Rotation!Successes,
           DoomedRows'
    PROVE  RotationInv' /\ Rotation!Rows' = Rotation!Rows
<1>1. /\ Rotation!Rows' = Rotation!Rows /\ Rotation!Successes' = Rotation!Successes
      /\ \A s \in Rotation!Subs : Rotation!WithUrl(s)' = Rotation!WithUrl(s) /\ (Saved(s) <=> Saved(s)')
  BY DEF Rotation!Rows, Rotation!WithUrl, Rotation!Successes, Saved
<1>2. \A i \in Rotation!Rows' : row'[i].url \in Rotation!Subs => Fits(row[i].url, i)'
  BY <1>1 DEF RotationInv, Fits
<1>3. ActiveRows'
  BY <1>1 DEF RotationInv, ActiveRows
<1>4. row' \in [Rotation!Ids -> Rotation!Row \cup {Rotation!Gone}]
  BY DEF RotationInv, RotationTyped
<1> QED
  BY <1>1, <1>2, <1>3, <1>4, StageSteps

\* A non-empty set of subscriptions has a first one.
LEMMA FirstOf ==
    ASSUME NEW S \in SUBSET Rotation!Subs, S # {}
    PROVE  \E s \in S : \A r \in S : s <= r
<1>1. S \subseteq Nat
  BY RotationConstants
<1>2. PICK s \in S : \A r \in S : <<r, s>> \notin OpToRel(<, Nat)
  BY <1>1, NatLessThanWellFounded, WFMin
<1>3. \A r \in S : ~(r < s)
  BY <1>1, <1>2 DEF OpToRel
<1> QED
  BY <1>1, <1>3

LEMMA RotationOutcomes ==
    ASSUME RotationInv, Rotation!Outcomes
    PROVE  RotationInv' /\ Rotation!Rows' = Rotation!Rows
<1>1. /\ \A s \in Rotation!Subs : pc[s] = "done"
      /\ stage = "upsert" /\ stage' = IF Rotation!Successes = {} THEN "done" ELSE "pick"
      /\ UNCHANGED <<title, pc, dups, failed, acts, row, target, doomed>>
  BY DEF Rotation!Outcomes, Rotation!Stage, Rotation!Quiet
<1>2. DoomedRows' /\ target' \in [Rotation!Tasks -> Rotation!Ids \cup {Rotation!NoId}]
  BY <1>1 DEF RotationInv, RotationTyped, DoomedRows
<1> QED
  BY <1>1, <1>2, StageReads

LEMMA RotationPickActive ==
    ASSUME RotationInv, Rotation!PickActive
    PROVE  RotationInv' /\ Rotation!Rows' = Rotation!Rows
<1> DEFINE kept == \E i \in Rotation!Rows : row[i].active /\ row[i].url \in Rotation!Successes
           have == {s \in Rotation!Successes : Rotation!WithUrl(s) # {}}
           first == CHOOSE s \in have : \A r \in have : s <= r
<1>1. /\ stage = "pick" /\ UNCHANGED <<title, pc, dups, failed, acts, row, doomed>>
      /\ \/ (kept \/ have = {}) /\ stage' = "obsolete" /\ target' = target
         \/ /\ have # {} /\ stage' = "activate"
            /\ \E i \in Rotation!WithUrl(first) : target' = [target EXCEPT ![1] = i]
  BY DEF Rotation!PickActive, Rotation!Stage, Rotation!Quiet
<1>2. Rotation!Successes # {} /\ have # {} /\ \A s \in Rotation!Subs : pc[s] = "done"
  BY <1>1, SuccessHasRow DEF RotationInv, ActiveRows
<1>3. first \in Rotation!Successes
  <2>1. have \in SUBSET Rotation!Subs
    BY DEF Rotation!Successes
  <2> HIDE DEF have
  <2>2. \E s \in have : \A r \in have : s <= r
    BY <1>2, <2>1, FirstOf
  <2>3. first \in have
    BY <2>2
  <2> QED
    BY <2>3 DEF have
<1> HIDE DEF first, have
<1>4. \/ kept /\ stage' = "obsolete" /\ target' = target
      \/ /\ stage' = "activate"
         /\ \E i \in Rotation!WithUrl(first) : target' = [target EXCEPT ![1] = i]
  BY <1>1, <1>2
<1>5. DoomedRows'
  BY <1>1 DEF RotationInv, DoomedRows
<1>6. CASE kept /\ stage' = "obsolete" /\ target' = target
  <2>1. target' \in [Rotation!Tasks -> Rotation!Ids \cup {Rotation!NoId}]
    BY <1>6 DEF RotationInv, RotationTyped
  <2> QED
    BY <1>1, <1>2, <1>5, <1>6, <2>1, StageReads
<1>7. ASSUME NEW i \in Rotation!WithUrl(first), target' = [target EXCEPT ![1] = i],
             stage' = "activate"
      PROVE  RotationInv' /\ Rotation!Rows' = Rotation!Rows
  <2>1. i \in Rotation!Rows /\ i \in Rotation!Ids /\ row[i].url = first
    BY DEF Rotation!WithUrl, Rotation!Rows
  <2>2. target'[1] = i /\ target' \in [Rotation!Tasks -> Rotation!Ids \cup {Rotation!NoId}]
    BY <1>7, <2>1, SubsAreTasks DEF RotationInv, RotationTyped
  <2> QED
    BY <1>1, <1>2, <1>3, <1>5, <1>7, <2>1, <2>2, StageReads
<1> QED
  BY <1>4, <1>6, <1>7

\* OnlyActive changes nothing but flags.
LEMMA OnlyActiveRotates ==
    ASSUME RotationTyped, NEW i, row' = Rotation!OnlyActive(i, row)
    PROVE  /\ row' \in [Rotation!Ids -> Rotation!Row \cup {Rotation!Gone}]
           /\ Rotation!Rows' = Rotation!Rows
           /\ \A j \in Rotation!Rows : /\ row'[j].url = row[j].url /\ row'[j].name = row[j].name
                                       /\ row'[j].active <=> j = i
<1>1. \A j \in Rotation!Ids : row'[j] = IF row[j] = Rotation!Gone THEN Rotation!Gone
                                        ELSE [row[j] EXCEPT !.active = j = i]
  BY DEF Rotation!OnlyActive
<1>2. ASSUME NEW j \in Rotation!Ids, row[j] # Rotation!Gone
      PROVE  /\ row'[j] \in Rotation!Row /\ row'[j] # Rotation!Gone
             /\ row'[j].url = row[j].url /\ row'[j].name = row[j].name
  <2>1. row[j] \in Rotation!Row
    BY <1>2 DEF RotationTyped
  <2>2. /\ [row[j] EXCEPT !.active = j = i] \in Rotation!Row
        /\ [row[j] EXCEPT !.active = j = i].url = row[j].url
        /\ [row[j] EXCEPT !.active = j = i].name = row[j].name
    BY <2>1 DEF Rotation!Row
  <2>3. row'[j] = [row[j] EXCEPT !.active = j = i]
    BY <1>1, <1>2
  <2> QED
    BY <2>2, <2>3, NoRowIsGone
<1>3. ASSUME NEW j \in Rotation!Rows PROVE row'[j].active <=> j = i
  <2>1. j \in Rotation!Ids /\ row[j] # Rotation!Gone /\ row[j] \in Rotation!Row
    BY DEF Rotation!Rows, RotationTyped
  <2>2. row'[j] = [row[j] EXCEPT !.active = j = i]
    BY <1>1, <2>1
  <2> QED
    BY <2>1, <2>2 DEF Rotation!Row
<1>4. Rotation!Rows' = Rotation!Rows
  BY <1>1, <1>2 DEF Rotation!Rows
<1>5. row' \in [Rotation!Ids -> Rotation!Row \cup {Rotation!Gone}]
  <2>1. \A j \in Rotation!Ids : row'[j] \in Rotation!Row \cup {Rotation!Gone}
    BY <1>1, <1>2
  <2> QED
    BY <2>1 DEF Rotation!OnlyActive
<1>6. \A j \in Rotation!Rows : row'[j].url = row[j].url /\ row'[j].name = row[j].name
  BY <1>2 DEF Rotation!Rows
<1> QED
  BY <1>3, <1>4, <1>5, <1>6

LEMMA RotationActivate ==
    ASSUME RotationInv, Rotation!Activate
    PROVE  RotationInv' /\ Rotation!Rows' = Rotation!Rows
<1>1. /\ stage = "activate" /\ stage' = "obsolete"
      /\ row' = IF target[1] \in Rotation!Rows THEN Rotation!OnlyActive(target[1], row) ELSE row
      /\ UNCHANGED <<title, pc, dups, failed, acts, target, doomed>>
  BY DEF Rotation!Activate, Rotation!Stage, Rotation!Quiet
<1>2. PICK i : i = target[1]
  OBVIOUS
<1>3. i \in Rotation!Rows /\ row[i].url \in Rotation!Successes /\ Rotation!Successes # {}
  BY <1>1, <1>2 DEF RotationInv, ActiveRows
<1>4. row' = Rotation!OnlyActive(i, row)
  BY <1>1, <1>2, <1>3
<1>5. /\ row' \in [Rotation!Ids -> Rotation!Row \cup {Rotation!Gone}]
      /\ Rotation!Rows' = Rotation!Rows
      /\ \A j \in Rotation!Rows : row'[j].url = row[j].url /\ row'[j].name = row[j].name
  BY <1>4, OnlyActiveRotates DEF RotationInv
<1>6. \A j \in Rotation!Rows : row'[j].active <=> j = i
  BY <1>4, OnlyActiveRotates DEF RotationInv
<1>7. /\ \A s \in Rotation!Subs : pc[s] = "done" /\ Rotation!WithUrl(s)' = Rotation!WithUrl(s)
      /\ Rotation!Successes' = Rotation!Successes
  BY <1>1, <1>5 DEF RotationInv, Rotation!WithUrl, Rotation!Successes
<1>8. \A j \in Rotation!Rows' : row'[j].url \in Rotation!Subs => Fits(row[j].url, j)'
  BY <1>1, <1>5 DEF RotationInv, Fits
<1>9. \E j \in Rotation!Rows' : row'[j].active /\ row'[j].url \in Rotation!Successes'
  BY <1>3, <1>5, <1>6, <1>7
<1>10. ActiveRows'
  <2>1. \A j, k \in Rotation!Rows' : row'[j].active /\ row'[k].active => j = k
    BY <1>5, <1>6
  <2> QED
    BY <1>1, <1>3, <1>7, <1>9, <2>1 DEF ActiveRows
<1>11. DoomedRows' /\ target' \in [Rotation!Tasks -> Rotation!Ids \cup {Rotation!NoId}]
  BY <1>1 DEF RotationInv, RotationTyped, DoomedRows
<1> QED
  BY <1>1, <1>5, <1>7, <1>8, <1>10, <1>11, StageSteps

\* The active row is a success's: no obsolete row is read as active.
LEMMA RotationFindObsolete ==
    ASSUME RotationInv, Rotation!FindObsolete
    PROVE  RotationInv' /\ Rotation!Rows' = Rotation!Rows
<1>1. /\ stage = "obsolete" /\ stage' = "delete"
      /\ doomed' = {<<i, row[i].active>> : i \in IF failed = {} THEN Rotation!Obsolete ELSE {}}
      /\ UNCHANGED <<title, pc, dups, failed, acts, target, row>>
  BY DEF Rotation!FindObsolete, Rotation!Stage, Rotation!Quiet
<1>2. /\ Rotation!Successes # {} /\ \A s \in Rotation!Subs : pc[s] = "done"
  BY <1>1 DEF RotationInv, ActiveRows
<1>3. PICK a \in Rotation!Rows : row[a].active /\ row[a].url \in Rotation!Subs
                                 /\ row[a].url \in Rotation!Successes
  BY <1>1, <1>2 DEF RotationInv, ActiveRows, Rotation!Successes
<1>4. ASSUME NEW i \in Rotation!Obsolete
      PROVE  /\ i \in Rotation!Rows /\ i \in Rotation!Ids /\ row[i].url \notin Rotation!Subs
             /\ row[i].active = FALSE
  <2>1. i \in Rotation!Rows /\ row[i].url \notin Rotation!Subs
    BY DEF Rotation!Obsolete
  <2>2. ~row[i].active /\ row[i].active \in BOOLEAN /\ i \in Rotation!Ids
    BY <1>3, <2>1, RotationRowTyped DEF RotationInv, ActiveRows
  <2> QED
    BY <2>1, <2>2
<1>5. \A d \in doomed' : \E i \in Rotation!Obsolete : d = <<i, FALSE>> /\ failed = {}
  BY <1>1, <1>4
<1>6. DoomedRows'
  <2>1. ASSUME NEW d \in doomed'
        PROVE  d \in Rotation!Ids \X BOOLEAN /\ ~d[2] /\ row'[d[1]].url \notin Rotation!Subs
    <3>1. PICK i \in Rotation!Obsolete : d = <<i, FALSE>>
      BY <1>5
    <3>2. i \in Rotation!Ids /\ row[i].url \notin Rotation!Subs
      BY <1>4
    <3>3. d \in Rotation!Ids \X BOOLEAN
      BY <3>1, <3>2
    <3>4. d[1] = i /\ d[2] = FALSE
      BY <3>1
    <3> QED
      BY <1>1, <3>2, <3>3, <3>4
  <2>2. doomed' # {} => stage' = "delete" /\ failed' = {}
    BY <1>1, <1>5
  <2>3. doomed' \subseteq Rotation!Ids \X BOOLEAN
    BY <2>1
  <2> QED
    BY <2>1, <2>2, <2>3 DEF DoomedRows
<1>7. target' \in [Rotation!Tasks -> Rotation!Ids \cup {Rotation!NoId}]
  BY <1>1 DEF RotationInv, RotationTyped
<1> QED
  BY <1>1, <1>2, <1>3, <1>6, <1>7, StageReads

LEMMA RotationDeleteObsolete ==
    ASSUME RotationInv, Rotation!DeleteObsolete
    PROVE  RotationInv' /\ Rotation!Rows' # {}
<1>1. /\ stage = "delete" /\ UNCHANGED <<title, pc, dups, failed, acts, target>>
      /\ \/ \E d \in doomed : /\ Rotation!DeleteById(d[1], d[2]) /\ doomed' = doomed \ {d}
                              /\ UNCHANGED stage
         \/ doomed = {} /\ stage' = "names" /\ UNCHANGED <<row, doomed>>
  BY DEF Rotation!DeleteObsolete, Rotation!Stage, Rotation!Quiet
<1>2. /\ Rotation!Successes # {} /\ \A s \in Rotation!Subs : pc[s] = "done"
      /\ target' \in [Rotation!Tasks -> Rotation!Ids \cup {Rotation!NoId}]
  BY <1>1 DEF RotationInv, RotationTyped, ActiveRows
<1>3. PICK a \in Rotation!Rows : row[a].active /\ row[a].url \in Rotation!Subs
                                 /\ row[a].url \in Rotation!Successes
  BY <1>1, <1>2 DEF RotationInv, ActiveRows, Rotation!Successes
<1>4. CASE doomed = {} /\ stage' = "names" /\ UNCHANGED <<row, doomed>>
  <2>1. DoomedRows'
    BY <1>4 DEF DoomedRows
  <2>2. Rotation!Rows # {}
    BY <1>3
  <2> QED
    BY <1>1, <1>2, <1>3, <1>4, <2>1, <2>2, StageReads
<1>5. ASSUME NEW d \in doomed, Rotation!DeleteById(d[1], d[2]), doomed' = doomed \ {d},
             stage' = stage
      PROVE  RotationInv' /\ Rotation!Rows' # {}
  <2>1. PICK i \in Rotation!Ids : /\ i = d[1] /\ ~d[2] /\ row' = [row EXCEPT ![i] = Rotation!Gone]
                                  /\ i \in Rotation!Rows => row[i].url \notin Rotation!Subs
    <3>1. /\ d[1] \in Rotation!Ids /\ ~d[2]
          /\ d[1] \in Rotation!Rows => row[d[1]].url \notin Rotation!Subs
      BY DEF RotationInv, DoomedRows
    <3>2. row' = [row EXCEPT ![d[1]] = Rotation!Gone]
      BY <1>5, <3>1 DEF Rotation!DeleteById
    <3> QED
      BY <3>1, <3>2
  <2>2. /\ row' \in [Rotation!Ids -> Rotation!Row \cup {Rotation!Gone}]
        /\ Rotation!Rows' = Rotation!Rows \ {i}
        /\ \A j \in Rotation!Rows' : row'[j] = row[j]
    BY <2>1 DEF RotationInv, RotationTyped, Rotation!Rows
  <2>3. \A s \in Rotation!Subs : Rotation!WithUrl(s)' = Rotation!WithUrl(s)
    BY <2>1, <2>2 DEF Rotation!WithUrl
  <2>4. \A j \in Rotation!Rows' : row'[j].url \in Rotation!Subs => Fits(row[j].url, j)'
    BY <1>1, <2>2 DEF RotationInv, Fits
  <2>5. a \in Rotation!Rows' /\ row'[a] = row[a] /\ Rotation!Successes' = Rotation!Successes
    BY <1>1, <1>3, <2>1, <2>2 DEF Rotation!Successes
  <2>6. ActiveRows'
    <3>1. \A j, k \in Rotation!Rows' : row'[j].active /\ row'[k].active => j = k
      BY <2>2 DEF RotationInv, ActiveRows
    <3>2. \E j \in Rotation!Rows' : row'[j].active /\ row'[j].url \in Rotation!Successes'
      BY <1>3, <2>5
    <3> QED
      BY <1>1, <1>2, <1>5, <2>5, <3>1, <3>2 DEF ActiveRows
  <2>7. DoomedRows'
    BY <1>1, <1>5, <2>2 DEF RotationInv, DoomedRows
  <2>8. Rotation!Rows' # {}
    BY <2>5
  <2> QED
    BY <1>1, <1>2, <2>2, <2>3, <2>4, <2>6, <2>7, <2>8, StageSteps
<1> QED
  BY <1>1, <1>4, <1>5

LEMMA RotationNormalizeNames ==
    ASSUME RotationInv, Rotation!NormalizeNames
    PROVE  RotationInv' /\ Rotation!Rows' = Rotation!Rows
<1>1. /\ stage = "names" /\ stage' = "done"
      /\ row' = [i \in Rotation!Ids |->
                   IF /\ i \in Rotation!Rows /\ row[i].url \in Rotation!Successes
                      /\ Rotation!Named(title[row[i].url]) \subseteq {i}
                   THEN [row[i] EXCEPT !.name = title[row[i].url]] ELSE row[i]]
      /\ UNCHANGED <<title, pc, dups, failed, acts, target, doomed>>
  BY DEF Rotation!NormalizeNames, Rotation!Stage, Rotation!Quiet
<1>2. ASSUME NEW i \in Rotation!Rows
      PROVE  /\ row'[i] \in Rotation!Row /\ row'[i].url = row[i].url
             /\ row'[i].name \in {row[i].name, title[row[i].url]}
  <2>1. i \in Rotation!Ids /\ row[i] \in Rotation!Row /\ title[row[i].url] \in Rotation!Names
    BY RotationRowTyped, TitlesAreSequences DEF RotationInv
  <2>2. /\ [row[i] EXCEPT !.name = title[row[i].url]] \in Rotation!Row
        /\ [row[i] EXCEPT !.name = title[row[i].url]].url = row[i].url
        /\ [row[i] EXCEPT !.name = title[row[i].url]].name = title[row[i].url]
    BY <2>1 DEF Rotation!Row
  <2>3. row'[i] \in {row[i], [row[i] EXCEPT !.name = title[row[i].url]]}
    BY <1>1, <2>1
  <2> QED
    BY <2>1, <2>2, <2>3
<1>3. ASSUME NEW i \in Rotation!Rows PROVE row'[i].active = row[i].active
  <2>1. i \in Rotation!Ids /\ row[i] \in Rotation!Row
    BY RotationRowTyped DEF RotationInv
  <2>2. [row[i] EXCEPT !.name = title[row[i].url]].active = row[i].active
    BY <2>1 DEF Rotation!Row
  <2>3. row'[i] \in {row[i], [row[i] EXCEPT !.name = title[row[i].url]]}
    BY <1>1, <2>1
  <2> QED
    BY <2>2, <2>3
<1>4. \A i \in Rotation!Ids : i \notin Rotation!Rows => row'[i] = Rotation!Gone
  BY <1>1 DEF Rotation!Rows
<1>5. Rotation!Rows' = Rotation!Rows
  BY <1>2, <1>4, NoRowIsGone DEF Rotation!Rows
<1>6. row' \in [Rotation!Ids -> Rotation!Row \cup {Rotation!Gone}]
  <2>1. \A i \in Rotation!Ids : row'[i] \in Rotation!Row \cup {Rotation!Gone}
    BY <1>2, <1>4
  <2> QED
    BY <1>1, <2>1
<1>7. /\ \A s \in Rotation!Subs : pc[s] = "done" /\ Rotation!WithUrl(s)' = Rotation!WithUrl(s)
      /\ Rotation!Successes' = Rotation!Successes
  BY <1>1, <1>2, <1>5 DEF RotationInv, Rotation!WithUrl, Rotation!Successes
<1>8. ASSUME NEW i \in Rotation!Rows', row'[i].url \in Rotation!Subs PROVE Fits(row[i].url, i)'
  <2>1. row[i].url \in Rotation!Subs /\ Rotation!Generated(title[row[i].url], row[i].name)
    BY <1>2, <1>5, <1>8 DEF RotationInv, Fits
  <2>2. Rotation!Generated(title[row[i].url], title[row[i].url])
    BY <2>1, SubsAreTasks, TitlesAreSequences, GeneratedFromItself DEF RotationInv
  <2> QED
    BY <1>1, <1>2, <1>5, <2>1, <2>2 DEF Fits
<1>9. ActiveRows'
  <2>1. \A i, j \in Rotation!Rows' : row'[i].active /\ row'[j].active => i = j
    BY <1>3, <1>5 DEF RotationInv, ActiveRows
  <2>2. \E i \in Rotation!Rows : row[i].active /\ row[i].url \in Rotation!Successes
    BY <1>1 DEF RotationInv, ActiveRows
  <2>3. \E i \in Rotation!Rows' : row'[i].active /\ row'[i].url \in Rotation!Successes'
    BY <1>2, <1>3, <1>5, <1>7, <2>2
  <2>4. \E s \in Rotation!Subs : Saved(s)'
    BY <1>1, <1>7, <2>2 DEF Saved, Rotation!Successes
  <2> QED
    BY <1>1, <2>1, <2>3, <2>4 DEF ActiveRows
<1>10. DoomedRows' /\ target' \in [Rotation!Tasks -> Rotation!Ids \cup {Rotation!NoId}]
  BY <1>1 DEF RotationInv, RotationTyped, DoomedRows
<1> QED
  BY <1>1, <1>5, <1>6, <1>7, <1>8, <1>9, <1>10, StageSteps

LEMMA RotationNext ==
    RotationInv /\ [Rotation!Next]_importVars => RotationInv' /\ Rotation!KeepsOne
<1> SUFFICES ASSUME RotationInv, [Rotation!Next]_importVars
             PROVE  RotationInv' /\ (Rotation!Rows # {} => Rotation!Rows' # {})
  BY DEF Rotation!KeepsOne
<1>1. CASE UNCHANGED importVars
  <2>1. UNCHANGED <<title, row, pc, target, dups, failed, stage, doomed, acts>>
    BY <1>1 DEF importVars
  <2>2. RotationInv'
    BY <2>1 DEF RotationInv, RotationTyped, Apart, UpsertHolds, ActiveRows, DoomedRows, Saved, Fits,
                Rotation!Rows, Rotation!WithUrl, Rotation!Successes
  <2> QED
    BY <2>1, <2>2 DEF Rotation!Rows
<1>2. ASSUME NEW t \in Rotation!Tasks,
             \/ Rotation!FindByUrl(t) \/ Rotation!FindByName(t) \/ Rotation!UpsertFails(t)
             \/ Rotation!FindDups(t)
      PROVE  RotationInv' /\ (Rotation!Rows # {} => Rotation!Rows' # {})
  <2>1. row' = row
    BY <1>2 DEF Rotation!FindByUrl, Rotation!FindByName, Rotation!UpsertFails, Rotation!FindDups
  <2>2. RotationInv'
    BY <1>2, RotationFindByUrl, RotationFindByName, RotationUpsertFails, RotationFindDups
  <2> QED
    BY <2>1, <2>2 DEF Rotation!Rows
<1>3. ASSUME NEW t \in Rotation!Tasks, Rotation!Insert(t) \/ Rotation!Edit(t) \/ Rotation!Purge(t)
      PROVE  RotationInv' /\ (Rotation!Rows # {} => Rotation!Rows' # {})
  BY <1>3, RotationInsert, RotationEdit, RotationPurge
<1>4. CASE \/ Rotation!Outcomes \/ Rotation!PickActive \/ Rotation!Activate
           \/ Rotation!FindObsolete \/ Rotation!DeleteObsolete \/ Rotation!NormalizeNames
  BY <1>4, RotationOutcomes, RotationPickActive, RotationActivate, RotationFindObsolete,
     RotationDeleteObsolete, RotationNormalizeNames
<1>5. ~Rotation!UpdateBegins /\ \A i \in Rotation!Ids : ~Rotation!SetAsActive(i)
  BY DEF Rotation!UpdateBegins, Rotation!SetAsActive, RotationInv
<1> QED
  BY <1>1, <1>2, <1>3, <1>4, <1>5 DEF Rotation!Next

LEMMA RotationAppears == RotationInv => Rotation!ImportedAppear /\ Rotation!OneActive
<1> SUFFICES ASSUME RotationInv PROVE Rotation!ImportedAppear /\ Rotation!OneActive
  OBVIOUS
<1>1. Rotation!ImportedAppear
  BY SubsAreTasks DEF RotationInv, UpsertHolds, Saved, Rotation!ImportedAppear
<1>2. ASSUME stage = "done", Rotation!Rows # {}
      PROVE  \E i \in Rotation!Rows : \A j \in Rotation!Rows : row[j].active <=> i = j
  <2>1. \A s \in Rotation!Subs : pc[s] = "done"
    BY <1>2 DEF RotationInv
  <2>2. \E i \in Rotation!Rows : row[i].active
    <3>1. CASE Rotation!Successes = {}
      <4>1. \A s \in Rotation!Subs : ~Saved(s)
        BY <2>1, <3>1 DEF Saved, Rotation!Successes
      <4> QED
        BY <1>2, <4>1 DEF RotationInv, ActiveRows
    <3>2. CASE Rotation!Successes # {}
      BY <1>2, <3>2 DEF RotationInv, ActiveRows
    <3> QED
      BY <3>1, <3>2
  <2> QED
    BY <2>2 DEF RotationInv, ActiveRows
<1> QED
  BY <1>1, <1>2 DEF Rotation!OneActive

-----------------------------------------------------------------------------
(***************************************************************************)
(* The parts together: one of them moves, and keeps its own invariant.     *)
(***************************************************************************)
AccountInv ==
    /\ part = "rotation" => RotationInv
    /\ part = "update" => UpdateInv
    /\ part = "session" => SessionInv
    /\ part = "origin" => OriginInv
    /\ part = "serial" => SerialInv
    /\ part = "downloading" => DownloadInv
    /\ part = "transport" => TransportInv

LEMMA AccountInit == Init => AccountInv
<1> SUFFICES ASSUME Init PROVE AccountInv
  OBVIOUS
<1>1. part = "rotation" => Rotation!Init
  BY DEF Init
<1>2. part = "update" => Update!Init
  BY DEF Init
<1>3. /\ part = "session" => Session!Init
      /\ part \in {"origin", "serial"} => Origin!Init
      /\ part = "downloading" => Downloading!Init
      /\ part = "transport" => Transport!Init
  BY DEF Init
<1> QED
  BY <1>1, <1>2, <1>3, RotationInit, UpdateInit, SessionInit, OriginInit, SerialInit, DownloadInit,
     TransportInit DEF AccountInv

\* What may move of a part.
MovesOf ==
    /\ part' = part
    /\ part = "rotation" => [Rotation!Next]_importVars
    /\ part = "update" => [Update!Next]_importVars
    /\ part = "session" => [Session!Next]_sessionVars
    /\ part = "origin" => [Origin!Next]_originVars
    /\ part = "serial" => [OneCall]_originVars
    /\ part = "downloading" => [Downloading!Next]_downloadVars
    /\ part = "transport" => [Transport!Next]_transportVars

LEMMA OnePartMoves == [Next]_vars => MovesOf
<1> SUFFICES ASSUME [Next]_vars PROVE MovesOf
  OBVIOUS
<1>1. CASE UNCHANGED vars
  BY <1>1 DEF vars, MovesOf
<1>2. CASE /\ part' = part /\ ImportMoves
           /\ UNCHANGED <<sessionVars, originVars, downloadVars, transportVars>>
  BY <1>2 DEF ImportMoves, MovesOf
<1>3. CASE /\ part' = part /\ SessionMoves
           /\ UNCHANGED <<importVars, originVars, downloadVars, transportVars>>
  BY <1>3 DEF SessionMoves, MovesOf
<1>4. CASE /\ part' = part /\ OriginMoves
           /\ UNCHANGED <<importVars, sessionVars, downloadVars, transportVars>>
  BY <1>4 DEF OriginMoves, MovesOf, OneCall
<1>5. CASE /\ part' = part /\ part = "downloading" /\ Downloading!Next
           /\ UNCHANGED <<importVars, sessionVars, originVars, transportVars>>
  BY <1>5 DEF MovesOf
<1>6. CASE /\ part' = part /\ part = "transport" /\ Transport!Next
           /\ UNCHANGED <<importVars, sessionVars, originVars, downloadVars>>
  BY <1>6 DEF MovesOf
<1> QED
  BY <1>1, <1>2, <1>3, <1>4, <1>5, <1>6 DEF Next

LEMMA AccountNext == AccountInv /\ [Next]_vars => AccountInv'
<1> SUFFICES ASSUME AccountInv, MovesOf PROVE AccountInv'
  BY OnePartMoves
<1>1. part' = part
  BY DEF MovesOf
<1> QED
  BY <1>1, RotationNext, UpdateNext, SessionNext, OriginNext, SerialNext, DownloadNext, TransportNext
  DEF AccountInv, MovesOf

\* The invariant of the part that moves, for every number of subscriptions,
\* callers, logins, downloads, hosts and paths.
THEOREM AccountStaysConsistent == Spec => []AccountInv
<1>1. Init => AccountInv
  BY AccountInit
<1>2. AccountInv /\ [Next]_vars => AccountInv'
  BY AccountNext
<1> QED
  BY <1>1, <1>2, PTL DEF Spec

\* An import whose upserts have all succeeded leaves every subscription its
\* profile and one profile active, whatever rows, titles and URLs it met, and in
\* whatever order its concurrent upserts read and wrote them.
THEOREM ImportLeavesProfiles == Spec => []ImportedAppear
<1>1. AccountInv => ImportedAppear
  BY RotationAppears, UpdateAppears DEF AccountInv, ImportedAppear
<1> QED
  BY <1>1, AccountStaysConsistent, PTL

\* The origin document on disk, its endpoints and the one in use are the same
\* when no call of replace is under way, though calls cross and processes die.
THEOREM OriginsAgree == Spec => []AgreeAtRest
<1>1. AccountInv => AgreeAtRest
  BY OriginAgrees DEF AccountInv, AgreeAtRest
<1> QED
  BY <1>1, AccountStaysConsistent, PTL

\* On a network that does not change, a download or a request fails only when
\* every route it may take is dead, and the request takes a quick path if any.
THEOREM PathsAreFound == Spec => []FailsOnlyWithoutPath
<1>1. AccountInv => FailsOnlyWithoutPath
  BY DEF AccountInv, FailsOnlyWithoutPath, DownloadInv, TransportInv, Downloading!FindsRoute,
         Transport!FailsOnlyWithoutPath, Transport!QuickWins
<1> QED
  BY <1>1, AccountStaysConsistent, PTL

\* For want of metadata or of a download no refresh or synchronisation takes the
\* last profile, for any accounts, logins and logouts, nor does any import or update;
\* the deletion of the legacy profile may, and so may an import that was crossed.
\* The origin document only moves forward while its calls do not cross.
THEOREM NothingIsTakenBack == Spec => NothingTakenBack
<1>1. AccountInv /\ [Next]_vars =>
        /\ part = "rotation" => Rotation!KeepsOne
        /\ part = "update" => Update!KeepsOne
        /\ part = "session" => Session!KeepsOne
        /\ part = "serial" => Serial!MovesForward
  <2> SUFFICES ASSUME AccountInv, MovesOf
               PROVE  /\ part = "rotation" => Rotation!KeepsOne
                      /\ part = "update" => Update!KeepsOne
                      /\ part = "session" => Session!KeepsOne
                      /\ part = "serial" => Serial!MovesForward
    BY OnePartMoves
  <2> QED
    BY RotationNext, UpdateNext, SessionNext, SerialNext DEF AccountInv, MovesOf
<1> QED
  BY <1>1, AccountStaysConsistent, PTL DEF Spec, NothingTakenBack
=============================================================================
