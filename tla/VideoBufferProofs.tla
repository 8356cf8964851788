-------------------------- MODULE VideoBufferProofs --------------------------
(***************************************************************************)
(* Proofs about VideoBuffer, for every size of buffer and chunk and every  *)
(* number of chunks and resumes.  VideoBufferInv is TypeOK and the safety  *)
(* invariants with what makes them inductive: why a side that is about to  *)
(* sleep is right to do so, and where the threads are in each phase of the *)
(* caster's life.  OrderInv is about the bytes: the second half.           *)
(***************************************************************************)
EXTENDS VideoBuffer, TLAPS

Bytes == [chunk : Nat, at : Nat]

SourcePcs == {"idle", "lock", "block", "asleep", "woken", "check", "notify"}
ReaderPcs == {"off", "test", "lock", "block", "asleep", "woken", "check", "notify",
              "notifyEof", "use", "failing", "wake"}

\* What TypeOK does not say: pc is a function, the buffer is a sequence.
Shape ==
  /\ pc \in [Sides -> SourcePcs \cup ReaderPcs]
  /\ buffer \in Seq(Bytes)

\* A side that has found its predicate false holds the mutex, so it stays
\* false, but for the state; of that the side will be notified, or was too early.
Blocked ==
  /\ pc["reader"] = "block" => buffer = <<>>
  /\ pc["source"] = "block" => ~HasRoom
  /\ \A side \in Sides : pc[side] = "block" /\ Stopped =>
       side \in unheard \/ NotifyAllComes

\* Where the threads are in the phases of the caster's life.
Phases ==
  /\ control = "probing" =>
       \/ state = "starting"
       \/ state = "terminating" /\ (bus \in {"wake", "ended"} \/ pc["reader"] = "wake")
  /\ state = "paused" => control \in {"pauseWake", "pauseJoin"} \/ pc["reader"] = "off"
  /\ control = "resuming" => pc["reader"] = "off" /\ resumes > 0
  /\ bus \in {"report", "wake", "ended"} => pc["source"] = "idle"
  /\ control \in {"joinReader", "done"} => bus = "ended"
  /\ control = "done" => pc["reader"] = "off"

VideoBufferInv ==
  /\ TypeOK
  /\ Shape
  /\ Blocked
  /\ Phases
  /\ NoLostHandoff
  /\ StopIsHeard
  /\ WaitHolds
-----------------------------------------------------------------------------

\* What a push does to the length of the buffer.
LEMMA ConcatIsSeq ==
  ASSUME NEW S, NEW s \in Seq(S), NEW t \in Seq(S)
  PROVE  s \o t \in Seq(S) /\ Len(s \o t) = Len(s) + Len(t)
OBVIOUS

\* A chunk has as many bytes as its size says.
LEMMA ChunkIsSeq ==
  ASSUME NEW n \in Nat, NEW s \in Nat
  PROVE  Chunk(n, s) \in Seq(Bytes) /\ Len(Chunk(n, s)) = s
BY DEF Chunk, Bytes

\* notify_one() wakes the other side if that sleeps.
LEMMA NotifyOneWakes ==
  ASSUME Shape, NEW side \in Sides, NEW other \in Sides, other # side,
         NEW next \in SourcePcs \cup ReaderPcs, pc[side] # "asleep",
         NotifyOne(side, next)
  PROVE  /\ pc' \in [Sides -> SourcePcs \cup ReaderPcs]
         /\ pc'[side] = next
         /\ pc'[other] = IF pc[other] = "asleep" THEN "woken" ELSE pc[other]
         /\ unheard' = unheard \ Asleep
<1> USE DEF Shape, NotifyOne, Goes, Asleep, SourcePcs, ReaderPcs
<1>1. Sides = {side, other}
  BY DEF Sides
<1>2. CASE pc[other] = "asleep"
  <2>1. Asleep = {other}
    BY <1>1, <1>2
  <2> QED
    BY <2>1, <1>1, <1>2
<1>3. CASE pc[other] # "asleep"
  <2>1. Asleep = {}
    BY <1>1, <1>3
  <2> QED
    BY <2>1, <1>1, <1>3
<1> QED
  BY <1>2, <1>3

\* notify_all() wakes who sleeps, and is too early for who is about to sleep.
LEMMA NotifyAllWakes ==
  ASSUME Shape, NEW leaving \in SUBSET {"reader"}, NotifyAll(leaving)
  PROVE  /\ pc' \in [Sides -> SourcePcs \cup ReaderPcs]
         /\ pc'["source"] = IF pc["source"] = "asleep" THEN "woken" ELSE pc["source"]
         /\ pc'["reader"] = IF "reader" \in leaving THEN "off"
                            ELSE IF pc["reader"] = "asleep" THEN "woken"
                            ELSE pc["reader"]
         /\ unheard' = (unheard \ Asleep) \cup {t \in Sides : pc[t] = "block"}
BY DEF Shape, NotifyAll, Asleep, Sides, SourcePcs, ReaderPcs

\* The initial state has the strengthened invariant.
LEMMA VideoBufferInit == Init => VideoBufferInv
BY VideoBufferAssumption
   DEF Init, VideoBufferInv, TypeOK, Shape, Blocked, Phases, NoLostHandoff,
       StopIsHeard, WaitHolds, Stopped, Asleep, Sides, SourcePcs, ReaderPcs, Bytes

\* A push that has room appends the chunk.
LEMMA PushExtends ==
  ASSUME buffer \in Seq(Bytes), size \in Nat, offered \in Nat,
         buffer' = buffer \o Chunk(offered, size)
  PROVE  buffer' \in Seq(Bytes) /\ Len(buffer') = Len(buffer) + size
<1>1. Chunk(offered, size) \in Seq(Bytes) /\ Len(Chunk(offered, size)) = size
  BY ChunkIsSeq
<1>2. /\ buffer \o Chunk(offered, size) \in Seq(Bytes)
      /\ Len(buffer \o Chunk(offered, size)) = Len(buffer) + size
  BY <1>1, ConcatIsSeq
<1> QED
  BY <1>2

\* Every step keeps it, action by action.
LEMMA VideoBufferStep ==
  ASSUME VideoBufferInv, [Next]_vars
  PROVE  VideoBufferInv'
<1> USE VideoBufferAssumption
    DEF VideoBufferInv, TypeOK, Shape, Blocked, Phases, NoLostHandoff, StopIsHeard,
        WaitHolds, Stopped, HasRoom, NotifyAllComes, Asleep, Sides, SourcePcs,
        ReaderPcs, SourceTold, data, counts
<1>1. ASSUME NEW side \in Sides, Acquire(side)
      PROVE  VideoBufferInv'
  BY <1>1 DEF Acquire, Goes, Ready
<1>2. ASSUME NEW side \in Sides, Block(side)
      PROVE  VideoBufferInv'
  BY <1>2 DEF Block, Goes
<1>3. ASSUME NEW side \in Sides, SpuriousWakeup(side)
      PROVE  VideoBufferInv'
  BY <1>3 DEF SpuriousWakeup, Goes
<1>4. ASSUME NEW s \in Sizes, SourceOffers(s)
      PROVE  VideoBufferInv'
  BY <1>4 DEF SourceOffers, Goes
<1>5. CASE SourceClears
  BY <1>5 DEF SourceClears, Goes, Clear
<1>6. CASE SourcePushes
  <2>1. CASE HasRoom
    <3>1. buffer \in Seq(Bytes) /\ size \in Nat /\ offered \in Nat
      OBVIOUS
    <3>2. buffer' = buffer \o Chunk(offered, size)
      BY <1>6, <2>1 DEF SourcePushes
    <3>3. buffer' \in Seq(Bytes) /\ Len(buffer') = Len(buffer) + size
      BY <3>1, <3>2, PushExtends
    <3> QED
      BY <1>6, <2>1, <3>3 DEF SourcePushes, Goes
  <2>2. CASE ~HasRoom
    BY <1>6, <2>2 DEF SourcePushes, Goes
  <2> QED
    BY <2>1, <2>2
<1>7. CASE SourceNotifies
  <2>1. /\ pc' \in [Sides -> SourcePcs \cup ReaderPcs]
        /\ pc'["source"] = "idle"
        /\ pc'["reader"] = IF pc["reader"] = "asleep" THEN "woken" ELSE pc["reader"]
        /\ unheard' = unheard \ Asleep
    BY <1>7, NotifyOneWakes DEF SourceNotifies
  <2>2. \A t \in Sides : pc'[t] \in {"check", "block"} <=> pc[t] \in {"check", "block"}
    BY <1>7, <2>1 DEF SourceNotifies
  <2>3. TypeOK'
    BY <1>7, <2>1, <2>2 DEF SourceNotifies
  <2>4. Shape' /\ Blocked' /\ Phases'
    BY <1>7, <2>1 DEF SourceNotifies
  <2>5. NoLostHandoff' /\ StopIsHeard' /\ WaitHolds'
    BY <1>7, <2>1 DEF SourceNotifies
  <2> QED
    BY <2>3, <2>4, <2>5
<1>8. CASE ProbeReads
  BY <1>8 DEF ProbeReads, Goes
<1>9. CASE MuxerTests
  BY <1>9 DEF MuxerTests, Goes
<1>10. CASE ReaderClears
  BY <1>10 DEF ReaderClears, Goes, Clear
<1>11. CASE ReaderPulls
  BY <1>11 DEF ReaderPulls, Goes
<1>12. CASE ReaderNotifies
  <2>1. /\ pc' \in [Sides -> SourcePcs \cup ReaderPcs]
        /\ pc["reader"] \in {"notify", "notifyEof"}
        /\ pc'["reader"] \in {"use", "failing"}
        /\ pc'["source"] = IF pc["source"] = "asleep" THEN "woken" ELSE pc["source"]
        /\ unheard' = unheard \ Asleep
    BY <1>12, NotifyOneWakes DEF ReaderNotifies
  <2>2. \A t \in Sides : pc'[t] \in {"check", "block"} <=> pc[t] \in {"check", "block"}
    BY <1>12, <2>1 DEF ReaderNotifies
  <2>3. TypeOK'
    BY <1>12, <2>1, <2>2 DEF ReaderNotifies
  <2>4. Shape' /\ Blocked' /\ Phases'
    BY <1>12, <2>1 DEF ReaderNotifies
  <2>5. NoLostHandoff' /\ StopIsHeard' /\ WaitHolds'
    BY <1>12, <2>1 DEF ReaderNotifies
  <2> QED
    BY <2>3, <2>4, <2>5
<1>13. CASE ReaderUses
  BY <1>13 DEF ReaderUses, Goes
<1>14. CASE ReaderReports
  BY <1>14 DEF ReaderReports, Goes
<1>15. CASE ReaderWakes
  <2>1. /\ pc' \in [Sides -> SourcePcs \cup ReaderPcs]
        /\ pc'["source"] = IF pc["source"] = "asleep" THEN "woken" ELSE pc["source"]
        /\ pc'["reader"] = "off"
        /\ unheard' = (unheard \ Asleep) \cup {t \in Sides : pc[t] = "block"}
    BY <1>15, NotifyAllWakes DEF ReaderWakes
  <2>2. \A t \in Sides : pc'[t] \in {"check", "block"} <=> pc[t] \in {"check", "block"}
    BY <1>15, <2>1 DEF ReaderWakes
  <2>3. TypeOK'
    BY <1>15, <2>1, <2>2 DEF ReaderWakes
  <2>4. Shape' /\ Blocked' /\ Phases'
    BY <1>15, <2>1 DEF ReaderWakes
  <2>5. NoLostHandoff' /\ StopIsHeard' /\ WaitHolds'
    BY <1>15, <2>1 DEF ReaderWakes
  <2> QED
    BY <2>3, <2>4, <2>5
<1>16. CASE BusLeaves
  BY <1>16 DEF BusLeaves
<1>17. CASE BusCloses
  BY <1>17 DEF BusCloses
<1>18. CASE BusReports
  BY <1>18 DEF BusReports
<1>19. CASE BusWakes
  <2>1. /\ pc' \in [Sides -> SourcePcs \cup ReaderPcs]
        /\ pc'["source"] = IF pc["source"] = "asleep" THEN "woken" ELSE pc["source"]
        /\ pc'["reader"] = IF pc["reader"] = "asleep" THEN "woken" ELSE pc["reader"]
        /\ unheard' = (unheard \ Asleep) \cup {t \in Sides : pc[t] = "block"}
    BY <1>19, NotifyAllWakes DEF BusWakes
  <2>2. \A t \in Sides : pc'[t] \in {"check", "block"} <=> pc[t] \in {"check", "block"}
    BY <1>19, <2>1 DEF BusWakes
  <2>3. TypeOK'
    BY <1>19, <2>1, <2>2 DEF BusWakes
  <2>4. Shape' /\ Blocked' /\ Phases'
    BY <1>19, <2>1 DEF BusWakes
  <2>5. NoLostHandoff' /\ StopIsHeard' /\ WaitHolds'
    BY <1>19, <2>1 DEF BusWakes
  <2> QED
    BY <2>3, <2>4, <2>5
<1>20. CASE StartDone
  BY <1>20 DEF StartDone
<1>21. CASE PauseTests
  BY <1>21 DEF PauseTests
<1>22. CASE PauseSets
  BY <1>22 DEF PauseSets
<1>23. CASE PauseWakes
  <2>1. /\ pc' \in [Sides -> SourcePcs \cup ReaderPcs]
        /\ pc'["source"] = IF pc["source"] = "asleep" THEN "woken" ELSE pc["source"]
        /\ pc'["reader"] = IF pc["reader"] = "asleep" THEN "woken" ELSE pc["reader"]
        /\ unheard' = (unheard \ Asleep) \cup {t \in Sides : pc[t] = "block"}
    BY <1>23, NotifyAllWakes DEF PauseWakes
  <2>2. \A t \in Sides : pc'[t] \in {"check", "block"} <=> pc[t] \in {"check", "block"}
    BY <1>23, <2>1 DEF PauseWakes
  <2>3. TypeOK'
    BY <1>23, <2>1, <2>2 DEF PauseWakes
  <2>4. Shape' /\ Blocked' /\ Phases'
    BY <1>23, <2>1 DEF PauseWakes
  <2>5. NoLostHandoff' /\ StopIsHeard' /\ WaitHolds'
    BY <1>23, <2>1 DEF PauseWakes
  <2> QED
    BY <2>3, <2>4, <2>5
<1>24. CASE PauseJoins
  BY <1>24 DEF PauseJoins
<1>25. CASE ResumeTests
  BY <1>25 DEF ResumeTests
<1>26. CASE ResumeSets
  BY <1>26 DEF ResumeSets, Goes
<1>27. CASE Destroy
  BY <1>27 DEF Destroy
<1>28. CASE EndWakes
  <2>1. /\ pc' \in [Sides -> SourcePcs \cup ReaderPcs]
        /\ pc'["source"] = IF pc["source"] = "asleep" THEN "woken" ELSE pc["source"]
        /\ pc'["reader"] = IF pc["reader"] = "asleep" THEN "woken" ELSE pc["reader"]
        /\ unheard' = (unheard \ Asleep) \cup {t \in Sides : pc[t] = "block"}
    BY <1>28, NotifyAllWakes DEF EndWakes
  <2>2. \A t \in Sides : pc'[t] \in {"check", "block"} <=> pc[t] \in {"check", "block"}
    BY <1>28, <2>1 DEF EndWakes
  <2>3. TypeOK'
    BY <1>28, <2>1, <2>2 DEF EndWakes
  <2>4. Shape' /\ Blocked' /\ Phases'
    BY <1>28, <2>1 DEF EndWakes
  <2>5. NoLostHandoff' /\ StopIsHeard' /\ WaitHolds'
    BY <1>28, <2>1 DEF EndWakes
  <2> QED
    BY <2>3, <2>4, <2>5
<1>29. CASE JoinSource
  BY <1>29 DEF JoinSource
<1>30. CASE JoinReader
  BY <1>30 DEF JoinReader
<1>31. CASE UNCHANGED vars
  BY <1>31 DEF vars
<1> QED
  BY <1>1, <1>2, <1>3, <1>4, <1>5, <1>6, <1>7, <1>8, <1>9, <1>10, <1>11,
     <1>12, <1>13, <1>14, <1>15, <1>16, <1>17, <1>18, <1>19, <1>20, <1>21,
     <1>22, <1>23, <1>24, <1>25, <1>26, <1>27, <1>28, <1>29, <1>30, <1>31 DEF
     Next, SourceStep, ReaderStep, ControlStep, BusStep

-----------------------------------------------------------------------------

\* The strengthened invariant holds throughout.
THEOREM VideoBufferInvariant == SafeSpec => []VideoBufferInv
<1>1. VideoBufferInv /\ [Next]_vars => VideoBufferInv'
  BY VideoBufferStep
<1> QED
  BY <1>1, VideoBufferInit, PTL DEF SafeSpec

\* The buffer never outgrows m_videoBufSize and the mutex is held by the side
\* that tests its predicate, or acts on it (caster.cpp l. 3967-3989, 4135-4154).
THEOREM VideoBufferTypeOK == SafeSpec => []TypeOK
<1>1. VideoBufferInv => TypeOK
  BY DEF VideoBufferInv
<1> QED
  BY <1>1, VideoBufferInvariant, PTL

\* The camera's thread and the demuxer never miss each other's notification on
\* m_videoCv (caster.cpp l. 3975, 3986, 4153).
THEOREM VideoBufferHandoff == SafeSpec => []NoLostHandoff
<1>1. VideoBufferInv => NoLostHandoff
  BY DEF VideoBufferInv
<1> QED
  BY <1>1, VideoBufferInvariant, PTL

\* The only way to sleep through a stop is the instant between the predicate
\* and the sleep (caster.cpp l. 653-654, 734-735, 1061-1063).
THEOREM VideoBufferStop == SafeSpec => []StopIsHeard
<1>1. VideoBufferInv => StopIsHeard
  BY DEF VideoBufferInv
<1> QED
  BY <1>1, VideoBufferInvariant, PTL

\* What a wait was for still holds when the buffer is used, but for a resume
\* (caster.cpp l. 3968-3980, 4136-4144).
THEOREM VideoBufferWait == SafeSpec => []WaitHolds
<1>1. VideoBufferInv => WaitHolds
  BY DEF VideoBufferInv
<1> QED
  BY <1>1, VideoBufferInvariant, PTL

\* After ~Caster nobody is inside the buffer (caster.cpp l. 651-664, 1078-1087).
THEOREM VideoBufferEnd == SafeSpec => []NobodyInsideAfterEnd
<1>1. VideoBufferInv => NobodyInsideAfterEnd
  BY DEF VideoBufferInv, Phases, NobodyInsideAfterEnd
<1> QED
  BY <1>1, VideoBufferInvariant, PTL
-----------------------------------------------------------------------------
(***************************************************************************)
(* The chunks.  What was accepted is older than the chunk on offer, until  *)
(* that is pushed; so the bytes in the buffer and those the demuxer has    *)
(* read are all different.                                                 *)
(***************************************************************************)

Offering == pc["source"] \in {"lock", "block", "asleep", "woken", "check"}

OrderInv ==
  /\ accepted \in Seq(Bytes)
  /\ received \in Seq(Bytes)
  /\ \A i \in DOMAIN accepted :
       /\ accepted[i].chunk <= offered
       /\ Offering => accepted[i].chunk < offered
  /\ cleared \subseteq Range(accepted)
  /\ ChunksInOrder

InOrder(s) == \A i, j \in DOMAIN s : i < j => Before(s[i], s[j])

\* Two sequences, one after the other.
LEMMA Joined ==
  ASSUME NEW S, NEW s \in Seq(S), NEW t \in Seq(S)
  PROVE  /\ Len(s) \in Nat /\ Len(t) \in Nat
         /\ DOMAIN s = 1 .. Len(s) /\ DOMAIN t = 1 .. Len(t)
         /\ s \o t \in Seq(S)
         /\ DOMAIN (s \o t) = 1 .. Len(s) + Len(t)
         /\ \A i \in DOMAIN s : i \in DOMAIN (s \o t) /\ (s \o t)[i] = s[i]
         /\ \A i \in DOMAIN t :
              i + Len(s) \in DOMAIN (s \o t) /\ (s \o t)[i + Len(s)] = t[i]
         /\ \A i \in DOMAIN (s \o t) :
              \/ i \in DOMAIN s
              \/ i - Len(s) \in DOMAIN t /\ (s \o t)[i] = t[i - Len(s)]
OBVIOUS

LEMMA RangeOfJoined ==
  ASSUME NEW S, NEW s \in Seq(S), NEW t \in Seq(S)
  PROVE  Range(s \o t) = Range(s) \cup Range(t)
<1> DEFINE all == s \o t
<1>1. /\ \A i \in DOMAIN s : i \in DOMAIN all /\ all[i] = s[i]
      /\ \A i \in DOMAIN t : i + Len(s) \in DOMAIN all /\ all[i + Len(s)] = t[i]
      /\ \A i \in DOMAIN all : i \in DOMAIN s
           \/ (i - Len(s) \in DOMAIN t /\ all[i] = t[i - Len(s)])
  BY Joined
<1> HIDE DEF all
<1>2. \A x \in Range(all) : x \in Range(s) \cup Range(t)
  BY <1>1 DEF Range
<1>3. \A x \in Range(s) \cup Range(t) : x \in Range(all)
  BY <1>1 DEF Range
<1>4. Range(all) = Range(s) \cup Range(t)
  BY <1>2, <1>3
<1> QED
  BY <1>4 DEF all

\* A sequence is in order when both parts are, and the first is before the second.
LEMMA OrderOfJoined ==
  ASSUME NEW s \in Seq(Bytes), NEW t \in Seq(Bytes)
  PROVE  InOrder(s \o t) <=> /\ InOrder(s)
                             /\ InOrder(t)
                             /\ \A x \in Range(s), y \in Range(t) : Before(x, y)
<1> DEFINE all == s \o t
<1>1. /\ Len(s) \in Nat /\ Len(t) \in Nat
      /\ DOMAIN s = 1 .. Len(s) /\ DOMAIN t = 1 .. Len(t)
      /\ DOMAIN all = 1 .. Len(s) + Len(t)
      /\ \A i \in DOMAIN s : i \in DOMAIN all /\ all[i] = s[i]
      /\ \A i \in DOMAIN t : i + Len(s) \in DOMAIN all /\ all[i + Len(s)] = t[i]
      /\ \A i \in DOMAIN all : i \in DOMAIN s
           \/ (i - Len(s) \in DOMAIN t /\ all[i] = t[i - Len(s)])
  BY Joined
<1> HIDE DEF all
<1>2. ASSUME InOrder(all)
      PROVE  InOrder(s) /\ InOrder(t) /\ \A x \in Range(s), y \in Range(t) : Before(x, y)
  <2>1. InOrder(s)
    BY <1>1, <1>2 DEF InOrder
  <2>2. ASSUME NEW i \in DOMAIN t, NEW j \in DOMAIN t, i < j
        PROVE  Before(t[i], t[j])
    <3>1. i + Len(s) < j + Len(s)
      BY <1>1, <2>2
    <3>2. Before(all[i + Len(s)], all[j + Len(s)])
      BY <1>1, <1>2, <3>1 DEF InOrder
    <3> QED
      BY <1>1, <3>2
  <2>3. ASSUME NEW i \in DOMAIN s, NEW j \in DOMAIN t
        PROVE  Before(s[i], t[j])
    <3>1. i < j + Len(s)
      BY <1>1
    <3>2. Before(all[i], all[j + Len(s)])
      BY <1>1, <1>2, <3>1 DEF InOrder
    <3> QED
      BY <1>1, <3>2
  <2>4. \A x \in Range(s), y \in Range(t) : Before(x, y)
    BY <2>3 DEF Range
  <2> QED
    BY <2>1, <2>2, <2>4 DEF InOrder
<1>3. ASSUME InOrder(s), InOrder(t), \A x \in Range(s), y \in Range(t) : Before(x, y)
      PROVE  InOrder(all)
  <2> SUFFICES ASSUME NEW i \in DOMAIN all, NEW j \in DOMAIN all, i < j
               PROVE  Before(all[i], all[j])
    BY DEF InOrder
  <2>1. CASE i \in DOMAIN s /\ j \in DOMAIN s
    BY <1>1, <1>3, <2>1 DEF InOrder
  <2>2. CASE i \notin DOMAIN s /\ j \notin DOMAIN s
    <3>1. /\ i - Len(s) \in DOMAIN t /\ all[i] = t[i - Len(s)]
          /\ j - Len(s) \in DOMAIN t /\ all[j] = t[j - Len(s)]
          /\ i - Len(s) < j - Len(s)
      BY <1>1, <2>2
    <3> QED
      BY <1>3, <3>1 DEF InOrder
  <2>3. CASE i \in DOMAIN s /\ j \notin DOMAIN s
    <3>1. /\ all[i] \in Range(s)
          /\ j - Len(s) \in DOMAIN t /\ all[j] = t[j - Len(s)]
      BY <1>1, <2>3 DEF Range
    <3>2. all[j] \in Range(t)
      BY <3>1 DEF Range
    <3> QED
      BY <1>3, <3>1, <3>2
  <2>4. ~(i \notin DOMAIN s /\ j \in DOMAIN s)
    BY <1>1
  <2> QED
    BY <2>1, <2>2, <2>3, <2>4
<1> QED
  BY <1>2, <1>3 DEF all

\* A chunk is in order, and all of its bytes are of its number.
LEMMA ChunkInOrder ==
  ASSUME NEW n \in Nat, NEW s \in Nat
  PROVE  /\ InOrder(Chunk(n, s))
         /\ \A x \in Range(Chunk(n, s)) : x.chunk = n
BY DEF InOrder, Chunk, Before, Range

\* No byte is before itself.
LEMMA OnceOnly ==
  ASSUME NEW s \in Seq(Bytes), NEW t \in Seq(Bytes), InOrder(s \o t)
  PROVE  Range(s) \cap Range(t) = {}
<1>1. \A x \in Range(s), y \in Range(t) : Before(x, y)
  BY OrderOfJoined
<1>2. Range(s) \subseteq Bytes
  BY DEF Range
<1>3. \A x \in Bytes : ~Before(x, x)
  BY DEF Before, Bytes
<1> QED
  BY <1>1, <1>2, <1>3

\* What is pulled from the buffer goes to the demuxer, the rest stays.
LEMMA PullKeepsAll ==
  ASSUME NEW S, NEW s \in Seq(S), NEW t \in Seq(S), NEW n \in 0 .. Len(t)
  PROVE  /\ s \o SubSeq(t, 1, n) \in Seq(S)
         /\ SubSeq(t, n + 1, Len(t)) \in Seq(S)
         /\ (s \o SubSeq(t, 1, n)) \o SubSeq(t, n + 1, Len(t)) = s \o t
<1> DEFINE head == SubSeq(t, 1, n)
           rest == SubSeq(t, n + 1, Len(t))
<1>1. /\ head \in Seq(S) /\ Len(head) = n
      /\ \A i \in 1 .. n : head[i] = t[i]
  OBVIOUS
<1>2. /\ rest \in Seq(S) /\ Len(rest) = Len(t) - n
      /\ \A i \in 1 .. Len(t) - n : rest[i] = t[i + n]
  OBVIOUS
<1> HIDE DEF head, rest
<1> DEFINE first == s \o head
<1>3. /\ first \in Seq(S) /\ Len(first) = Len(s) + n
      /\ \A i \in 1 .. Len(s) : first[i] = s[i]
      /\ \A i \in 1 .. n : first[i + Len(s)] = t[i]
  BY <1>1
<1> HIDE DEF first
<1>4. /\ first \o rest \in Seq(S) /\ Len(first \o rest) = Len(s) + Len(t)
      /\ \A i \in 1 .. Len(s) + n : (first \o rest)[i] = first[i]
      /\ \A i \in 1 .. Len(t) - n : (first \o rest)[i + (Len(s) + n)] = rest[i]
  <2>1. /\ Len(first) \in Nat /\ Len(rest) \in Nat
        /\ DOMAIN first = 1 .. Len(s) + n /\ DOMAIN rest = 1 .. Len(t) - n
        /\ Len(first) + Len(rest) = Len(s) + Len(t)
    BY <1>2, <1>3
  <2>2. /\ first \o rest \in Seq(S)
        /\ DOMAIN (first \o rest) = 1 .. Len(first) + Len(rest)
        /\ \A i \in DOMAIN first : (first \o rest)[i] = first[i]
        /\ \A i \in DOMAIN rest : (first \o rest)[i + Len(first)] = rest[i]
    <3>1. first \in Seq(S) /\ rest \in Seq(S)
      BY <1>2, <1>3
    <3> QED
      BY ONLY <3>1, Joined
  <2>3. Len(first \o rest) = Len(s) + Len(t)
    BY <2>1, <2>2
  <2> QED
    BY <1>3, <2>1, <2>2, <2>3
<1>5. /\ s \o t \in Seq(S) /\ Len(s \o t) = Len(s) + Len(t)
      /\ \A i \in 1 .. Len(s) : (s \o t)[i] = s[i]
      /\ \A i \in 1 .. Len(t) : (s \o t)[i + Len(s)] = t[i]
  OBVIOUS
<1>6. ASSUME NEW i \in 1 .. Len(s) + Len(t)
      PROVE  (first \o rest)[i] = (s \o t)[i]
  <2>1. CASE i \in 1 .. Len(s)
    BY <1>3, <1>4, <1>5, <2>1
  <2>2. ASSUME NEW j \in 1 .. n, i = j + Len(s)
        PROVE  (first \o rest)[i] = (s \o t)[i]
    <3>1. j \in 1 .. Len(t) /\ j + Len(s) \in 1 .. Len(s) + n
      OBVIOUS
    <3> QED
      BY <1>3, <1>4, <1>5, <2>2, <3>1
  <2>3. ASSUME NEW j \in 1 .. Len(t) - n, i = j + (Len(s) + n)
        PROVE  (first \o rest)[i] = (s \o t)[i]
    <3>1. j + n \in 1 .. Len(t) /\ (j + n) + Len(s) = i
      BY <2>3
    <3>2. (first \o rest)[i] = t[j + n]
      BY <1>2, <1>4, <2>3
    <3>3. (s \o t)[(j + n) + Len(s)] = t[j + n]
      BY <1>5, <3>1
    <3> QED
      BY <3>1, <3>2, <3>3
  <2>4. \/ i \in 1 .. Len(s)
        \/ i - Len(s) \in 1 .. n /\ i = (i - Len(s)) + Len(s)
        \/ i - (Len(s) + n) \in 1 .. Len(t) - n
             /\ i = (i - (Len(s) + n)) + (Len(s) + n)
    OBVIOUS
  <2> QED
    BY <2>1, <2>2, <2>3, <2>4
<1>7. first \o rest = s \o t
  BY <1>4, <1>5, <1>6
<1> QED
  BY <1>2, <1>3, <1>7 DEF first, head, rest

\* Who does not touch the chunks keeps their order.
LEMMA UntouchedChunks ==
  ASSUME OrderInv, UNCHANGED <<accepted, received, buffer, cleared>>
  PROVE  /\ ChunksInOrder'
         /\ accepted' \in Seq(Bytes) /\ received' \in Seq(Bytes)
         /\ cleared' \subseteq Range(accepted')
<1>1. received' \o buffer' = received \o buffer /\ Range(accepted') = Range(accepted)
  OBVIOUS
<1>2. Range(received' \o buffer') = Range(accepted') \ cleared'
  BY <1>1 DEF OrderInv, ChunksInOrder
<1>3. \A i, j \in DOMAIN (received' \o buffer') :
        i < j => Before((received' \o buffer')[i], (received' \o buffer')[j])
  BY <1>1 DEF OrderInv, ChunksInOrder
<1>4. ChunksInOrder'
  BY <1>2, <1>3 DEF ChunksInOrder, Range, Before
<1> QED
  BY <1>1, <1>4 DEF OrderInv

\* A side that clears the buffer takes away what was not read yet.
LEMMA ClearKeepsOrder ==
  ASSUME Shape, OrderInv, Clear, offered' = offered, Offering' => Offering
  PROVE  OrderInv'
<1>1. buffer \in Seq(Bytes) /\ received \in Seq(Bytes) /\ InOrder(received \o buffer)
  BY DEF Shape, OrderInv, ChunksInOrder, InOrder
<1>2. received' \o buffer' = received /\ UNCHANGED <<accepted, received>>
  BY <1>1 DEF Clear
<1>3. InOrder(received) /\ Range(received) \cap Range(buffer) = {}
  BY <1>1, OrderOfJoined, OnceOnly
<1>4. Range(received) \cup Range(buffer) = Range(accepted) \ cleared
  BY <1>1, RangeOfJoined DEF OrderInv, ChunksInOrder
<1>5. cleared' = cleared \cup Range(buffer)
  BY DEF Clear
<1>6. Range(received) = Range(accepted) \ cleared'
  BY <1>3, <1>4, <1>5
<1>7. cleared' \subseteq Range(accepted)
  BY <1>4, <1>5 DEF OrderInv
<1>8. ChunksInOrder'
  <2>1. Range(received' \o buffer') = Range(accepted') \ cleared'
    BY <1>2, <1>6
  <2>2. \A i, j \in DOMAIN (received' \o buffer') :
          i < j => Before((received' \o buffer')[i], (received' \o buffer')[j])
    BY <1>2, <1>3 DEF InOrder
  <2> QED
    BY <2>1, <2>2 DEF ChunksInOrder, Range, Before
<1>9. Range(accepted') = Range(accepted)
  BY <1>2
<1>10. cleared' \subseteq Range(accepted')
  BY <1>7, <1>9
<1> QED
  BY <1>2, <1>8, <1>10 DEF OrderInv, Range

\* A chunk that is pushed comes after all others.
LEMMA PushKeepsOrder ==
  ASSUME VideoBufferInv, OrderInv, SourcePushes
  PROVE  OrderInv'
<1>1. UNCHANGED <<received, cleared, offered>> /\ Offering /\ ~Offering'
  BY DEF SourcePushes, Goes, Offering, counts, Sides, VideoBufferInv, Shape
<1>2. CASE UNCHANGED <<buffer, accepted>>
  BY <1>1, <1>2, UntouchedChunks DEF OrderInv, Range
<1>3. CASE /\ buffer' = buffer \o Chunk(offered, size)
           /\ accepted' = accepted \o Chunk(offered, size)
  <2> DEFINE chunk == Chunk(offered, size)
             read  == received \o buffer
  <2>1. offered \in Nat /\ size \in Nat
    BY VideoBufferAssumption DEF VideoBufferInv, TypeOK
  <2>2. chunk \in Seq(Bytes) /\ InOrder(chunk) /\ \A x \in Range(chunk) : x.chunk = offered
    BY <2>1, ChunkIsSeq, ChunkInOrder
  <2>3. /\ accepted \in Seq(Bytes) /\ received \in Seq(Bytes) /\ buffer \in Seq(Bytes)
        /\ read \in Seq(Bytes)
    BY Joined DEF VideoBufferInv, Shape, OrderInv
  <2>4. /\ InOrder(read) /\ Range(read) = Range(accepted) \ cleared
        /\ cleared \subseteq Range(accepted)
    BY DEF OrderInv, ChunksInOrder, InOrder
  <2>5. \A x \in Range(accepted) : x \in Bytes /\ x.chunk < offered
    BY <1>1, <2>3 DEF OrderInv, Range
  <2> HIDE DEF chunk
  <2>6. received \o (buffer \o chunk) = read \o chunk
    BY <2>2, <2>3
  <2> HIDE DEF read
  <2>7. received' \o buffer' = read \o chunk
    BY <1>1, <1>3, <2>6 DEF chunk
  <2>8. /\ Range(read \o chunk) = Range(read) \cup Range(chunk)
        /\ Range(accepted \o chunk) = Range(accepted) \cup Range(chunk)
    BY <2>2, <2>3, RangeOfJoined
  <2>9. Range(accepted) \cap Range(chunk) = {}
    <3>1. \A x \in Range(chunk) : ~(x.chunk < offered)
      BY <2>1, <2>2
    <3> QED
      BY <2>5, <3>1
  <2>10. Range(read \o chunk) = Range(accepted \o chunk) \ cleared
    BY <2>4, <2>8, <2>9
  <2>11. \A x \in Range(read), y \in Range(chunk) : Before(x, y)
    BY <2>2, <2>4, <2>5 DEF Before
  <2>12. InOrder(read \o chunk)
    BY <2>2, <2>3, <2>4, <2>11, OrderOfJoined
  <2>13. accepted' = accepted \o chunk
    BY <1>3 DEF chunk
  <2>14. ChunksInOrder'
    <3>1. Range(received' \o buffer') = Range(accepted') \ cleared'
      BY <1>1, <2>7, <2>10, <2>13
    <3>2. \A i, j \in DOMAIN (received' \o buffer') :
            i < j => Before((received' \o buffer')[i], (received' \o buffer')[j])
      BY <2>7, <2>12 DEF InOrder
    <3> QED
      BY <3>1, <3>2 DEF ChunksInOrder, Range, Before
  <2>15. cleared' \subseteq Range(accepted')
    BY <1>1, <2>4, <2>8, <2>13
  <2>16. \A x \in Range(accepted') : x.chunk <= offered
    BY <2>1, <2>2, <2>5, <2>8, <2>13 DEF Bytes
  <2>17. \A i \in DOMAIN accepted' : accepted'[i].chunk <= offered
    BY <2>16 DEF Range
  <2>18. accepted' \in Seq(Bytes)
    BY <2>2, <2>3, <2>13, Joined
  <2> QED
    BY <1>1, <2>3, <2>14, <2>15, <2>17, <2>18 DEF OrderInv, Range
<1> QED
  BY <1>2, <1>3 DEF SourcePushes

\* A read moves bytes from the head of the buffer to the demuxer.
LEMMA PullKeepsOrder ==
  ASSUME VideoBufferInv, OrderInv, ReaderPulls
  PROVE  OrderInv'
<1>1. UNCHANGED <<accepted, cleared, offered>> /\ Offering' = Offering
  BY DEF ReaderPulls, Goes, Offering, counts, Sides, VideoBufferInv, Shape
<1>2. PICK n \in 0 .. Len(buffer) :
        /\ received' = received \o SubSeq(buffer, 1, n)
        /\ buffer' = SubSeq(buffer, n + 1, Len(buffer))
  BY DEF ReaderPulls
<1>3. received \in Seq(Bytes) /\ buffer \in Seq(Bytes)
  BY DEF VideoBufferInv, Shape, OrderInv
<1>4. received' \in Seq(Bytes) /\ received' \o buffer' = received \o buffer
  BY <1>2, <1>3, PullKeepsAll
<1>5. ChunksInOrder'
  <2>1. Range(received' \o buffer') = Range(accepted') \ cleared'
    BY <1>1, <1>4 DEF OrderInv, ChunksInOrder
  <2>2. \A i, j \in DOMAIN (received' \o buffer') :
          i < j => Before((received' \o buffer')[i], (received' \o buffer')[j])
    BY <1>4 DEF OrderInv, ChunksInOrder
  <2> QED
    BY <2>1, <2>2 DEF ChunksInOrder, Range, Before
<1> QED
  BY <1>1, <1>4, <1>5 DEF OrderInv, Range

\* Every step keeps the order.
LEMMA OrderStep ==
  ASSUME VideoBufferInv, OrderInv, [Next]_vars
  PROVE  OrderInv'
<1>1. ASSUME UNCHANGED data, offered' = offered, Offering' => Offering
      PROVE  OrderInv'
  BY <1>1, UntouchedChunks DEF data, OrderInv, Range
<1> USE DEF Offering, VideoBufferInv, Shape, Sides
<1>2. ASSUME NEW side \in Sides, Acquire(side)
      PROVE  OrderInv'
  BY <1>1, <1>2 DEF Acquire, Goes, counts
<1>3. ASSUME NEW side \in Sides, Block(side)
      PROVE  OrderInv'
  BY <1>1, <1>3 DEF Block, Goes, counts
<1>4. ASSUME NEW side \in Sides, SpuriousWakeup(side)
      PROVE  OrderInv'
  BY <1>1, <1>4 DEF SpuriousWakeup, Goes, counts
<1>5. ASSUME NEW s \in Sizes, SourceOffers(s)
      PROVE  OrderInv'
  <2>1. UNCHANGED data /\ offered' = offered + 1 /\ offered \in Nat
    BY <1>5 DEF SourceOffers, TypeOK
  <2>2. \A i \in DOMAIN accepted : accepted[i].chunk \in Nat
    <3>1. \A i \in DOMAIN accepted : accepted[i] \in Bytes
      BY DEF OrderInv
    <3> QED
      BY <3>1 DEF Bytes
  <2>3. \A i \in DOMAIN accepted :
          accepted[i].chunk <= offered' /\ accepted[i].chunk < offered'
    BY <2>1, <2>2 DEF OrderInv
  <2> QED
    BY <2>1, <2>3, UntouchedChunks DEF data, OrderInv, Range
<1>6. CASE SourceClears
  BY <1>6, ClearKeepsOrder DEF SourceClears, Goes, counts
<1>7. CASE SourcePushes
  BY <1>7, PushKeepsOrder
<1>8. CASE SourceNotifies
  <2>1. pc'["source"] = "idle"
    BY <1>8, NotifyOneWakes DEF SourceNotifies, SourcePcs
  <2> QED
    BY <1>1, <1>8, <2>1 DEF SourceNotifies, counts
<1>9. CASE ProbeReads \/ MuxerTests \/ ReaderUses \/ ReaderReports
  BY <1>1, <1>9 DEF ProbeReads, MuxerTests, ReaderUses, ReaderReports, Goes, counts
<1>10. CASE ReaderClears
  BY <1>10, ClearKeepsOrder DEF ReaderClears, Goes, counts
<1>11. CASE ReaderPulls
  BY <1>11, PullKeepsOrder
<1>12. CASE ReaderNotifies
  <2>1. pc'["source"] = IF pc["source"] = "asleep" THEN "woken" ELSE pc["source"]
    BY <1>12, NotifyOneWakes DEF ReaderNotifies, ReaderPcs
  <2> QED
    BY <1>1, <1>12, <2>1 DEF ReaderNotifies, counts
<1>13. ASSUME NEW leaving \in SUBSET {"reader"}, NotifyAll(leaving),
              UNCHANGED <<data, counts>>
       PROVE  OrderInv'
  <2>1. pc'["source"] = IF pc["source"] = "asleep" THEN "woken" ELSE pc["source"]
    BY <1>13, NotifyAllWakes
  <2> QED
    BY <1>1, <1>13, <2>1 DEF counts
<1>14. CASE ReaderWakes \/ BusWakes \/ PauseWakes \/ EndWakes
  BY <1>13, <1>14 DEF ReaderWakes, BusWakes, PauseWakes, EndWakes
<1>15. CASE BusLeaves \/ BusCloses \/ BusReports
  BY <1>1, <1>15 DEF BusLeaves, BusCloses, BusReports, counts
<1>16. CASE StartDone \/ PauseTests \/ PauseSets \/ PauseJoins
  BY <1>1, <1>16 DEF StartDone, PauseTests, PauseSets, PauseJoins, counts
<1>17. CASE ResumeTests \/ ResumeSets
  BY <1>1, <1>17 DEF ResumeTests, ResumeSets, Goes, counts
<1>18. CASE Destroy \/ JoinSource \/ JoinReader
  BY <1>1, <1>18 DEF Destroy, JoinSource, JoinReader, counts
<1>19. CASE UNCHANGED vars
  BY <1>1, <1>19 DEF vars, counts
<1> QED
  BY <1>2, <1>3, <1>4, <1>5, <1>6, <1>7, <1>8, <1>9, <1>10, <1>11, <1>12, <1>14,
     <1>15, <1>16, <1>17, <1>18, <1>19
     DEF Next, SourceStep, ReaderStep, ControlStep, BusStep

\* The demuxer reads what the camera has sent, in that order and once, but for
\* what a pause or the end of the cast throws away: neither the wait nor the
\* split of a chunk over reads loses or repeats a byte (caster.cpp l. 3955-3989,
\* 4131-4155).
THEOREM VideoBufferOrder == SafeSpec => []ChunksInOrder
<1>1. Init => OrderInv
  <2> SUFFICES ASSUME Init PROVE OrderInv
    OBVIOUS
  <2>1. accepted = <<>> /\ received \o buffer = <<>> /\ cleared = {}
    BY DEF Init
  <2>2. DOMAIN accepted = {} /\ DOMAIN (received \o buffer) = {}
    BY <2>1
  <2>3. Range(accepted) = {} /\ Range(received \o buffer) = {}
    BY <2>2 DEF Range
  <2> QED
    BY <2>1, <2>2, <2>3 DEF Init, OrderInv, ChunksInOrder
<1>2. VideoBufferInv /\ OrderInv /\ [Next]_vars => OrderInv'
  BY OrderStep
<1>3. OrderInv => ChunksInOrder
  BY DEF OrderInv
<1> QED
  BY <1>1, <1>2, <1>3, VideoBufferInvariant, PTL DEF SafeSpec
=============================================================================
