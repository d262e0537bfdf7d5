-------------------------- MODULE SlotConfigProofs --------------------------
(***************************************************************************)
(* Proofs about SlotConfig, for any number of slots, any queue length and  *)
(* any bounds: its invariants, and that it implements SlotTable.           *)
(***************************************************************************)
EXTENDS SlotRefinement, TLAPS

LEMMA SlotsFacts ==
    /\ 0 \in Slots
    /\ \A s \in Slots : s # NumSlots - 1 => s + 1 \in Slots
    /\ Slots \subseteq Int
BY NumSlotsAssumption DEF Slots

\* eddystone_adv_slot_write_to_flash stores a configuration.
LEMMA FlashImageType ==
    ASSUME TypeOK, NEW s \in Slots
    PROVE  FlashImage(s) \in Configs
BY DEF TypeOK, FlashImage, Configs, NoConfig, NoKey, Keys, FrameTypes,
       EidConfigLength

LEMMA RestoredType ==
    ASSUME TypeOK, NEW s \in Slots
    PROVE  Restored(s) \in Configs
BY DEF TypeOK, Restored, NvmStates, Configs, NoConfig, NoKey, Keys, FrameTypes

LEMMA PutType ==
    ASSUME TypeOK, NEW e \in Events, Put(e)
    PROVE  /\ queue' \in Seq(Events)
           /\ Len(queue') <= QueueCap
           /\ failed' \in BOOLEAN
<1>1. Len(queue) \in Nat /\ queue \in Seq(Events)
  BY DEF TypeOK
<1>2. CASE Len(queue) < QueueCap
  <2>1. queue' = Append(queue, e) /\ failed' = failed
    BY <1>2 DEF Put
  <2>2. queue' \in Seq(Events) /\ Len(queue') = Len(queue) + 1
    BY <1>1, <2>1
  <2>3. failed' \in BOOLEAN
    BY <2>1 DEF TypeOK
  <2> QED BY <1>1, <1>2, <2>2, <2>3, QueueCapAssumption
<1>3. CASE ~(Len(queue) < QueueCap)
  <2>1. queue' = queue /\ failed' = TRUE
    BY <1>3 DEF Put
  <2> QED BY <2>1 DEF TypeOK
<1> QED BY <1>2, <1>3

LEMMA SetEventType == ASSUME NEW s \in Slots PROVE SetEvent(s) \in Events
BY DEF SetEvent, Events

LEMMA RwAdvDataSetType ==
    ASSUME TypeOK, NEW s \in Slots, NEW t \in FrameTypes, NEW n \in Nat,
           RwAdvDataSet(s, t, n)
    PROVE  /\ ftype' \in [Slots -> FrameTypes]
           /\ flen' \in [Slots -> Nat]
           /\ wrote' \in [Slots -> Nat]
           /\ occupied' \in [Slots -> BOOLEAN]
           /\ ik' \in [Slots -> Keys]
           /\ overtaken' \in [Slots -> BOOLEAN]
           /\ queue' \in Seq(Events) /\ Len(queue') <= QueueCap
           /\ failed' \in BOOLEAN
<1>1. /\ ftype' \in [Slots -> FrameTypes]
      /\ flen' \in [Slots -> Nat]
      /\ wrote' \in [Slots -> Nat]
  BY DEF RwAdvDataSet, TypeOK
<1>2. occupied' \in [Slots -> BOOLEAN] /\ ik' \in [Slots -> Keys]
  <2>1. NoKey \in Keys
    BY DEF NoKey, Keys
  <2>2. CASE t = "EID"
    BY <2>2 DEF RwAdvDataSet, TypeOK
  <2>3. CASE t # "EID"
    BY <2>1, <2>3 DEF RwAdvDataSet, TypeOK
  <2> QED BY <2>2, <2>3
<1>3. /\ queue' \in Seq(Events) /\ Len(queue') <= QueueCap
      /\ failed' \in BOOLEAN
  <2>1. CASE Configured(t, n)
    BY <2>1, SetEventType, PutType DEF RwAdvDataSet
  <2>2. CASE ~Configured(t, n)
    BY <2>2 DEF RwAdvDataSet, TypeOK
  <2> QED BY <2>1, <2>2
<1>4. overtaken' \in [Slots -> BOOLEAN]
  <2>1. overtaken' = [overtaken EXCEPT ![s] = ~Configured(t, n) /\ InsideEidReady(s)]
    BY DEF RwAdvDataSet, Overtakes
  <2>2. (~Configured(t, n) /\ InsideEidReady(s)) \in BOOLEAN
    OBVIOUS
  <2>3. overtaken \in [Slots -> BOOLEAN]
    BY DEF TypeOK
  <2> QED BY <2>1, <2>2, <2>3, Zenon
<1> QED BY <1>1, <1>2, <1>3, <1>4

LEMMA IdleType == \A p \in Positions : [Idle EXCEPT !.at = p] \in MainStates
BY SlotsFacts DEF Idle, MainStates, Positions, FrameTypes, NoKey, Keys, Stores

\* The three stores of eid_ready, all in the slot main is at.
LEMMA EidReadySteps ==
    ASSUME TypeOK, EidReady, NEW m \in Slots, m = main.slot
    PROVE  /\ ~failed /\ main.at \in {"ready", "rotate"}
           /\ UNCHANGED <<wrote, occupied, ik, overtaken, queue>> /\ Unchanging
           /\ \A s \in Slots : s # m =>
                 ftype'[s] = ftype[s] /\ frame'[s] = frame[s] /\ flen'[s] = flen[s]
           /\ \/ /\ main.store = "type" /\ main'.store = "frame"
                 /\ main'.at = main.at /\ main'.slot = m
                 /\ ftype'[m] = "EID" /\ frame' = frame /\ flen' = flen
              \/ /\ main.store = "frame" /\ main'.store = "length"
                 /\ main'.at = main.at /\ main'.slot = m
                 /\ frame'[m] = "EID" /\ ftype' = ftype /\ flen' = flen
              \/ /\ main.store = "length"
                 /\ main.at = "ready" => main' = Idle
                 /\ main'.at \in {"idle", "scan", "endtick"}
                 /\ main.at = "rotate" => main'.at # "idle"
                 /\ main'.store = "type"
                 /\ flen'[m] = ECS_EID_WRITE_ECDH_LENGTH /\ ftype' = ftype /\ frame' = frame
<1>1. main \in MainStates
  BY DEF TypeOK
<1>2. CASE EidReadyType
  BY <1>1, <1>2 DEF EidReadyType, Storing, TypeOK, MainStates
<1>3. CASE EidReadyFrame
  BY <1>1, <1>3 DEF EidReadyFrame, Storing, TypeOK, MainStates
<1>4. CASE EidReadyLength
  <2>1. NextScan.at \in {"scan", "endtick"} /\ NextScan.store = "type"
    BY <1>1 DEF NextScan, Idle, MainStates
  <2> QED
    BY <1>4, <2>1 DEF EidReadyLength, Storing, TypeOK, Idle
<1> QED BY <1>2, <1>3, <1>4 DEF EidReady

\* The state the program starts in is well typed.
LEMMA InitType == Init => TypeOK
<1> SUFFICES ASSUME Init PROVE TypeOK OBVIOUS
<1>1. main \in MainStates
  BY IdleType DEF Init, Positions
<1>2. nvm \in NvmStates
  BY DEF Init, FactoryNvm, NvmStates, NoConfig, Configs, NoKey, Keys, FrameTypes
<1>3. queue \in Seq(Events) /\ Len(queue) <= QueueCap
  BY QueueCapAssumption DEF Init
<1>4. NoKey \in Keys /\ "UID" \in FrameTypes
  BY DEF NoKey, Keys, FrameTypes
<1>5. writes \in 0 .. MaxWrites
  BY BoundsAssumption DEF Init
<1>6. /\ ftype \in [Slots -> FrameTypes] /\ frame \in [Slots -> FrameTypes]
      /\ flen \in [Slots -> Nat] /\ wrote \in [Slots -> Nat]
      /\ occupied \in [Slots -> BOOLEAN] /\ ik \in [Slots -> Keys]
      /\ overtaken \in [Slots -> BOOLEAN]
  BY <1>4 DEF Init
<1>7. connected \in BOOLEAN /\ failed \in BOOLEAN
  BY DEF Init
<1> QED
  BY <1>1, <1>2, <1>3, <1>5, <1>6, <1>7 DEF TypeOK

\* What frame_set does once it has read the length: the frame is built, a key
\* exchange begins, or the write is refused.
LEMMA CheckOutcome ==
    ASSUME TypeOK, FrameSetCheck
    PROVE  \/ /\ main' = Idle /\ main.type # "EID"
              /\ frame' = IF main.type = "OTHER" THEN frame
                          ELSE [frame EXCEPT ![main.slot] = main.type]
           \/ /\ main'.at = "occupy" /\ main'.slot = main.slot
              /\ main.type = "EID" /\ main'.type = main.type
              /\ main'.store = main.store
              /\ frame' = [frame EXCEPT ![main.slot] = "EID"]
           \/ /\ main'.at = "fail" /\ main'.slot = main.slot
              /\ main'.type = main.type /\ main'.store = main.store /\ frame' = frame
<1>1. main \in [at : Positions, slot : Slots, type : FrameTypes, key : Keys, store : Stores]
  BY DEF TypeOK, MainStates
<1> DEFINE key == [used |-> flen[main.slot], given |-> wrote[main.slot]]
<1>2. CASE ValidLength(main.type, flen[main.slot])
  <2>1. CASE main.type = "EID"
    <3>1. main' = [main EXCEPT !.at = "occupy", !.key = key]
      BY <1>2, <2>1 DEF FrameSetCheck
    <3>2. frame' = [frame EXCEPT ![main.slot] = "EID"]
      BY <1>2, <2>1 DEF FrameSetCheck
    <3> HIDE DEF key
    <3> QED BY <1>1, <2>1, <3>1, <3>2
  <2>2. CASE main.type # "EID"
    BY <1>2, <2>2 DEF FrameSetCheck
  <2> QED BY <2>1, <2>2
<1>3. CASE ~ValidLength(main.type, flen[main.slot])
  <2>1. main' = [main EXCEPT !.at = "fail"] /\ frame' = frame
    BY <1>3 DEF FrameSetCheck
  <2> QED BY <1>1, <2>1
<1> QED BY <1>2, <1>3

\* Every step keeps the state well typed.
LEMMA NextType == TypeOK /\ [Next]_vars => TypeOK'
<1> SUFFICES ASSUME TypeOK, [Next]_vars PROVE TypeOK' OBVIOUS
<1> USE SlotsFacts
<1>1. CASE RestoreSlot
  <2>1. main.slot \in Slots /\ main \in MainStates
    BY DEF TypeOK, MainStates
  <2>2. main' \in MainStates
    BY <1>1, <2>1, IdleType DEF RestoreSlot, NextBoot, Idle, MainStates, Positions,
       FrameTypes, NoKey, Keys, Stores
  <2>3. CASE RestoreDefault
    BY <1>1, <2>2, <2>3 DEF RestoreSlot, RestoreDefault, TypeOK, FrameTypes,
       DefaultUrlLength
  <2>4. CASE RestoreEmpty(main.slot)
    BY <1>1, <2>1, <2>2, <2>4 DEF RestoreSlot, RestoreEmpty, TypeOK, FrameTypes
  <2>5. CASE RestoreFrame(main.slot)
    <3>1. Restored(main.slot).type \in FrameTypes /\ Restored(main.slot).len \in Nat
      BY <2>1, RestoredType DEF Configs
    <3> QED
      BY <1>1, <2>1, <2>2, <2>5, <3>1, RwAdvDataSetType
         DEF RestoreSlot, RestoreFrame, TypeOK
  <2>6. CASE RestoreEid(main.slot)
    <3>1. Restored(main.slot).key \in Keys
      BY <2>1, RestoredType DEF Configs
    <3> QED
      BY <1>1, <2>1, <2>2, <2>6, <3>1
         DEF RestoreSlot, RestoreEid, TypeOK, FrameTypes
  <2> QED BY <1>1, <2>3, <2>4, <2>5, <2>6 DEF RestoreSlot
<1>2. CASE Reset
  <2>1. NoKey \in Keys /\ "UID" \in FrameTypes
    BY DEF NoKey, Keys, FrameTypes
  <2>2. /\ ftype' \in [Slots -> FrameTypes] /\ frame' \in [Slots -> FrameTypes]
        /\ flen' \in [Slots -> Nat] /\ wrote' \in [Slots -> Nat]
        /\ occupied' \in [Slots -> BOOLEAN] /\ ik' \in [Slots -> Keys]
        /\ overtaken' \in [Slots -> BOOLEAN]
    BY <1>2, <2>1 DEF Reset
  <2>3. main' \in MainStates
    BY <1>2, IdleType DEF Reset, Positions
  <2>4. queue' \in Seq(Events) /\ Len(queue') <= QueueCap
    BY <1>2, QueueCapAssumption DEF Reset
  <2>5. connected' \in BOOLEAN /\ failed' \in BOOLEAN
    BY <1>2 DEF Reset
  <2> QED BY <1>2, <2>2, <2>3, <2>4, <2>5 DEF Reset, TypeOK
<1>3. CASE Connect
  BY <1>3 DEF Connect, ram, TypeOK
<1>4. ASSUME NEW s \in Slots, NEW w \in Writes, ClientWrite(s, w) PROVE TypeOK'
  <2>1. w.type \in FrameTypes /\ w.len \in Nat
    BY WritesAssumption
  <2>2. \E t \in FrameTypes, n \in Nat : RwAdvDataSet(s, t, n)
    BY <1>4, <2>1, StackGarbageAssumption DEF ClientWrite
  <2>3. writes' \in 0 .. MaxWrites
    BY <1>4, BoundsAssumption DEF ClientWrite, TypeOK
  <2> QED
    BY <1>4, <2>2, <2>3, RwAdvDataSetType DEF ClientWrite, TypeOK
<1>5. CASE Disconnect
  <2>1. nvm' \in NvmStates
    BY <1>5, FlashImageType DEF Disconnect, NvmStates
  <2> QED BY <1>5, <2>1 DEF Disconnect, ram, TypeOK
<1>6. CASE TimerTick
  <2>1. TickEvent \in Events
    BY DEF TickEvent, Events
  <2> QED BY <1>6, <2>1, PutType DEF TimerTick, ram, TypeOK
<1>7. CASE FrameSetStart
  <2>1. Head(queue) \in Events /\ queue' \in Seq(Events) /\ Len(queue') <= QueueCap
    BY <1>7, QueueCapAssumption DEF FrameSetStart, TypeOK
  <2>2. main' \in MainStates
    BY <1>7, <2>1 DEF FrameSetStart, Events, Idle, MainStates, Positions, TypeOK,
       NoKey, Keys, Stores
  <2> QED BY <1>7, <2>1, <2>2 DEF FrameSetStart, Unchanging, ram, TypeOK
<1>8. CASE FrameSetCheck
  <2>1. main.slot \in Slots /\ main.type \in FrameTypes /\ main \in MainStates
    BY DEF TypeOK, MainStates
  <2>2. frame' \in [Slots -> FrameTypes]
    BY <1>8, <2>1 DEF FrameSetCheck, TypeOK
  <2>3. main' \in MainStates
    <3>1. [used |-> flen[main.slot], given |-> wrote[main.slot]] \in Keys
      BY <2>1 DEF TypeOK, Keys
    <3>2. Idle \in MainStates
      BY DEF Idle, MainStates, Positions, FrameTypes, NoKey, Keys, Stores
    <3> QED BY <1>8, <2>1, <3>1, <3>2 DEF FrameSetCheck, MainStates, Positions
  <2> QED BY <1>8, <2>2, <2>3 DEF FrameSetCheck, Unchanging, TypeOK
<1>9. CASE FrameSetFail
  BY <1>9 DEF FrameSetFail, Unchanging, TypeOK, Idle, MainStates, Positions,
     FrameTypes, NoKey, Keys, Stores
<1>10. CASE FrameSetOccupy
  BY <1>10 DEF FrameSetOccupy, Unchanging, TypeOK, MainStates, Positions
<1>11. CASE FrameSetDerive
  BY <1>11 DEF FrameSetDerive, Unchanging, TypeOK, MainStates, Positions
<1>12. CASE TickStart
  <2>1. queue' \in Seq(Events) /\ Len(queue') <= QueueCap
    BY <1>12, QueueCapAssumption DEF TickStart, TypeOK
  <2> QED
    BY <1>12, <2>1, IdleType DEF TickStart, Unchanging, ram, TypeOK, Positions
<1>13. NextScan \in MainStates
  <2>1. main \in MainStates /\ main.slot \in Slots
    BY DEF TypeOK, MainStates
  <2>2. [Idle EXCEPT !.at = "endtick"] \in MainStates
    BY IdleType DEF Positions
  <2>3. main.slot # NumSlots - 1
          => [main EXCEPT !.at = "scan", !.slot = main.slot + 1, !.store = "type"]
                \in MainStates
    BY <2>1 DEF MainStates, Positions, Stores
  <2> QED BY <2>2, <2>3 DEF NextScan
<1>14. CASE TickScan
  BY <1>13, <1>14 DEF TickScan, Unchanging, ram, TypeOK, MainStates, Positions
<1>15. CASE EidReady
  <2>1. main.slot \in Slots /\ main \in MainStates
    BY DEF TypeOK, MainStates
  <2>2. /\ ftype' \in [Slots -> FrameTypes] /\ frame' \in [Slots -> FrameTypes]
        /\ flen' \in [Slots -> Nat]
    <3>0. "EID" \in FrameTypes /\ ECS_EID_WRITE_ECDH_LENGTH \in Nat
      BY DEF FrameTypes, ECS_EID_WRITE_ECDH_LENGTH
    <3>1. CASE EidReadyType
      BY <2>1, <3>0, <3>1 DEF EidReadyType, TypeOK
    <3>2. CASE EidReadyFrame
      BY <2>1, <3>0, <3>2 DEF EidReadyFrame, TypeOK
    <3>3. CASE EidReadyLength
      BY <2>1, <3>0, <3>3 DEF EidReadyLength, TypeOK
    <3> QED BY <1>15, <3>1, <3>2, <3>3 DEF EidReady
  <2>3. main' \in MainStates
    <3>1. Idle \in MainStates
      BY DEF Idle, MainStates, Positions, FrameTypes, NoKey, Keys, Stores
    <3>2. \A x \in Stores : [main EXCEPT !.store = x] \in MainStates
      BY <2>1 DEF MainStates
    <3> QED
      BY <1>13, <1>15, <3>1, <3>2
         DEF EidReady, EidReadyType, EidReadyFrame, EidReadyLength, Stores
  <2>4. UNCHANGED <<wrote, occupied, ik, overtaken, queue>> /\ Unchanging
    BY <1>15 DEF EidReady, EidReadyType, EidReadyFrame, EidReadyLength
  <2> QED BY <2>2, <2>3, <2>4 DEF Unchanging, TypeOK
<1>16. CASE TickEnd
  <2>1. nvm' \in NvmStates
    <3>1. \A s \in Slots : FlashImage(s) \in Configs /\ nvm.config[s] \in Configs
      BY FlashImageType DEF TypeOK, NvmStates
    <3>2. nvm \in NvmStates
      BY DEF TypeOK
    <3> DEFINE config == [s \in Slots |-> IF occupied[s] THEN FlashImage(s)
                                         ELSE nvm.config[s]]
    <3>3. config \in [Slots -> Configs]
      BY <3>1
    <3>4. nvm' = nvm \/ nvm' = [nvm EXCEPT !.config = config]
      BY <1>16 DEF TickEnd
    <3> HIDE DEF config
    <3> QED BY <3>2, <3>3, <3>4 DEF NvmStates
  <2>2. main' \in MainStates
    BY <1>16 DEF TickEnd, Idle, MainStates, Positions, FrameTypes, NoKey, Keys, Stores
  <2> QED BY <1>16, <2>1, <2>2 DEF TickEnd, ram, TypeOK
<1>17. CASE UNCHANGED vars
  BY <1>17 DEF vars, TypeOK
<1> QED
  BY <1>1, <1>2, <1>3, <1>4, <1>5, <1>6, <1>7, <1>8, <1>9, <1>10, <1>11,
     <1>12, <1>14, <1>15, <1>16, <1>17
     DEF Next, Interrupt, MainLoop, PowerLoss, ErrorReset

\* The slots, the queue and flash always hold values of their types; in
\* particular the scheduler's queue never exceeds its size.
THEOREM TypeCorrect == Spec => []TypeOK
BY InitType, NextType, PTL DEF Spec

-----------------------------------------------------------------------------
(* Key material only in EID slots *)

\* While slots are being restored, those still to come hold no key.
BootClean ==
    main.at = "boot" => \A s \in Slots : s >= main.slot => ~occupied[s]

\* Every handler that ends in eid_ready begins with its first store.
StoreOK == main.at \notin {"ready", "rotate"} => main.store = "type"

KeysInv == TypeOK /\ KeysOnlyInEidSlots /\ BootClean /\ StoreOK

LEMMA KeysInit == Init => KeysInv
<1> SUFFICES ASSUME Init PROVE KeysOnlyInEidSlots /\ BootClean /\ StoreOK
  BY InitType DEF KeysInv
<1> QED BY DEF Init, Idle, KeysOnlyInEidSlots, BootClean, StoreOK

LEMMA OtherStores ==
    ASSUME TypeOK, StoreOK,
           \/ RestoreSlot \/ Reset \/ FrameSetStart \/ FrameSetCheck \/ FrameSetFail
           \/ FrameSetOccupy \/ FrameSetDerive \/ TickStart \/ TickScan \/ TickEnd
    PROVE  main'.store = "type"
<1>1. main \in MainStates
  BY DEF TypeOK
<1>2. NextScan.store = "type"
  BY <1>1 DEF NextScan, Idle, MainStates
<1>3. CASE FrameSetCheck
  BY <1>3, CheckOutcome DEF Idle, StoreOK, FrameSetCheck, Running
<1>4. CASE TickScan \/ FrameSetOccupy \/ FrameSetDerive \/ RestoreSlot
  BY <1>1, <1>2, <1>4 DEF TickScan, FrameSetOccupy, FrameSetDerive, RestoreSlot, NextBoot,
                          Running, Idle, StoreOK, MainStates
<1>5. CASE FrameSetStart
  BY <1>5 DEF FrameSetStart, Idle
<1>6. CASE FrameSetFail \/ TickEnd
  BY <1>6 DEF FrameSetFail, TickEnd, Idle
<1>7. CASE TickStart
  BY <1>7 DEF TickStart, Idle
<1>8. CASE Reset
  BY <1>8 DEF Reset, Idle
<1> QED BY <1>3, <1>4, <1>5, <1>6, <1>7, <1>8

LEMMA StoreNext == ASSUME TypeOK, StoreOK, [Next]_vars PROVE StoreOK'
<1>1. CASE EidReady
  <2>1. main.slot \in Slots  BY DEF TypeOK, MainStates
  <2>2. main'.at \in {"ready", "rotate"} \/ main'.store = "type"
    BY <1>1, <2>1, EidReadySteps DEF Idle
  <2> QED BY <2>2 DEF StoreOK
<1>2. CASE Interrupt \/ UNCHANGED vars
  BY <1>2 DEF Interrupt, Connect, ClientWrite, Disconnect, TimerTick, vars, StoreOK
<1>3. CASE main'.store = "type"
  BY <1>3 DEF StoreOK
<1> QED
  BY <1>1, <1>2, <1>3, OtherStores DEF Next, MainLoop, PowerLoss, ErrorReset

\* A write leaves the slot it writes an EID, or without a key.
LEMMA WriteKeys ==
    ASSUME TypeOK, NEW s \in Slots, NEW t \in FrameTypes, NEW n \in Nat,
           RwAdvDataSet(s, t, n)
    PROVE  /\ occupied'[s] => ftype'[s] = "EID" /\ occupied[s]
           /\ \A r \in Slots : r # s => /\ occupied'[r] = occupied[r]
                                        /\ ftype'[r] = ftype[r]
<1>1. ftype'[s] = t /\ \A r \in Slots : r # s => ftype'[r] = ftype[r]
  BY DEF RwAdvDataSet, TypeOK
<1>2. CASE t = "EID"
  BY <1>1, <1>2 DEF RwAdvDataSet
<1>3. CASE t # "EID"
  BY <1>1, <1>3 DEF RwAdvDataSet, TypeOK
<1> QED BY <1>2, <1>3

LEMMA KeysNext == KeysInv /\ [Next]_vars => KeysInv'
<1> SUFFICES ASSUME KeysInv, [Next]_vars
             PROVE  KeysOnlyInEidSlots' /\ BootClean'
  BY NextType, StoreNext DEF KeysInv
<1> USE SlotsFacts DEF KeysInv
<1>1. main.slot \in Slots
  BY DEF TypeOK, MainStates
<1>2. CASE RestoreSlot
  <2>0. /\ main.at = "boot" /\ main' = NextBoot
        /\ ~occupied[main.slot]
        /\ \A s \in Slots : ~(occupied[s] /\ ftype[s] # "EID")
    BY <1>1, <1>2 DEF RestoreSlot, KeysOnlyInEidSlots, BootClean, Slots
  <2>1. /\ \A s \in Slots : occupied'[s] => occupied[s] \/ s = main.slot
        /\ \A s \in Slots : ~(occupied'[s] /\ ftype'[s] # "EID")
    <3>1. CASE RestoreDefault
      BY <2>0, <3>1 DEF RestoreDefault, TypeOK
    <3>2. CASE RestoreEmpty(main.slot)
      BY <1>1, <2>0, <3>2 DEF RestoreEmpty, TypeOK
    <3>3. CASE RestoreFrame(main.slot)
      <4>1. Restored(main.slot).type \in FrameTypes /\ Restored(main.slot).len \in Nat
        BY <1>1, RestoredType DEF Configs
      <4> QED BY <1>1, <2>0, <3>3, <4>1, WriteKeys DEF RestoreFrame
    <3>4. CASE RestoreEid(main.slot)
      BY <1>1, <2>0, <3>4 DEF RestoreEid, TypeOK
    <3> QED BY <1>2, <3>1, <3>2, <3>3, <3>4 DEF RestoreSlot
  <2>2. KeysOnlyInEidSlots'
    BY <2>1 DEF KeysOnlyInEidSlots
  <2>3. main'.at = "boot" => main'.slot = main.slot + 1
    BY <2>0 DEF NextBoot, Idle, TypeOK, MainStates
  <2>4. BootClean'
    BY <1>1, <2>0, <2>1, <2>3 DEF BootClean, Slots
  <2> QED BY <2>2, <2>4
<1>3. CASE Reset
  BY <1>3 DEF Reset, KeysOnlyInEidSlots, BootClean
<1>4. ASSUME NEW s \in Slots, NEW w \in Writes, ClientWrite(s, w)
      PROVE  KeysOnlyInEidSlots' /\ BootClean'
  <2>1. PICK t \in FrameTypes, n \in Nat : RwAdvDataSet(s, t, n)
    BY <1>4, WritesAssumption, StackGarbageAssumption DEF ClientWrite
  <2>2. main' = main /\ main.at # "boot"
    BY <1>4 DEF ClientWrite, InterruptAllowed
  <2> QED BY <2>1, <2>2, WriteKeys DEF KeysOnlyInEidSlots, BootClean
<1>5. CASE FrameSetOccupy
  BY <1>1, <1>5 DEF FrameSetOccupy, Running, TypeOK, MainStates,
     KeysOnlyInEidSlots, BootClean
<1>6. CASE FrameSetDerive
  BY <1>1, <1>6 DEF FrameSetDerive, Running, TypeOK, MainStates,
     KeysOnlyInEidSlots, BootClean, StoreOK
<1>7. CASE EidReady
  <2>1. PICK m \in Slots : m = main.slot  BY <1>1
  <2>2. /\ main.at \in {"ready", "rotate"} /\ occupied' = occupied
        /\ main'.at # "boot"
        /\ \A s \in Slots : s # m => ftype'[s] = ftype[s]
        /\ ftype'[m] = ftype[m] \/ ftype'[m] = "EID"
        /\ main.store = "type" => ftype'[m] = "EID"
    BY <1>7, <2>1, EidReadySteps
  <2> QED BY <2>1, <2>2 DEF KeysOnlyInEidSlots, BootClean
\* The other steps leave keys and types alone, and main outside an exchange.
<1>8. CASE /\ UNCHANGED <<ftype, occupied>>
           /\ main' = main \/ (main.at \notin {"derive", "ready"}
                               /\ main'.at # "boot")
  BY <1>8 DEF KeysOnlyInEidSlots, BootClean
<1>9. CASE Connect \/ Disconnect \/ TimerTick
  BY <1>8, <1>9 DEF Connect, Disconnect, TimerTick, ram
<1>10. CASE FrameSetStart \/ TickStart
  BY <1>8, <1>10 DEF FrameSetStart, TickStart, Running, Idle, ram
<1>11. CASE FrameSetCheck
  <2>1. main'.at # "boot"
    BY <1>11, CheckOutcome DEF Idle
  <2> QED BY <1>8, <1>11, <2>1 DEF FrameSetCheck, Running
<1>12. CASE FrameSetFail
  BY <1>8, <1>12 DEF FrameSetFail, Running, Idle
<1>13. CASE TickScan
  <2>1. main'.at # "boot"
    BY <1>13 DEF TickScan, NextScan, Running, Idle, TypeOK, MainStates
  <2> QED BY <1>8, <1>13, <2>1 DEF TickScan, Running, ram
<1>14. CASE TickEnd
  BY <1>8, <1>14 DEF TickEnd, Running, Idle, ram
<1>15. CASE UNCHANGED vars
  BY <1>8, <1>15 DEF vars
<1> QED
  BY <1>2, <1>3, <1>4, <1>5, <1>6, <1>7, <1>9, <1>10, <1>11, <1>12,
     <1>13, <1>14, <1>15
     DEF Next, Interrupt, MainLoop, PowerLoss, ErrorReset

\* A slot that the client made something other than an EID keeps no identity
\* key, wherever the write hits a key exchange or a rotation.
THEOREM KeysAreConfined == Spec => []KeysOnlyInEidSlots
<1>1. KeysInv => KeysOnlyInEidSlots
  BY DEF KeysInv
<1> QED BY <1>1, KeysInit, KeysNext, PTL DEF Spec

-----------------------------------------------------------------------------
(* No forgotten frame *)

\* The type frame_set read is still the slot's, or a later write has queued
\* another frame_set, or has left the slot empty.
CheckedTypeCurrent ==
    main.at = "check" =>
        \/ main.type = ftype[main.slot]
        \/ ~IsConfigured(main.slot)
        \/ Queued(main.slot)
        \/ failed

\* The frame of a slot with a key, and of the slot of an exchange or a rotation,
\* is an EID: only a frame_set of another type changes that, and the write that
\* queued it has destroyed the key.
FramesOfKeys ==
    /\ \A s \in Slots : occupied[s] => frame[s] = "EID"
    /\ main.at = "check" /\ main.type # "EID" => ~occupied[main.slot]
    /\ main.at \in {"occupy", "derive", "ready", "rotate"} => frame[main.slot] = "EID"

\* Between the stores of eid_ready the slot is an EID, or has been written.
StoresCurrent ==
    \A s \in Slots :
        InsideEidReady(s) => ftype[s] = "EID" \/ overtaken[s] \/ Queued(s) \/ failed

FrameInv == /\ KeysInv /\ FramesOfKeys /\ StoresCurrent
            /\ NoForgottenFrame /\ CheckedTypeCurrent

LEMMA FrameInit == Init => FrameInv
<1> SUFFICES ASSUME Init PROVE /\ FramesOfKeys /\ StoresCurrent
                               /\ NoForgottenFrame /\ CheckedTypeCurrent
  BY KeysInit DEF FrameInv
<1>1. \A s \in Slots : ~IsConfigured(s) /\ ~occupied[s]
  BY DEF Init, IsConfigured, Configured
<1>2. main.at = "boot"
  BY DEF Init, Idle
<1> QED
  BY <1>1, <1>2 DEF NoForgottenFrame, CheckedTypeCurrent, FramesOfKeys, StoresCurrent,
                    InsideEidReady

\* A restored slot holds a key only if flash says it is an EID.
LEMMA RestoreFrames ==
    ASSUME KeysInv, FramesOfKeys, RestoreSlot
    PROVE  \A s \in Slots : occupied'[s] => frame'[s] = "EID"
<1>0. TypeOK /\ main.slot \in Slots /\ main.at = "boot"
  BY DEF KeysInv, TypeOK, MainStates, RestoreSlot
<1> PICK m \in Slots : m = main.slot  BY <1>0
<1>m. m >= m  BY SlotsFacts
<1>1. ~occupied[m] /\ \A s \in Slots : occupied[s] => frame[s] = "EID"
  BY <1>0, <1>m DEF KeysInv, BootClean, FramesOfKeys
<1>2. CASE RestoreDefault
  BY <1>0, <1>1, <1>2 DEF RestoreDefault, TypeOK
<1>3. CASE RestoreEmpty(m)
  BY <1>1, <1>3 DEF RestoreEmpty
<1>4. CASE RestoreFrame(m)
  <2>1. Restored(m).type \in FrameTypes /\ Restored(m).len \in Nat
    BY <1>0, RestoredType DEF Configs
  <2>2. RwAdvDataSet(m, Restored(m).type, Restored(m).len) /\ frame' = frame
    BY <1>4 DEF RestoreFrame
  <2> QED BY <1>0, <1>1, <2>1, <2>2, WriteKeys
<1>5. CASE RestoreEid(m)
  BY <1>0, <1>1, <1>5 DEF RestoreEid, TypeOK
<1> QED BY <1>2, <1>3, <1>4, <1>5 DEF RestoreSlot

LEMMA FramesOfKeysNext ==
    ASSUME KeysInv, FramesOfKeys, [Next]_vars PROVE FramesOfKeys'
<1>0. /\ TypeOK /\ KeysOnlyInEidSlots /\ main \in MainStates /\ main.slot \in Slots
      /\ \A s \in Slots : occupied[s] => frame[s] = "EID"
  BY DEF KeysInv, TypeOK, MainStates, FramesOfKeys
<1> PICK m \in Slots : m = main.slot  BY <1>0
<1>1. CASE RestoreSlot
  <2>1. main'.at \in {"boot", "idle"}
    BY <1>0, <1>1 DEF RestoreSlot, NextBoot, Idle, MainStates
  <2> QED BY <1>1, <2>1, RestoreFrames DEF FramesOfKeys
<1>2. CASE Reset
  BY <1>2 DEF Reset, Idle, FramesOfKeys
<1>3. ASSUME NEW s \in Slots, NEW w \in Writes, ClientWrite(s, w) PROVE FramesOfKeys'
  <2>1. PICK t \in FrameTypes, n \in Nat : RwAdvDataSet(s, t, n)
    BY <1>3, WritesAssumption, StackGarbageAssumption DEF ClientWrite
  <2>2. main' = main /\ frame' = frame
    BY <1>3 DEF ClientWrite
  <2>3. \A r \in Slots : occupied'[r] => occupied[r]
    BY <1>0, <2>1, WriteKeys
  <2> QED BY <1>0, <2>2, <2>3 DEF FramesOfKeys
<1>4. CASE FrameSetStart
  <2>1. Head(queue) \in Events /\ main.at = "idle"
    BY <1>0, <1>4 DEF FrameSetStart, Running, TypeOK
  <2>2. PICK h \in Slots : h = Head(queue).slot
    BY <2>1 DEF Events
  <2>3. /\ main'.at = "check" /\ main'.slot = h /\ main'.type = ftype[h]
        /\ UNCHANGED <<frame, occupied>>
    BY <1>4, <2>2 DEF FrameSetStart, Idle, ram
  <2>4. ftype[h] # "EID" => ~occupied[h]
    BY <1>0, <2>1 DEF KeysOnlyInEidSlots
  <2> QED BY <1>0, <2>3, <2>4 DEF FramesOfKeys
<1>5. CASE FrameSetCheck
  <2>1. main.at = "check" /\ occupied' = occupied
    BY <1>5 DEF FrameSetCheck, Running
  <2>2. main.type # "EID" => ~occupied[m]
    BY <2>1 DEF FramesOfKeys
  <2>3. /\ \A s \in Slots : s # m => frame'[s] = frame[s]
        /\ frame'[m] = frame[m] \/ frame'[m] = main.type
        /\ main'.at = "occupy" => main'.slot = m /\ frame'[m] = "EID"
        /\ main'.at \in {"idle", "occupy", "fail"}
    BY <1>0, <1>5, CheckOutcome DEF TypeOK, Idle
  <2> QED BY <1>0, <2>1, <2>2, <2>3 DEF FramesOfKeys
<1>6. CASE FrameSetOccupy \/ FrameSetDerive
  <2>1. /\ main'.at \in {"derive", "ready"} /\ main'.slot = m /\ frame[m] = "EID"
        /\ frame' = frame /\ \A s \in Slots : s # m => occupied'[s] = occupied[s]
    BY <1>0, <1>6 DEF FrameSetOccupy, FrameSetDerive, Running, FramesOfKeys, TypeOK,
                      MainStates
  <2> QED BY <1>0, <2>1 DEF FramesOfKeys
<1>7. CASE EidReady
  <2>1. /\ occupied' = occupied /\ frame[m] = "EID" /\ frame'[m] \in {"EID", frame[m]}
        /\ \A s \in Slots : s # m => frame'[s] = frame[s]
        /\ \/ main'.at \in {"ready", "rotate"} /\ main'.slot = m
           \/ main'.at \in {"idle", "scan", "endtick"}
    BY <1>0, <1>7, EidReadySteps DEF FramesOfKeys
  <2> QED BY <1>0, <2>1 DEF FramesOfKeys
<1>8. CASE TickScan
  <2>1. UNCHANGED <<frame, occupied>> /\ main.at = "scan"
    BY <1>8 DEF TickScan, ram, Running
  <2>2. \/ main'.at \in {"scan", "endtick"}
        \/ main'.at = "rotate" /\ main'.slot = m /\ occupied[m]
    BY <1>0, <1>8 DEF TickScan, NextScan, RotationDue, Idle, MainStates
  <2> QED BY <1>0, <2>1, <2>2 DEF FramesOfKeys
\* The other steps change no frame and begin no exchange.
<1>9. CASE /\ UNCHANGED <<frame, occupied>>
           /\ main' = main \/ main'.at \in {"idle", "scan"}
  BY <1>0, <1>9 DEF FramesOfKeys
<1>10. CASE FrameSetFail \/ TickStart \/ TickEnd
  BY <1>9, <1>10 DEF FrameSetFail, TickStart, TickEnd, Idle, ram
<1>11. CASE Connect \/ Disconnect \/ TimerTick \/ UNCHANGED vars
  BY <1>9, <1>11 DEF Connect, Disconnect, TimerTick, ram, vars
<1> QED
  BY <1>1, <1>2, <1>3, <1>4, <1>5, <1>6, <1>7, <1>8, <1>10, <1>11
     DEF Next, Interrupt, MainLoop, PowerLoss, ErrorReset

\* An event in the queue stays there when another is put ...
LEMMA PutKeepsQueued ==
    ASSUME TypeOK, NEW e \in Events, Put(e), NEW s \in Slots, Queued(s)
    PROVE  Queued(s)'
<1>1. PICK i \in 1 .. Len(queue) : queue[i] = SetEvent(s)
  BY DEF Queued
<1>2. queue \in Seq(Events)
  BY DEF TypeOK
<1>3. queue' = queue \/ queue' = Append(queue, e)
  BY DEF Put
<1>4. i \in 1 .. Len(queue') /\ queue'[i] = SetEvent(s)
  BY <1>1, <1>2, <1>3
<1> QED BY <1>4 DEF Queued, SetEvent

\* ... and the event put is there, unless that failed.
LEMMA PutQueues ==
    ASSUME TypeOK, NEW s \in Slots, Put(SetEvent(s))
    PROVE  Queued(s)' \/ failed'
<1>1. queue \in Seq(Events) /\ SetEvent(s) \in Events
  BY SetEventType DEF TypeOK
<1>2. CASE Len(queue) < QueueCap
  <2>1. queue' = Append(queue, SetEvent(s))
    BY <1>2 DEF Put
  <2>2. /\ Len(queue) + 1 \in 1 .. Len(queue')
        /\ queue'[Len(queue) + 1] = SetEvent(s)
    BY <1>1, <2>1
  <2> QED BY <2>2 DEF Queued, SetEvent
<1>3. CASE ~(Len(queue) < QueueCap)
  BY <1>3 DEF Put
<1> QED BY <1>2, <1>3

\* Popping the head loses no other event.
LEMMA PopKeepsQueued ==
    ASSUME TypeOK, queue # <<>>, queue' = Tail(queue),
           NEW s \in Slots, Queued(s), Head(queue) # SetEvent(s)
    PROVE  Queued(s)'
<1>1. PICK i \in 1 .. Len(queue) : queue[i] = SetEvent(s)
  BY DEF Queued
<1>2. queue \in Seq(Events) /\ Len(queue) \in Nat
  BY DEF TypeOK
<1>3. i # 1
  BY <1>1, <1>2
<1>4. i - 1 \in 1 .. Len(queue') /\ queue'[i - 1] = SetEvent(s)
  BY <1>1, <1>2, <1>3
<1> QED BY <1>4 DEF Queued, SetEvent

\* A write leaves the slot empty or queues a frame_set for it; it leaves the
\* other slots, and what is queued for them, alone.
LEMMA WriteQueues ==
    ASSUME TypeOK, NEW s \in Slots, NEW t \in FrameTypes, NEW n \in Nat,
           RwAdvDataSet(s, t, n)
    PROVE  /\ IsConfigured(s)' => Queued(s)' \/ failed'
           /\ \A r \in Slots : Queued(r) => Queued(r)'
           /\ \A r \in Slots : r # s => ftype'[r] = ftype[r] /\ flen'[r] = flen[r]
           /\ \A r \in Slots : r # s => overtaken'[r] = overtaken[r]
           /\ overtaken'[s] \/ IsConfigured(s)' \/ ~InsideEidReady(s)
           /\ failed => failed'
<1>1. /\ ftype'[s] = t /\ flen'[s] = n
      /\ \A r \in Slots : r # s => ftype'[r] = ftype[r] /\ flen'[r] = flen[r]
  BY DEF RwAdvDataSet, TypeOK
<1>o. /\ \A r \in Slots : r # s => overtaken'[r] = overtaken[r]
      /\ overtaken'[s] \/ IsConfigured(s)' \/ ~InsideEidReady(s)
  <2>1. overtaken' = [overtaken EXCEPT ![s] = ~Configured(t, n) /\ InsideEidReady(s)]
    BY DEF RwAdvDataSet, Overtakes
  <2>2. overtaken \in [Slots -> BOOLEAN]  BY DEF TypeOK
  <2>3. overtaken'[s] = (~Configured(t, n) /\ InsideEidReady(s))
    BY <2>1, <2>2, Zenon
  <2>4. \A r \in Slots : r # s => overtaken'[r] = overtaken[r]
    BY <2>1, <2>2, Zenon
  <2>5. IsConfigured(s)' <=> Configured(t, n)
    BY <1>1 DEF IsConfigured
  <2> QED BY <2>3, <2>4, <2>5
<1>2. CASE Configured(t, n)
  <2>1. Put(SetEvent(s))
    BY <1>2 DEF RwAdvDataSet
  <2>2. \A r \in Slots : Queued(r) => Queued(r)'
    BY <2>1, SetEventType, PutKeepsQueued
  <2>3. failed => failed'
    BY <2>1 DEF Put
  <2> QED BY <1>1, <1>o, <2>1, <2>2, <2>3, PutQueues
<1>3. CASE ~Configured(t, n)
  <2>1. UNCHANGED <<queue, failed>>
    BY <1>3 DEF RwAdvDataSet
  <2>2. ~IsConfigured(s)'
    BY <1>1, <1>3 DEF IsConfigured
  <2> QED BY <1>1, <1>o, <2>1, <2>2 DEF Queued
<1> QED BY <1>2, <1>3

\* What NoForgottenFrame says of one slot.
Settled(s) ==
    \/ ~IsConfigured(s) \/ ftype[s] = "OTHER" \/ frame[s] = ftype[s]
    \/ SetPending(s) \/ overtaken[s] \/ failed

LEMMA SettledSlots == NoForgottenFrame <=> \A s \in Slots : Settled(s)
BY DEF NoForgottenFrame, Settled

\* Slot s and what main owes it are as they were.
Kept(s) ==
    /\ ftype'[s] = ftype[s] /\ flen'[s] = flen[s] /\ frame'[s] = frame[s]
    /\ overtaken'[s] = overtaken[s]
    /\ Queued(s) => Queued(s)'
    /\ InFrameSet(s) => InFrameSet(s)'
    /\ failed => failed'

LEMMA KeptSettled ==
    ASSUME NEW s \in Slots, Settled(s), Kept(s)
    PROVE  Settled(s)'
BY DEF Settled, Kept, SetPending, IsConfigured

\* What main checks is current if it was and nothing but a write came between.
LEMMA KeptChecked ==
    ASSUME CheckedTypeCurrent, main' = main, Kept(main.slot), main.slot \in Slots
    PROVE  CheckedTypeCurrent'
<1> PICK m \in Slots : m = main.slot OBVIOUS
<1>1. Kept(m) /\ main'.slot = m
  OBVIOUS
<1>2. CASE main.at = "check"
  BY <1>1, <1>2 DEF CheckedTypeCurrent, Kept, IsConfigured
<1>3. CASE main.at # "check"
  BY <1>3 DEF CheckedTypeCurrent
<1> QED BY <1>2, <1>3

LEMMA StoresCurrentNext ==
    ASSUME KeysInv, StoresCurrent, [Next]_vars PROVE StoresCurrent'
<1>0. TypeOK /\ StoreOK /\ main.slot \in Slots
  BY DEF KeysInv, TypeOK, MainStates
<1> PICK m \in Slots : m = main.slot  BY <1>0
<1>1. CASE EidReady
  <2>1. /\ overtaken' = overtaken /\ queue' = queue /\ ~failed
        /\ \/ main.store = "type" /\ ftype'[m] = "EID" /\ main'.slot = m
           \/ /\ main.store = "frame" /\ main.at \in {"ready", "rotate"}
              /\ ftype' = ftype /\ main'.slot = m
           \/ main'.store = "type"
    BY <1>0, <1>1, EidReadySteps
  <2> QED BY <2>1 DEF StoresCurrent, InsideEidReady, Queued
<1>2. ASSUME NEW s \in Slots, NEW w \in Writes, ClientWrite(s, w) PROVE StoresCurrent'
  <2>1. PICK t \in FrameTypes, n \in Nat : RwAdvDataSet(s, t, n)
    BY <1>2, WritesAssumption, StackGarbageAssumption DEF ClientWrite
  <2>2. main' = main
    BY <1>2 DEF ClientWrite
  <2>3. /\ IsConfigured(s)' => Queued(s)' \/ failed'
        /\ \A r \in Slots : Queued(r) => Queued(r)'
        /\ \A r \in Slots : r # s => ftype'[r] = ftype[r] /\ overtaken'[r] = overtaken[r]
        /\ overtaken'[s] \/ IsConfigured(s)' \/ ~InsideEidReady(s)
        /\ failed => failed'
    BY <1>0, <2>1, WriteQueues
  <2>4. \A r \in Slots : InsideEidReady(r)' <=> InsideEidReady(r)
    BY <2>2 DEF InsideEidReady
  <2> QED BY <2>3, <2>4 DEF StoresCurrent
<1>3. CASE TimerTick
  <2>1. TickEvent \in Events
    BY SlotsFacts DEF TickEvent, Events
  <2>2. \A s \in Slots : Queued(s) => Queued(s)'
    BY <1>0, <1>3, <2>1, PutKeepsQueued DEF TimerTick
  <2>3. UNCHANGED <<ftype, overtaken, main>> /\ ~failed
    BY <1>3 DEF TimerTick, ram, InterruptAllowed
  <2> QED BY <2>2, <2>3 DEF StoresCurrent, InsideEidReady
<1>4. CASE Connect \/ Disconnect \/ UNCHANGED vars
  BY <1>4 DEF Connect, Disconnect, ram, vars, StoresCurrent, InsideEidReady, Queued
<1>5. CASE main'.store = "type"
  BY <1>5 DEF StoresCurrent, InsideEidReady
<1> QED
  BY <1>0, <1>1, <1>2, <1>3, <1>4, <1>5, OtherStores
     DEF Next, Interrupt, MainLoop, PowerLoss, ErrorReset

LEMMA SettledNext ==
    ASSUME FrameInv, [Next]_vars
    PROVE  (\A s \in Slots : Settled(s)') /\ CheckedTypeCurrent'
<1>0. /\ TypeOK /\ CheckedTypeCurrent /\ \A s \in Slots : Settled(s)
      /\ main.slot \in Slots /\ main.type \in FrameTypes /\ queue \in Seq(Events)
      /\ FramesOfKeys /\ StoresCurrent
  BY SettledSlots DEF FrameInv, KeysInv, TypeOK, MainStates
<1> PICK m \in Slots : m = main.slot
  BY <1>0
<1>1. ASSUME \A s \in Slots : Kept(s), main' = main \/ main'.at # "check"
      PROVE  (\A s \in Slots : Settled(s)') /\ CheckedTypeCurrent'
  <2>1. \A s \in Slots : Settled(s)'
    BY <1>0, <1>1, KeptSettled
  <2>2. CASE main' = main
    BY <1>0, <1>1, <2>1, <2>2, KeptChecked
  <2>3. CASE main'.at # "check"
    BY <2>1, <2>3 DEF CheckedTypeCurrent
  <2> QED BY <1>1, <2>2, <2>3
<1>2. CASE RestoreSlot
  <2>1. main.at = "boot" /\ main'.at # "check"
    BY <1>2 DEF RestoreSlot, NextBoot, Idle, TypeOK, MainStates
  <2>2. /\ \A r \in Slots : Queued(r) => Queued(r)'
        /\ \A r \in Slots : r # m =>
              /\ ftype'[r] = ftype[r] /\ flen'[r] = flen[r] /\ frame'[r] = frame[r]
              /\ overtaken'[r] = overtaken[r]
        /\ failed => failed'
        /\ \/ ~IsConfigured(m)' \/ Queued(m)' \/ failed'
           \/ frame'[m] = ftype'[m]
    <3>1. CASE RestoreDefault
      BY <1>0, <3>1 DEF RestoreDefault, TypeOK, Queued
    <3>2. CASE RestoreEmpty(m)
      <4>1. /\ flen'[m] = 0
            /\ \A r \in Slots : r # m =>
                 ftype'[r] = ftype[r] /\ flen'[r] = flen[r] /\ frame'[r] = frame[r]
        BY <1>0, <3>2 DEF RestoreEmpty, TypeOK
      <4>2. UNCHANGED <<queue, failed, overtaken>>
        BY <3>2 DEF RestoreEmpty
      <4> QED BY <4>1, <4>2 DEF Queued, IsConfigured, Configured
    <3>3. CASE RestoreFrame(m)
      <4>1. Restored(m).type \in FrameTypes /\ Restored(m).len \in Nat
        BY <1>0, RestoredType DEF Configs
      <4>2. RwAdvDataSet(m, Restored(m).type, Restored(m).len) /\ frame' = frame
        BY <3>3 DEF RestoreFrame
      <4> QED BY <1>0, <4>1, <4>2, WriteQueues
    <3>4. CASE RestoreEid(m)
      BY <1>0, <3>4 DEF RestoreEid, TypeOK, Queued
    <3> QED BY <1>2, <3>1, <3>2, <3>3, <3>4 DEF RestoreSlot
  <2>3. ASSUME NEW s \in Slots PROVE Settled(s)'
    <3>1. CASE s = m
      BY <2>2, <3>1 DEF Settled, SetPending
    <3>2. CASE s # m
      BY <1>0, <2>1, <2>2, <3>2, KeptSettled DEF Kept, InFrameSet
    <3> QED BY <3>1, <3>2
  <2> QED BY <2>1, <2>3 DEF CheckedTypeCurrent
<1>3. CASE Reset
  <2>1. \A s \in Slots : ~IsConfigured(s)'
    BY <1>3 DEF Reset, IsConfigured, Configured
  <2>2. main'.at = "boot"
    BY <1>3 DEF Reset, Idle
  <2> QED BY <2>1, <2>2 DEF Settled, CheckedTypeCurrent
<1>4. ASSUME NEW s \in Slots, NEW w \in Writes, ClientWrite(s, w)
      PROVE  (\A r \in Slots : Settled(r)') /\ CheckedTypeCurrent'
  <2>1. PICK t \in FrameTypes, n \in Nat : RwAdvDataSet(s, t, n)
    BY <1>4, WritesAssumption, StackGarbageAssumption DEF ClientWrite
  <2>2. main' = main /\ frame' = frame
    BY <1>4 DEF ClientWrite
  <2>3. /\ IsConfigured(s)' => Queued(s)' \/ failed'
        /\ \A r \in Slots : Queued(r) => Queued(r)'
        /\ \A r \in Slots : r # s => /\ ftype'[r] = ftype[r] /\ flen'[r] = flen[r]
                                     /\ overtaken'[r] = overtaken[r]
        /\ failed => failed'
    BY <1>0, <2>1, WriteQueues
  <2>4. \A r \in Slots : r # s => Kept(r)
    BY <2>2, <2>3 DEF Kept, InFrameSet
  <2>5. ASSUME NEW r \in Slots PROVE Settled(r)'
    <3>1. CASE r = s
      BY <2>3, <3>1 DEF Settled, SetPending
    <3>2. CASE r # s
      BY <1>0, <2>4, <3>2, KeptSettled
    <3> QED BY <3>1, <3>2
  <2>6. CheckedTypeCurrent'
    <3>1. CASE m = s
      <4>1. main'.slot = s
        BY <2>2, <3>1
      <4> QED BY <2>3, <4>1 DEF CheckedTypeCurrent
    <3>2. CASE m # s
      BY <1>0, <2>2, <2>4, <3>2, KeptChecked
    <3> QED BY <3>1, <3>2
  <2> QED BY <2>5, <2>6
<1>5. CASE TimerTick
  <2>1. TickEvent \in Events
    BY SlotsFacts DEF TickEvent, Events
  <2>2. \A s \in Slots : Queued(s) => Queued(s)'
    BY <1>0, <1>5, <2>1, PutKeepsQueued DEF TimerTick
  <2>3. UNCHANGED <<ftype, flen, frame, overtaken, main>> /\ ~failed
    BY <1>5 DEF TimerTick, ram, InterruptAllowed
  <2> QED BY <1>1, <2>2, <2>3 DEF Kept, InFrameSet
<1>6. CASE Connect \/ Disconnect
  BY <1>1, <1>6 DEF Connect, Disconnect, ram, Kept, Queued, InFrameSet
<1>7. CASE FrameSetStart
  <2>1. Head(queue) \in Events /\ queue # <<>> /\ queue' = Tail(queue)
    BY <1>0, <1>7 DEF FrameSetStart
  <2>2. PICK h \in Slots : Head(queue) = SetEvent(h)
    BY <1>7, <2>1 DEF FrameSetStart, SetEvent, Events
  <2>3. main'.at = "check" /\ main'.slot = h /\ main'.type = ftype[h]
    BY <1>7, <2>2 DEF FrameSetStart, Idle, SetEvent
  <2>4. \A s \in Slots : s # h => SetEvent(s) # SetEvent(h)
    BY DEF SetEvent
  <2>5. \A s \in Slots : s # h => (Queued(s) => Queued(s)')
    BY <1>0, <2>1, <2>2, <2>4, PopKeepsQueued
  <2>6. main.at = "idle" /\ UNCHANGED <<ftype, flen, frame, overtaken, failed>>
    BY <1>7 DEF FrameSetStart, Running, Unchanging, ram
  <2>7. ASSUME NEW s \in Slots PROVE Settled(s)'
    <3>1. CASE s = h
      BY <2>3, <3>1 DEF Settled, SetPending, InFrameSet
    <3>2. CASE s # h
      BY <1>0, <2>5, <2>6, <3>2, KeptSettled DEF Kept, InFrameSet
    <3> QED BY <3>1, <3>2
  <2>8. CheckedTypeCurrent'
    BY <2>3, <2>6 DEF CheckedTypeCurrent
  <2> QED BY <2>7, <2>8
<1>8. CASE FrameSetCheck
  <2>1. main.at = "check" /\ UNCHANGED <<ftype, flen, overtaken, queue, failed>>
    BY <1>8 DEF FrameSetCheck, Running, Unchanging
  <2>2. \A s \in Slots : s # m => frame'[s] = frame[s]
    BY <1>0, <1>8, CheckOutcome DEF TypeOK
  <2>3. main'.at # "check"
    BY <1>0, <1>8, CheckOutcome DEF Idle
  <2>4. \/ main'.at \in {"occupy", "fail"} /\ main'.slot = m
        \/ main.type = "OTHER" /\ frame' = frame
        \/ frame'[m] = main.type
    BY <1>0, <1>8, CheckOutcome DEF TypeOK
  <2>5. ASSUME NEW s \in Slots PROVE Settled(s)'
    <3>1. CASE s = m
      BY <1>0, <2>1, <2>4, <3>1 DEF Settled, SetPending, InFrameSet, CheckedTypeCurrent,
         IsConfigured, Queued
    <3>2. CASE s # m
      BY <1>0, <2>1, <2>2, <3>2, KeptSettled DEF Kept, InFrameSet, Queued
    <3> QED BY <3>1, <3>2
  <2> QED BY <2>3, <2>5 DEF CheckedTypeCurrent
<1>9. CASE FrameSetFail
  <2>1. flen'[m] = 0 /\ main'.at = "idle"
    BY <1>0, <1>9 DEF FrameSetFail, TypeOK, Idle
  <2>2. \A s \in Slots : s # m => flen'[s] = flen[s]
    BY <1>0, <1>9 DEF FrameSetFail, TypeOK
  <2>3. UNCHANGED <<ftype, frame, overtaken, queue, failed>>
    BY <1>9 DEF FrameSetFail, Unchanging
  <2>4. ASSUME NEW s \in Slots PROVE Settled(s)'
    <3>1. CASE s = m
      BY <2>1, <3>1 DEF Settled, IsConfigured, Configured
    <3>2. CASE s # m
      BY <1>0, <2>2, <2>3, <3>2, KeptSettled DEF Kept, InFrameSet, Queued
    <3> QED BY <3>1, <3>2
  <2> QED BY <2>1, <2>4 DEF CheckedTypeCurrent
<1>10. CASE FrameSetOccupy \/ FrameSetDerive
  <2>1. /\ main'.at \in {"derive", "ready"} /\ main'.slot = main.slot
        /\ main.at \in {"occupy", "derive"}
    BY <1>0, <1>10 DEF FrameSetOccupy, FrameSetDerive, Running, TypeOK, MainStates
  <2>2. UNCHANGED <<ftype, flen, frame, overtaken, queue, failed>>
    BY <1>10 DEF FrameSetOccupy, FrameSetDerive, Unchanging
  <2> QED BY <1>1, <2>1, <2>2 DEF Kept, InFrameSet, Queued
<1>11. CASE EidReady
  <2>1. /\ UNCHANGED <<overtaken, queue, failed>> /\ ~failed
        /\ main.at \in {"ready", "rotate"}
        /\ \A s \in Slots : s # m =>
              ftype'[s] = ftype[s] /\ frame'[s] = frame[s] /\ flen'[s] = flen[s]
        /\ main'.at \in {"ready", "rotate", "idle", "scan", "endtick"}
    BY <1>0, <1>11, EidReadySteps DEF Unchanging, Idle
  <2>2. frame[m] = "EID" /\ frame'[m] = "EID"
    BY <1>0, <1>11, <2>1, EidReadySteps DEF FramesOfKeys
  <2>3. ftype'[m] = "EID" \/ overtaken[m] \/ Queued(m)
    BY <1>0, <1>11, <2>1, EidReadySteps DEF StoresCurrent, InsideEidReady
  <2>4. ASSUME NEW s \in Slots PROVE Settled(s)'
    <3>1. CASE s = m
      BY <2>1, <2>2, <2>3, <3>1 DEF Settled, SetPending, Queued
    <3>2. CASE s # m
      BY <1>0, <2>1, <3>2, KeptSettled DEF Kept, InFrameSet, Queued
    <3> QED BY <3>1, <3>2
  <2> QED BY <2>1, <2>4 DEF CheckedTypeCurrent
<1>12. CASE TickStart
  <2>1. queue # <<>> /\ queue' = Tail(queue) /\ Head(queue).kind = "tick"
    BY <1>12 DEF TickStart
  <2>2. \A s \in Slots : Head(queue) # SetEvent(s)
    BY <2>1 DEF SetEvent
  <2>3. \A s \in Slots : Queued(s) => Queued(s)'
    BY <1>0, <2>1, <2>2, PopKeepsQueued
  <2>4. /\ UNCHANGED <<ftype, flen, frame, overtaken, failed>>
        /\ main.at = "idle" /\ main'.at = "scan"
    BY <1>12 DEF TickStart, Running, Unchanging, Idle, ram
  <2> QED BY <1>1, <2>3, <2>4 DEF Kept, InFrameSet
<1>13. CASE TickScan
  <2>1. main'.at # "check" /\ main.at = "scan"
    BY <1>0, <1>13 DEF TickScan, NextScan, Running, Idle, TypeOK, MainStates
  <2> QED
    BY <1>1, <1>13, <2>1 DEF TickScan, Unchanging, ram, Kept, InFrameSet, Queued
<1>14. CASE TickEnd
  BY <1>1, <1>14 DEF TickEnd, Running, Idle, ram, Kept, InFrameSet, Queued
<1>15. CASE UNCHANGED vars
  BY <1>1, <1>15 DEF vars, Kept, InFrameSet, Queued
<1> QED
  BY <1>2, <1>3, <1>4, <1>5, <1>6, <1>7, <1>8, <1>9, <1>10, <1>11, <1>12,
     <1>13, <1>14, <1>15
     DEF Next, Interrupt, MainLoop, PowerLoss, ErrorReset

LEMMA FrameNext == FrameInv /\ [Next]_vars => FrameInv'
<1> SUFFICES ASSUME FrameInv, [Next]_vars PROVE FrameInv'
  OBVIOUS
<1>1. KeysInv' /\ FramesOfKeys' /\ StoresCurrent'
  BY KeysNext, FramesOfKeysNext, StoresCurrentNext DEF FrameInv
<1>2. (\A s \in Slots : Settled(s)') /\ CheckedTypeCurrent'
  BY SettledNext
<1>3. NoForgottenFrame'
  BY <1>2 DEF NoForgottenFrame, Settled
<1> QED BY <1>1, <1>2, <1>3 DEF FrameInv

\* Whatever the order of writes, frame_sets and rotations, and wherever a write
\* falls among the stores of eid_ready, a configured slot has the frame of its
\* type, or a frame_set that will build it: unless the client's last write
\* emptied the slot between two of those stores.
THEOREM FramesAreNotForgotten == Spec => []NoForgottenFrame
<1>1. FrameInv => NoForgottenFrame
  BY DEF FrameInv
<1> QED BY <1>1, FrameInit, FrameNext, PTL DEF Spec

-----------------------------------------------------------------------------
(* Configured EID slots are live, when nothing preempts the main loop *)

Live(s) ==
    \/ ~IsConfigured(s) \/ ftype[s] # "EID" \/ occupied[s]
    \/ SetPending(s) \/ failed

\* The exchange or rotation main is in belongs to an occupied slot, and the
\* type it checks is the slot's: true only because no write can come between.
MainIsCurrent ==
    /\ main.at \in {"derive", "ready", "rotate"} => occupied[main.slot]
    /\ main.at = "check" => main.type = ftype[main.slot]

LiveInv == TypeOK /\ (\A s \in Slots : Live(s)) /\ MainIsCurrent

LEMMA LiveInit == Init => LiveInv
<1> SUFFICES ASSUME Init PROVE (\A s \in Slots : Live(s)) /\ MainIsCurrent
  BY InitType DEF LiveInv
<1>1. \A s \in Slots : ~IsConfigured(s)
  BY DEF Init, IsConfigured, Configured
<1>2. main.at = "boot"
  BY DEF Init, Idle
<1> QED BY <1>1, <1>2 DEF Live, MainIsCurrent

\* Slot s, what occupies it and what main owes it are as they were.
KeptLive(s) ==
    /\ ftype'[s] = ftype[s] /\ flen'[s] = flen[s] /\ occupied'[s] = occupied[s]
    /\ Queued(s) => Queued(s)'
    /\ InFrameSet(s) => InFrameSet(s)'
    /\ failed => failed'

LEMMA KeptStaysLive ==
    ASSUME NEW s \in Slots, Live(s), KeptLive(s)
    PROVE  Live(s)'
BY DEF Live, KeptLive, SetPending, IsConfigured

LEMMA LiveNext ==
    ASSUME ~Preempt, LiveInv, [Next]_vars
    PROVE  (\A s \in Slots : Live(s)') /\ MainIsCurrent'
<1>0. /\ TypeOK /\ MainIsCurrent /\ \A s \in Slots : Live(s)
      /\ main.slot \in Slots /\ main.type \in FrameTypes /\ queue \in Seq(Events)
  BY DEF LiveInv, TypeOK, MainStates
<1> PICK m \in Slots : m = main.slot
  BY <1>0
\* Between handlers, MainIsCurrent asks for nothing.
<1>1. ASSUME \A s \in Slots : KeptLive(s), main'.at \in {"idle", "scan", "endtick"}
      PROVE  (\A s \in Slots : Live(s)') /\ MainIsCurrent'
  BY <1>0, <1>1, KeptStaysLive DEF MainIsCurrent
<1>2. CASE RestoreSlot
  <2>1. main.at = "boot" /\ main'.at \in {"boot", "idle"}
    BY <1>2 DEF RestoreSlot, NextBoot, Idle, TypeOK, MainStates
  <2>2. /\ \A r \in Slots : Queued(r) => Queued(r)'
        /\ \A r \in Slots : r # m =>
              ftype'[r] = ftype[r] /\ flen'[r] = flen[r] /\ occupied'[r] = occupied[r]
        /\ failed => failed'
        /\ ~IsConfigured(m)' \/ ftype'[m] # "EID" \/ occupied'[m]
    <3>1. CASE RestoreDefault
      BY <1>0, <3>1 DEF RestoreDefault, TypeOK, Queued
    <3>2. CASE RestoreEmpty(m)
      <4>1. /\ flen'[m] = 0
            /\ \A r \in Slots : r # m => ftype'[r] = ftype[r] /\ flen'[r] = flen[r]
        BY <1>0, <3>2 DEF RestoreEmpty, TypeOK
      <4>2. UNCHANGED <<queue, failed, occupied>>
        BY <3>2 DEF RestoreEmpty
      <4> QED BY <4>1, <4>2 DEF Queued, IsConfigured, Configured
    <3>3. CASE RestoreFrame(m)
      <4>1. /\ Restored(m).type \in FrameTypes /\ Restored(m).len \in Nat
            /\ Restored(m).type # "EID"
        BY <1>0, <3>3, RestoredType DEF Configs, RestoreFrame
      <4>2. RwAdvDataSet(m, Restored(m).type, Restored(m).len)
        BY <3>3 DEF RestoreFrame
      <4>3. ftype'[m] # "EID" /\ \A r \in Slots : r # m => occupied'[r] = occupied[r]
        BY <1>0, <4>1, <4>2 DEF RwAdvDataSet, TypeOK
      <4> QED BY <1>0, <4>1, <4>2, <4>3, WriteQueues
    <3>4. CASE RestoreEid(m)
      BY <1>0, <3>4 DEF RestoreEid, TypeOK, Queued
    <3> QED BY <1>2, <3>1, <3>2, <3>3, <3>4 DEF RestoreSlot
  <2>3. ASSUME NEW s \in Slots PROVE Live(s)'
    <3>1. CASE s = m
      BY <2>2, <3>1 DEF Live
    <3>2. CASE s # m
      BY <1>0, <2>1, <2>2, <3>2, KeptStaysLive DEF KeptLive, InFrameSet
    <3> QED BY <3>1, <3>2
  <2> QED BY <2>1, <2>3 DEF MainIsCurrent
<1>3. CASE Reset
  <2>1. \A s \in Slots : ~IsConfigured(s)'
    BY <1>3 DEF Reset, IsConfigured, Configured
  <2>2. main'.at = "boot"
    BY <1>3 DEF Reset, Idle
  <2> QED BY <2>1, <2>2 DEF Live, MainIsCurrent
<1>4. ASSUME NEW s \in Slots, NEW w \in Writes, ClientWrite(s, w)
      PROVE  (\A r \in Slots : Live(r)') /\ MainIsCurrent'
  <2>1. PICK t \in FrameTypes, n \in Nat : RwAdvDataSet(s, t, n)
    BY <1>4, WritesAssumption, StackGarbageAssumption DEF ClientWrite
  <2>2. main' = main /\ main.at = "idle"
    BY <1>4 DEF ClientWrite, InterruptAllowed
  <2>3. /\ IsConfigured(s)' => Queued(s)' \/ failed'
        /\ \A r \in Slots : Queued(r) => Queued(r)'
        /\ \A r \in Slots : r # s => ftype'[r] = ftype[r] /\ flen'[r] = flen[r]
        /\ failed => failed'
    BY <1>0, <2>1, WriteQueues
  <2>4. \A r \in Slots : r # s => occupied'[r] = occupied[r]
    BY <1>0, <2>1 DEF RwAdvDataSet, TypeOK
  <2>5. ASSUME NEW r \in Slots PROVE Live(r)'
    <3>1. CASE r = s
      BY <2>3, <3>1 DEF Live, SetPending
    <3>2. CASE r # s
      BY <1>0, <2>2, <2>3, <2>4, <3>2, KeptStaysLive DEF KeptLive, InFrameSet
    <3> QED BY <3>1, <3>2
  <2> QED BY <2>2, <2>5 DEF MainIsCurrent
<1>5. CASE TimerTick
  <2>1. TickEvent \in Events
    BY SlotsFacts DEF TickEvent, Events
  <2>2. \A s \in Slots : Queued(s) => Queued(s)'
    BY <1>0, <1>5, <2>1, PutKeepsQueued DEF TimerTick
  <2>3. UNCHANGED <<ftype, flen, occupied, main>> /\ main.at = "idle" /\ ~failed
    BY <1>5 DEF TimerTick, ram, InterruptAllowed
  <2> QED BY <1>1, <2>2, <2>3 DEF KeptLive, InFrameSet
<1>6. CASE Connect \/ Disconnect
  BY <1>1, <1>6 DEF Connect, Disconnect, InterruptAllowed, ram, KeptLive, Queued, InFrameSet
<1>7. CASE FrameSetStart
  <2>1. Head(queue) \in Events /\ queue # <<>> /\ queue' = Tail(queue)
    BY <1>0, <1>7 DEF FrameSetStart
  <2>2. PICK h \in Slots : Head(queue) = SetEvent(h)
    BY <1>7, <2>1 DEF FrameSetStart, SetEvent, Events
  <2>3. main'.at = "check" /\ main'.slot = h /\ main'.type = ftype[h]
    BY <1>7, <2>2 DEF FrameSetStart, Idle, SetEvent
  <2>4. \A s \in Slots : s # h => SetEvent(s) # SetEvent(h)
    BY DEF SetEvent
  <2>5. \A s \in Slots : s # h => (Queued(s) => Queued(s)')
    BY <1>0, <2>1, <2>2, <2>4, PopKeepsQueued
  <2>6. main.at = "idle" /\ UNCHANGED <<ftype, flen, occupied, failed>>
    BY <1>7 DEF FrameSetStart, Running, Unchanging, ram
  <2>7. ASSUME NEW s \in Slots PROVE Live(s)'
    <3>1. CASE s = h
      BY <2>3, <3>1 DEF Live, SetPending, InFrameSet
    <3>2. CASE s # h
      BY <1>0, <2>5, <2>6, <3>2, KeptStaysLive DEF KeptLive, InFrameSet
    <3> QED BY <3>1, <3>2
  <2> QED BY <2>3, <2>6, <2>7 DEF MainIsCurrent
<1>8. CASE FrameSetCheck
  <2>1. main.at = "check" /\ UNCHANGED <<ftype, flen, occupied, queue, failed>>
    BY <1>8 DEF FrameSetCheck, Running, Unchanging
  <2>2. main'.at \in {"occupy", "fail", "idle"}
    BY <1>0, <1>8, CheckOutcome DEF Idle
  <2>3. (main'.at \in {"occupy", "fail"} /\ main'.slot = m) \/ main.type # "EID"
    BY <1>0, <1>8 DEF FrameSetCheck, TypeOK, MainStates
  <2>4. ASSUME NEW s \in Slots PROVE Live(s)'
    <3>1. CASE s = m
      BY <1>0, <2>1, <2>3, <3>1 DEF Live, SetPending, InFrameSet, MainIsCurrent
    <3>2. CASE s # m
      BY <1>0, <2>1, <3>2, KeptStaysLive DEF KeptLive, InFrameSet, Queued
    <3> QED BY <3>1, <3>2
  <2> QED BY <2>2, <2>4 DEF MainIsCurrent
<1>9. CASE FrameSetFail
  <2>1. flen'[m] = 0 /\ main'.at = "idle"
    BY <1>0, <1>9 DEF FrameSetFail, TypeOK, Idle
  <2>2. \A s \in Slots : s # m => flen'[s] = flen[s]
    BY <1>0, <1>9 DEF FrameSetFail, TypeOK
  <2>3. UNCHANGED <<ftype, occupied, queue, failed>>
    BY <1>9 DEF FrameSetFail, Unchanging
  <2>4. ASSUME NEW s \in Slots PROVE Live(s)'
    <3>1. CASE s = m
      BY <2>1, <3>1 DEF Live, IsConfigured, Configured
    <3>2. CASE s # m
      BY <1>0, <2>2, <2>3, <3>2, KeptStaysLive DEF KeptLive, InFrameSet, Queued
    <3> QED BY <3>1, <3>2
  <2> QED BY <2>1, <2>4 DEF MainIsCurrent
<1>10. CASE FrameSetOccupy \/ FrameSetDerive
  <2>1. main'.at \in {"derive", "ready"} /\ main'.slot = m
    BY <1>0, <1>10 DEF FrameSetOccupy, FrameSetDerive, Running, TypeOK, MainStates
  <2>2. UNCHANGED <<ftype, flen, queue, failed>>
    BY <1>10 DEF FrameSetOccupy, FrameSetDerive, Unchanging
  <2>3. occupied'[m] /\ \A s \in Slots : s # m => occupied'[s] = occupied[s]
    BY <1>0, <1>10 DEF FrameSetOccupy, FrameSetDerive, Running, TypeOK, MainIsCurrent
  <2>4. ASSUME NEW s \in Slots PROVE Live(s)'
    <3>1. CASE s = m
      BY <2>3, <3>1 DEF Live
    <3>2. CASE s # m
      BY <1>0, <2>2, <2>3, <3>2, KeptStaysLive DEF KeptLive, InFrameSet, Queued
    <3> QED BY <3>1, <3>2
  <2> QED BY <2>1, <2>3, <2>4 DEF MainIsCurrent
<1>11. CASE EidReady
  <2>1. /\ UNCHANGED <<occupied, queue, failed>> /\ main.at \in {"ready", "rotate"}
        /\ \A s \in Slots : s # m => ftype'[s] = ftype[s] /\ flen'[s] = flen[s]
        /\ \/ main'.at \in {"ready", "rotate"} /\ main'.slot = m
           \/ main'.at \in {"idle", "scan", "endtick"}
    BY <1>0, <1>11, EidReadySteps DEF Unchanging
  <2>2. occupied[m] /\ occupied'[m]
    BY <1>0, <2>1 DEF MainIsCurrent
  <2>3. ASSUME NEW s \in Slots PROVE Live(s)'
    <3>1. CASE s = m
      BY <2>2, <3>1 DEF Live
    <3>2. CASE s # m
      BY <1>0, <2>1, <3>2, KeptStaysLive DEF KeptLive, InFrameSet, Queued
    <3> QED BY <3>1, <3>2
  <2> QED BY <2>1, <2>2, <2>3 DEF MainIsCurrent
<1>12. CASE TickStart
  <2>1. queue # <<>> /\ queue' = Tail(queue) /\ Head(queue).kind = "tick"
    BY <1>12 DEF TickStart
  <2>2. \A s \in Slots : Head(queue) # SetEvent(s)
    BY <2>1 DEF SetEvent
  <2>3. \A s \in Slots : Queued(s) => Queued(s)'
    BY <1>0, <2>1, <2>2, PopKeepsQueued
  <2>4. /\ UNCHANGED <<ftype, flen, occupied, failed>>
        /\ main.at = "idle" /\ main'.at = "scan"
    BY <1>12 DEF TickStart, Running, Unchanging, Idle, ram
  <2> QED BY <1>1, <2>3, <2>4 DEF KeptLive, InFrameSet
<1>13. CASE TickScan
  <2>1. main.at = "scan" /\ UNCHANGED <<ftype, flen, occupied, queue, failed>>
    BY <1>13 DEF TickScan, Running, Unchanging, ram
  <2>2. \A s \in Slots : KeptLive(s)
    BY <2>1 DEF KeptLive, InFrameSet, Queued
  <2>3. CASE main' = NextScan
    <3>1. NextScan.at \in {"scan", "endtick"}
      BY <1>0, <2>1 DEF NextScan, Idle, TypeOK, MainStates
    <3> QED BY <1>1, <2>2, <2>3, <3>1
  <2>4. CASE occupied[m] /\ main' = [main EXCEPT !.at = "rotate"]
    <3>1. main'.at = "rotate" /\ main'.slot = m
      BY <1>0, <2>4 DEF TypeOK, MainStates
    <3> QED BY <1>0, <2>1, <2>2, <2>4, <3>1, KeptStaysLive DEF MainIsCurrent
  <2> QED BY <1>13, <2>3, <2>4 DEF TickScan, RotationDue
<1>14. CASE TickEnd
  BY <1>1, <1>14 DEF TickEnd, Running, Idle, ram, KeptLive, InFrameSet, Queued
<1>15. CASE UNCHANGED vars
  <2>1. /\ UNCHANGED <<main, ftype, occupied>>
        /\ \A s \in Slots : KeptLive(s)
    BY <1>15 DEF vars, KeptLive, InFrameSet, Queued
  <2> QED BY <1>0, <2>1, KeptStaysLive DEF MainIsCurrent
<1> QED
  BY <1>2, <1>3, <1>4, <1>5, <1>6, <1>7, <1>8, <1>9, <1>10, <1>11, <1>12,
     <1>13, <1>14, <1>15
     DEF Next, Interrupt, MainLoop, PowerLoss, ErrorReset

\* As long as no client event preempts a main loop handler, a configured EID
\* slot with no key exchange to wait for has a key and a clock that rotates it.
\* (Without the hypothesis it is false: a clear during the exchange leaves one.)
THEOREM ConfiguredEidsAreLive ==
    ASSUME ~Preempt
    PROVE  Spec => []ConfiguredEidIsLive
<1>1. LiveInv /\ [Next]_vars => LiveInv'
  <2> SUFFICES ASSUME LiveInv, [Next]_vars PROVE LiveInv'
    OBVIOUS
  <2>1. TypeOK'
    BY NextType DEF LiveInv
  <2>2. (\A s \in Slots : Live(s)') /\ MainIsCurrent'
    BY LiveNext
  <2> QED BY <2>1, <2>2 DEF LiveInv
<1>2. LiveInv => ConfiguredEidIsLive
  BY DEF LiveInv, ConfiguredEidIsLive, Live
<1> QED BY <1>1, <1>2, LiveInit, PTL DEF Spec

-----------------------------------------------------------------------------
(* SlotConfig implements SlotTable, when nothing preempts the main loop and  *)
(* clients write EIDs of a proper length                                     *)

ExchangeLengths == {ECS_EID_WRITE_IDK_LENGTH, ECS_EID_WRITE_ECDH_LENGTH}

\* Each EID written is one that frame_set accepts, and a write that clears a
\* slot never leaves the type byte EID.
WellWritten ==
    /\ "EID" \notin StackGarbage
    /\ \A w \in Writes : w.type = "EID" /\ w.len # 0 => w.len \in ExchangeLengths

\* A slot with a key is an EID, and an EID is never refused: one whose exchange
\* is pending has the length of its write, one restored has a length of 2.
EidProper(s) ==
    /\ occupied[s] => ftype[s] = "EID"
    /\ ftype[s] = "EID" => /\ flen[s] \in {2} \cup ExchangeLengths
                           /\ SetPending(s) => flen[s] \in ExchangeLengths

\* What frame_set has read of the slot it works on still holds; a slot that is
\* still to be restored has nothing.
MainProper ==
    /\ main.at = "check" => main.type = ftype[main.slot]
    /\ main.at = "fail" => ftype[main.slot] # "EID"
    /\ main.at \in {"occupy", "derive", "ready"} => ftype[main.slot] = "EID"
    /\ main.at = "rotate" => occupied[main.slot]
    /\ main.at = "boot" =>
          \A s \in Slots : s >= main.slot => ~occupied[s] /\ ~Queued(s)

ProperInv == TypeOK /\ MainProper /\ \A s \in Slots : EidProper(s)

LEMMA ProperFacts ==
    ASSUME ProperInv
    PROVE  /\ TypeOK /\ MainProper /\ \A s \in Slots : EidProper(s)
           /\ main \in MainStates /\ main.slot \in Slots /\ main.type \in FrameTypes
           /\ queue \in Seq(Events) /\ Len(queue) \in Nat
BY DEF ProperInv, TypeOK, MainStates

\* What was not there before a put is the event put ...
LEMMA PutAddsOnly ==
    ASSUME TypeOK, NEW e \in Events, Put(e), NEW s \in Slots, Queued(s)'
    PROVE  Queued(s) \/ e = SetEvent(s)
<1>1. PICK i \in 1 .. Len(queue') : queue'[i] = SetEvent(s)
  BY DEF Queued, SetEvent
<1>2. queue \in Seq(Events) /\ Len(queue) \in Nat
  BY DEF TypeOK
<1>3. CASE queue' = queue
  BY <1>1, <1>3 DEF Queued
<1>4. CASE queue' = Append(queue, e)
  <2>1. Len(queue') = Len(queue) + 1 /\ queue'[Len(queue) + 1] = e
        /\ \A j \in 1 .. Len(queue) : queue'[j] = queue[j]
    BY <1>2, <1>4
  <2>2. i \in 1 .. Len(queue) \/ i = Len(queue) + 1
    BY <1>1, <1>2, <2>1
  <2> QED BY <1>1, <2>1, <2>2 DEF Queued
<1> QED BY <1>3, <1>4 DEF Put

\* ... and a pop adds nothing.
LEMMA PopAddsNone ==
    ASSUME TypeOK, queue # <<>>, queue' = Tail(queue),
           NEW s \in Slots, Queued(s)'
    PROVE  Queued(s)
<1>1. PICK i \in 1 .. Len(queue') : queue'[i] = SetEvent(s)
  BY DEF Queued, SetEvent
<1>2. queue \in Seq(Events) /\ Len(queue) \in Nat
  BY DEF TypeOK
<1>3. i + 1 \in 1 .. Len(queue) /\ queue[i + 1] = queue'[i]
  BY <1>1, <1>2
<1> QED BY <1>1, <1>3 DEF Queued

\* Slot s, and what is queued for it, are as they were.
SameSlot(s) ==
    /\ ftype'[s] = ftype[s] /\ flen'[s] = flen[s] /\ occupied'[s] = occupied[s]
    /\ Queued(s)' <=> Queued(s)

LEMMA WriteDoes ==
    ASSUME TypeOK, NEW s \in Slots, NEW t \in FrameTypes, NEW n \in Nat,
           RwAdvDataSet(s, t, n)
    PROVE  /\ ftype'[s] = t /\ flen'[s] = n
           /\ occupied'[s] => t = "EID" /\ occupied[s]
           /\ Queued(s) => Queued(s)'
           /\ \A r \in Slots : r # s => SameSlot(r)
<1>1. /\ ftype'[s] = t /\ flen'[s] = n
      /\ \A r \in Slots : r # s => ftype'[r] = ftype[r] /\ flen'[r] = flen[r]
  BY DEF RwAdvDataSet, TypeOK
<1>2. /\ occupied'[s] => t = "EID" /\ occupied[s]
      /\ \A r \in Slots : r # s => occupied'[r] = occupied[r]
  BY <1>1, WriteKeys
<1>3. \A r \in Slots : Queued(r) => Queued(r)'
  BY WriteQueues
<1>4. ASSUME NEW r \in Slots, r # s, Queued(r)' PROVE Queued(r)
  <2>1. CASE Put(SetEvent(s))
    <3>1. SetEvent(s) # SetEvent(r)  BY <1>4 DEF SetEvent
    <3> QED BY <1>4, <2>1, <3>1, SetEventType, PutAddsOnly
  <2>2. CASE queue' = queue
    BY <1>4, <2>2 DEF Queued
  <2> QED BY <2>1, <2>2 DEF RwAdvDataSet
<1> QED BY <1>1, <1>2, <1>3, <1>4 DEF SameSlot

LEMMA SameProper ==
    ASSUME NEW s \in Slots, EidProper(s), SameSlot(s), InFrameSet(s)' => InFrameSet(s)
    PROVE  EidProper(s)'
BY DEF EidProper, SameSlot, SetPending

\* A slot's contents in SlotTable, and what it will be after a loss of power.
TableOf(s) == Content(ftype[s], flen[s])
SavedOf(s) == IF nvm.factory /\ s = 0 THEN "URL"
              ELSE Content(Restored(s).type, Restored(s).len)

LEMMA ContentFacts ==
    /\ \A n \in Nat : n # 0 => Content("EID", n) = "EID"
    /\ Content("URL", DefaultUrlLength) = "URL"
    /\ \A t \in FrameTypes : Content(t, 0) = "EMPTY"
BY DEF Content, Configured, DefaultUrlLength

LEMMA RestoreDoes ==
    ASSUME TypeOK, RestoreSlot, NEW m \in Slots, m = main.slot
    PROVE  /\ main.at = "boot" /\ main' = NextBoot /\ UNCHANGED <<nvm, writes>>
           /\ \A r \in Slots : r # m => SameSlot(r)
           /\ TableOf(m)' = SavedOf(m)
           /\ Queued(m) => Queued(m)'
           /\ ftype'[m] = "EID" => flen'[m] = 2 /\ queue' = queue
           /\ occupied'[m] => occupied[m] \/ ftype'[m] = "EID"
<1>0. main.at = "boot" /\ main' = NextBoot /\ UNCHANGED <<nvm, writes>>
  BY DEF RestoreSlot
<1>r. /\ Restored(m).type \in FrameTypes /\ Restored(m).len \in Nat
      /\ nvm.factory => Restored(m).len = 0
  BY RestoredType DEF Configs, Restored, NoConfig
<1>1. CASE RestoreDefault
  <2>1. /\ m = 0 /\ nvm.factory
        /\ ftype'[m] = "URL" /\ flen'[m] = DefaultUrlLength
        /\ \A r \in Slots : r # m => ftype'[r] = ftype[r] /\ flen'[r] = flen[r]
    BY <1>1 DEF RestoreDefault, TypeOK
  <2>2. UNCHANGED <<occupied, queue>>  BY <1>1 DEF RestoreDefault
  <2>3. TableOf(m)' = SavedOf(m)
    BY <2>1, ContentFacts DEF TableOf, SavedOf
  <2> QED BY <1>0, <2>1, <2>2, <2>3 DEF SameSlot, Queued
<1>2. CASE RestoreEmpty(m)
  <2>1. /\ ~(nvm.factory /\ m = 0) /\ Restored(m).len = 0
        /\ ftype'[m] = "UID" /\ flen'[m] = 0
        /\ \A r \in Slots : r # m => ftype'[r] = ftype[r] /\ flen'[r] = flen[r]
    BY <1>2 DEF RestoreEmpty, TypeOK
  <2>2. UNCHANGED <<occupied, queue>>  BY <1>2 DEF RestoreEmpty
  <2>3. TableOf(m)' = SavedOf(m)
    <3>1. "UID" \in FrameTypes  BY DEF FrameTypes
    <3>2. TableOf(m)' = "EMPTY"  BY <2>1, <3>1, ContentFacts DEF TableOf
    <3>3. SavedOf(m) = "EMPTY"  BY <1>r, <2>1, ContentFacts DEF SavedOf
    <3> QED BY <3>2, <3>3
  <2> QED BY <1>0, <2>1, <2>2, <2>3 DEF SameSlot, Queued
<1>3. CASE RestoreFrame(m)
  <2>1. /\ Restored(m).len # 0 /\ Restored(m).type # "EID"
        /\ RwAdvDataSet(m, Restored(m).type, Restored(m).len)
    BY <1>3 DEF RestoreFrame
  <2>2. /\ ftype'[m] = Restored(m).type /\ flen'[m] = Restored(m).len
        /\ occupied'[m] => Restored(m).type = "EID" /\ occupied[m]
        /\ Queued(m) => Queued(m)'
        /\ \A r \in Slots : r # m => SameSlot(r)
    BY <1>r, <2>1, WriteDoes
  <2>3. TableOf(m)' = SavedOf(m)
    BY <1>r, <2>1, <2>2 DEF TableOf, SavedOf
  <2> QED BY <1>0, <2>1, <2>2, <2>3
<1>4. CASE RestoreEid(m)
  <2>1. /\ Restored(m).len # 0 /\ Restored(m).type = "EID"
        /\ ftype'[m] = "EID" /\ flen'[m] = 2
        /\ \A r \in Slots : r # m => /\ ftype'[r] = ftype[r] /\ flen'[r] = flen[r]
                                     /\ occupied'[r] = occupied[r]
        /\ queue' = queue
    BY <1>4 DEF RestoreEid, TypeOK
  <2>2. TableOf(m)' = SavedOf(m)
    BY <1>r, <2>1, ContentFacts DEF TableOf, SavedOf
  <2> QED BY <1>0, <2>1, <2>2 DEF SameSlot, Queued
<1> QED BY <1>1, <1>2, <1>3, <1>4 DEF RestoreSlot

\* A frame_set or a rotation that ends with an EID leaves the slot as it was, a
\* configured EID.
LEMMA ReadyDoes ==
    ASSUME ProperInv, EidReady, NEW m \in Slots, m = main.slot
    PROVE  /\ \A r \in Slots : r # m => SameSlot(r)
           /\ ftype[m] = "EID" /\ ftype'[m] = "EID"
           /\ flen[m] # 0 /\ flen'[m] \in {flen[m], ECS_EID_WRITE_ECDH_LENGTH}
           /\ UNCHANGED <<occupied, queue, nvm, writes>>
           /\ main.at \in {"ready", "rotate"}
           /\ main.at = "rotate" => occupied[m]
           /\ \/ main'.at = main.at /\ main'.slot = m
              \/ main.at = "ready" /\ main' = Idle
              \/ main.at = "rotate" /\ main'.at \in {"scan", "endtick"}
<1>0. TypeOK /\ MainProper /\ EidProper(m)
  BY ProperFacts
<1>1. /\ UNCHANGED <<occupied, queue, nvm, writes>>
      /\ main.at \in {"ready", "rotate"}
      /\ \A r \in Slots : r # m => ftype'[r] = ftype[r] /\ flen'[r] = flen[r]
      /\ ftype'[m] \in {ftype[m], "EID"}
      /\ flen'[m] \in {flen[m], ECS_EID_WRITE_ECDH_LENGTH}
      /\ \/ main'.at = main.at /\ main'.slot = m
         \/ main.at = "ready" /\ main' = Idle
         \/ main.at = "rotate" /\ main'.at \in {"scan", "endtick"}
  BY <1>0, EidReadySteps DEF Unchanging
<1>2. ftype[m] = "EID" /\ (main.at = "rotate" => occupied[m])
  BY <1>0, <1>1 DEF MainProper, EidProper
<1>3. flen[m] # 0
  BY <1>0, <1>2 DEF EidProper, ExchangeLengths, ECS_EID_WRITE_IDK_LENGTH,
                    ECS_EID_WRITE_ECDH_LENGTH
<1> QED BY <1>1, <1>2, <1>3 DEF SameSlot, Queued

\* frame_set takes the frame of its slot, and so never refuses a proper EID.
LEMMA CheckDoes ==
    ASSUME ProperInv, FrameSetCheck, NEW m \in Slots, m = main.slot
    PROVE  /\ UNCHANGED <<ftype, flen, occupied, queue, nvm, writes>>
           /\ main.at = "check"
           /\ \/ main' = Idle
              \/ /\ main'.slot = m
                 /\ \/ main'.at = "fail" /\ ftype[m] # "EID"
                    \/ main'.at = "occupy" /\ ftype[m] = "EID"
<1>0. TypeOK /\ MainProper /\ EidProper(m) /\ main \in MainStates
  BY ProperFacts
<1>1. /\ UNCHANGED <<ftype, flen, occupied, queue, nvm, writes>> /\ main.at = "check"
  BY DEF FrameSetCheck, Running, Unchanging
<1>2. main.type = ftype[m] /\ InFrameSet(m)
  BY <1>0, <1>1 DEF MainProper, InFrameSet
<1>3. CASE ValidLength(main.type, flen[m])
  <2>1. CASE main.type = "EID"
    <3>1. main'.at = "occupy" /\ main'.slot = m
      BY <1>0, <1>1, <2>1, CheckOutcome, <1>3 DEF FrameSetCheck, MainStates
    <3> QED BY <1>1, <1>2, <2>1, <3>1
  <2>2. CASE main.type # "EID"
    BY <1>1, <1>3, <2>2 DEF FrameSetCheck
  <2> QED BY <2>1, <2>2
<1>4. CASE ~ValidLength(main.type, flen[m])
  <2>1. ftype[m] # "EID"
    <3>1. SUFFICES ASSUME ftype[m] = "EID" PROVE FALSE  OBVIOUS
    <3>2. flen[m] \in ExchangeLengths
      BY <1>0, <1>2, <3>1 DEF EidProper, SetPending
    <3> QED BY <1>2, <1>4, <3>1, <3>2 DEF ValidLength, ExchangeLengths
  <2>2. main'.at = "fail" /\ main'.slot = m
    BY <1>0, <1>4 DEF FrameSetCheck, MainStates
  <2> QED BY <1>1, <2>1, <2>2
<1> QED BY <1>3, <1>4

LEMMA StartDoes ==
    ASSUME TypeOK, FrameSetStart
    PROVE  \E h \in Slots :
              /\ Queued(h) /\ main'.slot = h /\ main'.at = "check"
              /\ main'.type = ftype[h] /\ main.at = "idle"
              /\ Queued(h)' => Queued(h)
              /\ \A r \in Slots : r # h => SameSlot(r)
              /\ UNCHANGED <<ftype, flen, occupied, nvm, writes>>
<1>1. queue \in Seq(Events) /\ queue # <<>> /\ queue' = Tail(queue)
  BY DEF FrameSetStart, TypeOK
<1>2. Head(queue) \in Events /\ Head(queue).kind = "set"
  BY <1>1 DEF FrameSetStart
<1>3. PICK h \in Slots : Head(queue) = SetEvent(h)
  BY <1>2 DEF SetEvent, Events
<1>4. /\ main'.at = "check" /\ main'.slot = h /\ main'.type = ftype[h]
      /\ main.at = "idle" /\ UNCHANGED <<ftype, flen, occupied, nvm, writes>>
  BY <1>3 DEF FrameSetStart, Idle, SetEvent, Running, Unchanging, ram
<1>5. Queued(h)
  <2>1. 1 \in 1 .. Len(queue) /\ queue[1] = SetEvent(h)  BY <1>1, <1>3
  <2> QED BY <2>1 DEF Queued
<1>6. ASSUME NEW r \in Slots, r # h PROVE Queued(r)' <=> Queued(r)
  <2>1. Head(queue) # SetEvent(r)  BY <1>3, <1>6 DEF SetEvent
  <2>2. Queued(r) => Queued(r)'  BY <1>1, <2>1, PopKeepsQueued
  <2>3. Queued(r)' => Queued(r)  BY <1>1, PopAddsNone
  <2> QED BY <2>2, <2>3
<1> QED BY <1>4, <1>5, <1>6 DEF SameSlot

\* Steps that neither write nor restore a slot, nor begin or end a frame_set:
\* events, the timer and the scan of update_time.
Elsewhere == {"idle", "scan", "rotate", "endtick"}
Idling ==
    /\ UNCHANGED <<ftype, flen, occupied>> /\ \A s \in Slots : Queued(s)' <=> Queued(s)
    /\ main.at \in Elsewhere /\ main'.at \in Elsewhere
    /\ main'.at = "rotate" => occupied[main'.slot]

LEMMA TimerDoes ==
    ASSUME TypeOK, ~Preempt, Connect \/ Disconnect \/ TimerTick
    PROVE  Idling /\ main' = main /\ main.at = "idle"
<1>1. UNCHANGED <<ftype, flen, occupied, main>> /\ main.at = "idle"
  BY DEF Connect, Disconnect, TimerTick, InterruptAllowed, ram
<1>2. CASE TimerTick
  <2>1. TickEvent \in Events /\ Put(TickEvent)
    BY <1>2, SlotsFacts DEF TimerTick, TickEvent, Events
  <2>2. \A s \in Slots : TickEvent # SetEvent(s)  BY DEF TickEvent, SetEvent
  <2>3. \A s \in Slots : Queued(s)' <=> Queued(s)
    BY <2>1, <2>2, PutKeepsQueued, PutAddsOnly
  <2> QED BY <1>1, <2>3 DEF Idling, Elsewhere
<1>3. CASE Connect \/ Disconnect
  <2>1. queue' = queue  BY <1>3 DEF Connect, Disconnect
  <2> QED BY <1>1, <2>1 DEF Idling, Elsewhere, Queued
<1> QED BY <1>2, <1>3

LEMMA ScanDoes ==
    ASSUME TypeOK, TickStart \/ TickScan \/ TickEnd
    PROVE  Idling /\ writes' = writes /\ (TickEnd \/ nvm' = nvm)
<1>0. main \in MainStates /\ main.slot \in Slots  BY DEF TypeOK, MainStates
<1>1. NextScan.at \in {"scan", "endtick"}
  BY <1>0 DEF NextScan, Idle, MainStates
<1>2. CASE TickStart
  <2>1. queue # <<>> /\ queue' = Tail(queue) /\ Head(queue).kind = "tick"
    BY <1>2 DEF TickStart
  <2>2. \A s \in Slots : Head(queue) # SetEvent(s)
    BY <2>1 DEF SetEvent
  <2>3. \A s \in Slots : Queued(s)' <=> Queued(s)
    BY <2>1, <2>2, PopKeepsQueued, PopAddsNone
  <2> QED BY <1>2, <2>3 DEF TickStart, Running, Unchanging, Idle, ram, Idling, Elsewhere
<1>3. CASE TickScan
  <2>1. /\ UNCHANGED <<ftype, flen, occupied, queue, nvm, writes>>
        /\ main.at = "scan"
    BY <1>3 DEF TickScan, Running, Unchanging, ram
  <2>2. CASE main' = NextScan
    BY <1>1, <2>1, <2>2 DEF Idling, Elsewhere, Queued
  <2>3. CASE occupied[main.slot] /\ main' = [main EXCEPT !.at = "rotate"]
    <3>1. main'.at = "rotate" /\ main'.slot = main.slot
      BY <1>0, <2>3 DEF MainStates
    <3> QED BY <2>1, <2>3, <3>1 DEF Idling, Elsewhere, Queued
  <2> QED BY <1>3, <2>2, <2>3 DEF TickScan, RotationDue
<1>4. CASE TickEnd
  BY <1>4 DEF TickEnd, Running, Idle, ram, Idling, Elsewhere, Queued
<1> QED BY <1>2, <1>3, <1>4

LEMMA WriteEvent ==
    ASSUME TypeOK, ~Preempt, WellWritten, NEW s \in Slots, NEW w \in Writes,
           ClientWrite(s, w)
    PROVE  \E t \in FrameTypes, n \in Nat :
              /\ RwAdvDataSet(s, t, n) /\ (t = "EID" => n \in ExchangeLengths)
              /\ main.at = "idle" /\ main' = main
              /\ writes' = writes + 1 /\ nvm' = nvm
<1>1. w.type \in FrameTypes /\ w.len \in Nat  BY WritesAssumption
<1>2. /\ main.at = "idle" /\ main' = main /\ writes' = writes + 1 /\ nvm' = nvm
  BY DEF ClientWrite, InterruptAllowed
<1>3. CASE w.len = 0
  <2>1. PICK t \in StackGarbage : RwAdvDataSet(s, t, 0)
    BY <1>3 DEF ClientWrite
  <2>2. t \in FrameTypes /\ t # "EID"
    BY StackGarbageAssumption DEF WellWritten
  <2> QED BY <1>2, <2>1, <2>2
<1>4. CASE w.len # 0
  <2>1. RwAdvDataSet(s, w.type, w.len)
    BY <1>4 DEF ClientWrite
  <2>2. w.type = "EID" => w.len \in ExchangeLengths
    BY <1>4 DEF WellWritten
  <2> QED BY <1>1, <1>2, <2>1, <2>2
<1> QED BY <1>3, <1>4

LEMMA ProperInit == Init => ProperInv
<1> SUFFICES ASSUME Init PROVE MainProper /\ \A s \in Slots : EidProper(s)
  BY InitType DEF ProperInv
<1>1. main.at = "boot" /\ queue = <<>> /\ \A s \in Slots : ~occupied[s] /\ ftype[s] = "UID"
  BY DEF Init, Idle
<1>2. \A s \in Slots : ~Queued(s)  BY <1>1 DEF Queued
<1> QED BY <1>1, <1>2 DEF MainProper, EidProper

LEMMA IdlingProper ==
    ASSUME ProperInv, Idling PROVE MainProper' /\ \A s \in Slots : EidProper(s)'
<1>1. \A s \in Slots : SameSlot(s) /\ ~InFrameSet(s)'
  BY DEF Idling, Elsewhere, SameSlot, InFrameSet
<1>2. \A s \in Slots : EidProper(s)'
  BY <1>1, SameProper, ProperFacts
<1>3. MainProper'
  BY DEF MainProper, Idling, Elsewhere
<1> QED BY <1>2, <1>3

LEMMA RestoreProper ==
    ASSUME ProperInv, RestoreSlot PROVE MainProper' /\ \A s \in Slots : EidProper(s)'
<1>0. /\ TypeOK /\ MainProper /\ \A s \in Slots : EidProper(s)
      /\ main \in MainStates /\ main.slot \in Slots
  BY ProperFacts
<1> PICK m \in Slots : m = main.slot  BY <1>0
<1>1. /\ main.at = "boot" /\ main' = NextBoot
      /\ \A r \in Slots : r # m => SameSlot(r)
      /\ ftype'[m] = "EID" => flen'[m] = 2 /\ queue' = queue
      /\ occupied'[m] => occupied[m] \/ ftype'[m] = "EID"
  BY <1>0, RestoreDoes
<1>2. \A s \in Slots : s >= m => ~occupied[s] /\ ~Queued(s)
  BY <1>0, <1>1 DEF MainProper
<1>m. m \in Int /\ m >= m  BY SlotsFacts
<1>3. \/ main'.at = "idle"
      \/ main'.at = "boot" /\ main'.slot = m + 1
  BY <1>0, <1>1 DEF NextBoot, Idle, MainStates
<1>4. \A s \in Slots : ~InFrameSet(s)'
  BY <1>3 DEF InFrameSet
<1>5. ASSUME NEW s \in Slots PROVE EidProper(s)'
  <2>1. CASE s = m
    <3>1. occupied'[m] => ftype'[m] = "EID"  BY <1>1, <1>2, <1>m
    <3>2. ftype'[m] = "EID" => flen'[m] = 2 /\ ~Queued(m)'
      BY <1>1, <1>2, <1>m DEF Queued
    <3> QED BY <1>4, <2>1, <3>1, <3>2 DEF EidProper, SetPending
  <2>2. CASE s # m
    BY <1>0, <1>1, <1>4, <2>2, SameProper
  <2> QED BY <2>1, <2>2
<1>6. MainProper'
  <2>1. CASE main'.at = "idle"  BY <2>1 DEF MainProper
  <2>2. CASE main'.at = "boot" /\ main'.slot = m + 1
    <3>1. ASSUME NEW s \in Slots, s >= m + 1 PROVE ~occupied'[s] /\ ~Queued(s)'
      <4>1. s # m /\ s >= m  BY <1>m, <3>1, SlotsFacts
      <4> QED BY <1>1, <1>2, <4>1 DEF SameSlot
    <3> QED BY <2>2, <3>1 DEF MainProper
  <2> QED BY <1>3, <2>1, <2>2
<1> QED BY <1>5, <1>6

LEMMA ProperNext ==
    ASSUME ~Preempt, WellWritten, ProperInv, [Next]_vars
    PROVE  MainProper' /\ \A s \in Slots : EidProper(s)'
<1>0. /\ TypeOK /\ MainProper /\ \A s \in Slots : EidProper(s)
      /\ main \in MainStates /\ main.slot \in Slots
  BY ProperFacts
<1> PICK m \in Slots : m = main.slot  BY <1>0
<1>1. CASE RestoreSlot  BY <1>1, RestoreProper
<1>2. CASE Reset
  <2>1. /\ main'.at = "boot" /\ queue' = <<>>
        /\ \A s \in Slots : ~occupied'[s] /\ ftype'[s] = "UID"
    BY <1>2 DEF Reset, Idle
  <2>2. \A s \in Slots : ~Queued(s)'  BY <2>1 DEF Queued
  <2> QED BY <2>1, <2>2 DEF MainProper, EidProper
<1>3. ASSUME NEW s \in Slots, NEW w \in Writes, ClientWrite(s, w)
      PROVE  MainProper' /\ \A r \in Slots : EidProper(r)'
  <2>1. PICK t \in FrameTypes, n \in Nat :
            /\ RwAdvDataSet(s, t, n) /\ (t = "EID" => n \in ExchangeLengths)
            /\ main.at = "idle" /\ main' = main
    BY <1>0, <1>3, WriteEvent
  <2>2. /\ ftype'[s] = t /\ flen'[s] = n /\ (occupied'[s] => t = "EID")
        /\ \A r \in Slots : r # s => SameSlot(r)
    BY <1>0, <2>1, WriteDoes
  <2>3. \A r \in Slots : ~InFrameSet(r)'  BY <2>1 DEF InFrameSet
  <2>4. \A r \in Slots : EidProper(r)'
    <3>1. EidProper(s)'  BY <2>1, <2>2 DEF EidProper
    <3>2. \A r \in Slots : r # s => EidProper(r)'  BY <1>0, <2>2, <2>3, SameProper
    <3> QED BY <3>1, <3>2
  <2> QED BY <2>1, <2>4 DEF MainProper
<1>4. CASE Connect \/ Disconnect \/ TimerTick
  BY <1>0, <1>4, TimerDoes, IdlingProper
<1>5. CASE FrameSetStart
  <2>1. PICK h \in Slots :
            /\ Queued(h) /\ main'.slot = h /\ main'.at = "check"
            /\ main'.type = ftype[h]
            /\ \A r \in Slots : r # h => SameSlot(r)
            /\ UNCHANGED <<ftype, flen, occupied>>
    BY <1>0, <1>5, StartDoes
  <2>2. EidProper(h)'  BY <1>0, <2>1 DEF EidProper, SetPending
  <2>3. \A r \in Slots : r # h => EidProper(r)'
    BY <1>0, <2>1, SameProper DEF InFrameSet
  <2> QED BY <2>1, <2>2, <2>3 DEF MainProper
<1>6. CASE FrameSetCheck
  <2>1. /\ UNCHANGED <<ftype, flen, occupied, queue>> /\ main.at = "check"
        /\ \/ main' = Idle
           \/ /\ main'.slot = m
              /\ \/ main'.at = "fail" /\ ftype[m] # "EID"
                 \/ main'.at = "occupy" /\ ftype[m] = "EID"
    BY <1>6, CheckDoes
  <2>2. \A r \in Slots : SameSlot(r) /\ (InFrameSet(r)' => InFrameSet(r))
    BY <2>1 DEF SameSlot, Queued, InFrameSet, Idle
  <2>3. \A r \in Slots : EidProper(r)'  BY <1>0, <2>2, SameProper
  <2> QED BY <2>1, <2>3 DEF MainProper, Idle
<1>7. CASE FrameSetFail
  <2>1. /\ main.at = "fail" /\ main' = Idle /\ UNCHANGED <<ftype, occupied, queue>>
        /\ \A r \in Slots : r # m => flen'[r] = flen[r]
    BY <1>0, <1>7 DEF FrameSetFail, Running, TypeOK
  <2>2. \A r \in Slots : ~InFrameSet(r)'  BY <2>1 DEF InFrameSet, Idle
  <2>3. EidProper(m)'
    BY <1>0, <2>1 DEF MainProper, EidProper
  <2>4. \A r \in Slots : r # m => EidProper(r)'
    BY <1>0, <2>1, <2>2, SameProper DEF SameSlot, Queued
  <2> QED BY <2>1, <2>3, <2>4 DEF MainProper, Idle
<1>8. CASE FrameSetOccupy \/ FrameSetDerive
  <2>1. /\ main'.at \in {"derive", "ready"} /\ main'.slot = m
        /\ main.at \in {"occupy", "derive"} /\ UNCHANGED <<ftype, flen, queue>>
        /\ \A r \in Slots : r # m => occupied'[r] = occupied[r]
    BY <1>0, <1>8 DEF FrameSetOccupy, FrameSetDerive, Running, Unchanging, TypeOK,
                      MainStates
  <2>2. ftype[m] = "EID"  BY <1>0, <2>1 DEF MainProper
  <2>3. \A r \in Slots : (InFrameSet(r)' => InFrameSet(r)) /\ (Queued(r)' <=> Queued(r))
    BY <2>1 DEF InFrameSet, Queued
  <2>4. EidProper(m)'
    BY <1>0, <2>1, <2>2, <2>3 DEF EidProper, SetPending
  <2>5. \A r \in Slots : r # m => EidProper(r)'
    BY <1>0, <2>1, <2>3, SameProper DEF SameSlot
  <2> QED BY <2>1, <2>2, <2>4, <2>5 DEF MainProper
<1>9. CASE EidReady
  <2>1. /\ \A r \in Slots : r # m => SameSlot(r)
        /\ ftype[m] = "EID" /\ ftype'[m] = "EID"
        /\ flen'[m] \in {flen[m], ECS_EID_WRITE_ECDH_LENGTH}
        /\ UNCHANGED <<occupied, queue>>
        /\ main.at \in {"ready", "rotate"} /\ (main.at = "rotate" => occupied[m])
        /\ \/ main'.at = main.at /\ main'.slot = m
           \/ main'.at \in {"idle", "scan", "endtick"}
    BY <1>9, ReadyDoes DEF Idle
  <2>2. \A r \in Slots : InFrameSet(r)' => InFrameSet(r)
    BY <2>1 DEF InFrameSet
  <2>3. EidProper(m)'
    BY <1>0, <2>1, <2>2 DEF EidProper, ExchangeLengths, SetPending, Queued
  <2>4. \A r \in Slots : r # m => EidProper(r)'  BY <1>0, <2>1, <2>2, SameProper
  <2> QED BY <2>1, <2>3, <2>4 DEF MainProper
<1>10. CASE TickStart \/ TickScan \/ TickEnd
  BY <1>0, <1>10, ScanDoes, IdlingProper
<1>11. CASE UNCHANGED vars
  <2>1. UNCHANGED <<ftype, flen, occupied, queue, main>>  BY <1>11 DEF vars
  <2>2. \A r \in Slots : SameSlot(r) /\ (InFrameSet(r)' <=> InFrameSet(r))
    BY <2>1 DEF SameSlot, Queued, InFrameSet
  <2>3. \A r \in Slots : EidProper(r)'  BY <1>0, <2>2, SameProper
  <2>4. MainProper'
    BY <1>0, <2>1, <2>2 DEF MainProper, SameSlot
  <2> QED BY <2>3, <2>4
<1> QED
  BY <1>1, <1>2, <1>3, <1>4, <1>5, <1>6, <1>7, <1>8, <1>9, <1>10, <1>11
     DEF Next, Interrupt, MainLoop, PowerLoss, ErrorReset

\* The mapping, slot by slot.
RestoredUpTo == IF main.at = "boot" THEN main.slot ELSE NumSlots
Contents == FrameTypes \cup {"EMPTY"}
TableNow == [s \in Slots |-> TableOf(s)]
SavedNow == [s \in Slots |-> SavedOf(s)]
Unchecked == {s \in Slots : SetPending(s)}
TableStep == Table!Next \/ UNCHANGED Table!vars

LEMMA StutterMaps ==
    ASSUME TableNow' = TableNow, SavedNow' = SavedNow, Unchecked' = Unchecked,
           RestoredUpTo' = RestoredUpTo, writes' = writes
    PROVE  TableStep
BY DEF TableStep, Table!vars, TableNow, SavedNow, Unchecked, RestoredUpTo, TableOf, SavedOf

LEMMA AcceptMaps ==
    ASSUME NEW s \in Slots, SetPending(s), TableNow' = TableNow, SavedNow' = SavedNow,
           Unchecked' = Unchecked \ {s}, RestoredUpTo' = RestoredUpTo, writes' = writes
    PROVE  TableStep
<1>1. Table!Accept(s)
  BY DEF Table!Accept, TableNow, SavedNow, Unchecked, RestoredUpTo, TableOf, SavedOf
<1> QED BY <1>1 DEF TableStep, Table!Next, Table!Slots, Slots

LEMMA RefuseMaps ==
    ASSUME NEW s \in Slots, SetPending(s),
           TableNow' = [TableNow EXCEPT ![s] = "EMPTY"], SavedNow' = SavedNow,
           Unchecked' \in {Unchecked, Unchecked \ {s}},
           RestoredUpTo' = RestoredUpTo, writes' = writes
    PROVE  TableStep
<1>1. Table!Refuse(s)
  BY DEF Table!Refuse, TableNow, SavedNow, Unchecked, RestoredUpTo, TableOf, SavedOf
<1> QED BY <1>1 DEF TableStep, Table!Next, Table!Slots, Slots

LEMMA WriteMaps ==
    ASSUME NEW s \in Slots, NEW c \in Contents, RestoredUpTo = NumSlots,
           TableNow' = [TableNow EXCEPT ![s] = c], SavedNow' = SavedNow,
           Unchecked' \in {Unchecked, Unchecked \cup {s}},
           RestoredUpTo' = RestoredUpTo, writes' = writes + 1
    PROVE  TableStep
<1>1. Table!Write(s)
  BY DEF Table!Write, Table!Up, Table!Contents, Contents, TableNow, SavedNow,
         Unchecked, RestoredUpTo, TableOf, SavedOf
<1> QED BY <1>1 DEF TableStep, Table!Next, Table!Slots, Slots

LEMMA RestoreMaps ==
    ASSUME RestoredUpTo # NumSlots,
           TableNow' = [TableNow EXCEPT ![RestoredUpTo] = SavedNow[RestoredUpTo]],
           SavedNow' = SavedNow,
           Unchecked' \in {Unchecked, Unchecked \cup {RestoredUpTo}},
           RestoredUpTo' = RestoredUpTo + 1, writes' = writes
    PROVE  TableStep
<1>1. Table!Restore
  BY DEF Table!Restore, Table!Up, TableNow, SavedNow, Unchecked, RestoredUpTo,
         TableOf, SavedOf
<1> QED BY <1>1 DEF TableStep, Table!Next

LEMMA StoreMaps ==
    ASSUME NEW S \in SUBSET Slots, RestoredUpTo = NumSlots, TableNow' = TableNow,
           SavedNow' = [s \in Slots |-> IF s \in S THEN TableNow[s] ELSE SavedNow[s]],
           Unchecked' = Unchecked, RestoredUpTo' = RestoredUpTo, writes' = writes
    PROVE  TableStep
<1>1. Table!Store(S)
  BY DEF Table!Store, Table!Up, Table!Slots, Slots, TableNow, SavedNow, Unchecked,
         RestoredUpTo, TableOf, SavedOf
<1> QED BY <1>1 DEF TableStep, Table!Next, Table!Slots, Slots

LEMMA LossMaps ==
    ASSUME TableNow' = [s \in Slots |-> "EMPTY"], SavedNow' = SavedNow,
           Unchecked' = {}, RestoredUpTo' = 0, writes' = writes
    PROVE  TableStep
<1>1. Table!PowerLoss
  BY DEF Table!PowerLoss, Table!Slots, Slots, TableNow, SavedNow, Unchecked,
         RestoredUpTo, TableOf, SavedOf
<1> QED BY <1>1 DEF TableStep, Table!Next

LEMMA SavedKept == ASSUME nvm' = nvm PROVE SavedNow' = SavedNow
BY DEF SavedNow, SavedOf, Restored

LEMMA TableKept ==
    ASSUME \A s \in Slots : TableOf(s)' = TableOf(s) PROVE TableNow' = TableNow
BY DEF TableNow

LEMMA UncheckedKept ==
    ASSUME \A s \in Slots : SetPending(s)' <=> SetPending(s)
    PROVE  Unchecked' = Unchecked
BY DEF Unchecked

\* Pending or not, the other slots are as they were.
LEMMA UncheckedOthers ==
    ASSUME NEW m \in Slots, \A s \in Slots : s # m => (SetPending(s)' <=> SetPending(s))
    PROVE  Unchecked' = IF SetPending(m)' THEN Unchecked \cup {m} ELSE Unchecked \ {m}
<1>1. \A s \in Slots : s \in Unchecked <=> SetPending(s)  BY DEF Unchecked
<1>2. \A s \in Slots : s \in Unchecked' <=> SetPending(s)'  BY DEF Unchecked
<1>3. Unchecked \subseteq Slots /\ Unchecked' \subseteq Slots  BY DEF Unchecked
<1>4. CASE SetPending(m)'
  <2>1. \A s \in Slots : s \in Unchecked' <=> s \in Unchecked \cup {m}
    BY <1>1, <1>2, <1>4
  <2> QED BY <1>3, <1>4, <2>1
<1>5. CASE ~SetPending(m)'
  <2>1. \A s \in Slots : s \in Unchecked' <=> s \in Unchecked \ {m}
    BY <1>1, <1>2, <1>5
  <2> QED BY <1>3, <1>5, <2>1
<1> QED BY <1>4, <1>5

\* A slot that is neither written nor ready has the contents it had.
LEMMA SameTable ==
    ASSUME NEW s \in Slots, ftype'[s] = ftype[s], flen'[s] = flen[s]
    PROVE  TableOf(s)' = TableOf(s)
BY DEF TableOf

LEMMA IdlingMaps ==
    ASSUME Idling PROVE /\ TableNow' = TableNow /\ Unchecked' = Unchecked
                        /\ RestoredUpTo' = NumSlots /\ RestoredUpTo = NumSlots
<1>1. \A s \in Slots : TableOf(s)' = TableOf(s)
  BY SameTable DEF Idling
<1>2. \A s \in Slots : SetPending(s)' <=> SetPending(s)
  BY DEF Idling, Elsewhere, SetPending, InFrameSet
<1>3. RestoredUpTo' = NumSlots /\ RestoredUpTo = NumSlots
  BY DEF Idling, Elsewhere, RestoredUpTo
<1> QED BY <1>1, <1>2, <1>3, TableKept, UncheckedKept

\* frame_set ends with the contents of its slot as they are: it accepts them,
\* unless another write of the slot is waiting.
LEMMA EndMaps ==
    ASSUME NEW m \in Slots, InFrameSet(m), main' = Idle, queue' = queue,
           \A s \in Slots : TableOf(s)' = TableOf(s), nvm' = nvm, writes' = writes
    PROVE  TableStep
<1>1. TableNow' = TableNow /\ SavedNow' = SavedNow
  BY TableKept, SavedKept
<1>2. RestoredUpTo' = RestoredUpTo
  BY DEF RestoredUpTo, Idle, InFrameSet
<1>3. \A s \in Slots : (SetPending(s)' <=> Queued(s)) /\ (s # m => ~InFrameSet(s))
  BY DEF SetPending, InFrameSet, Idle, Queued
<1>4. Unchecked' = IF SetPending(m)' THEN Unchecked \cup {m} ELSE Unchecked \ {m}
  <2>1. \A s \in Slots : s # m => (SetPending(s)' <=> SetPending(s))
    BY <1>3 DEF SetPending
  <2> QED BY <2>1, UncheckedOthers
<1>5. SetPending(m) /\ m \in Unchecked
  BY DEF SetPending, Unchecked
<1>6. CASE SetPending(m)'
  <2>1. Unchecked' = Unchecked  BY <1>4, <1>5, <1>6
  <2> QED BY <1>1, <1>2, <2>1, StutterMaps
<1>7. CASE ~SetPending(m)'
  <2>1. Unchecked' = Unchecked \ {m}  BY <1>4, <1>7
  <2> QED BY <1>1, <1>2, <1>5, <2>1, AcceptMaps
<1> QED BY <1>6, <1>7

LEMMA FlashContents ==
    ASSUME TypeOK, NEW s \in Slots
    PROVE  Content(FlashImage(s).type, FlashImage(s).len) = TableOf(s)
<1>1. CASE ~IsConfigured(s)
  <2>1. FlashImage(s).type = "UID" /\ FlashImage(s).len = 0
    BY <1>1 DEF FlashImage, NoConfig
  <2>2. TableOf(s) = "EMPTY"
    BY <1>1 DEF TableOf, Content, IsConfigured
  <2> QED BY <2>1, <2>2 DEF Content, Configured
<1>2. CASE IsConfigured(s) /\ ftype[s] = "EID"
  <2>1. FlashImage(s).type = "EID" /\ FlashImage(s).len = EidConfigLength
    BY <1>2 DEF FlashImage
  <2>2. TableOf(s) = "EID"
    BY <1>2 DEF TableOf, Content, IsConfigured
  <2> QED BY <2>1, <2>2 DEF Content, Configured, EidConfigLength
<1>3. CASE IsConfigured(s) /\ ftype[s] # "EID"
  <2>1. FlashImage(s).type = ftype[s] /\ FlashImage(s).len = flen[s]
    BY <1>3 DEF FlashImage
  <2> QED BY <2>1 DEF TableOf
<1> QED BY <1>1, <1>2, <1>3

\* A disconnect stores every slot ...
LEMMA DisconnectStores ==
    ASSUME TypeOK, Disconnect
    PROVE  SavedNow' = [s \in Slots |-> IF s \in Slots THEN TableNow[s] ELSE SavedNow[s]]
<1>1. nvm' = [factory |-> FALSE,
              empty   |-> [s \in Slots |-> ~IsConfigured(s)],
              config  |-> [s \in Slots |-> FlashImage(s)]]
  BY DEF Disconnect
<1>2. ASSUME NEW s \in Slots PROVE SavedOf(s)' = TableOf(s)
  <2>1. /\ nvm'.factory = FALSE /\ nvm'.empty[s] = ~IsConfigured(s)
        /\ nvm'.config[s] = FlashImage(s)
    BY <1>1
  <2>2. CASE IsConfigured(s)
    <3>1. Restored(s)' = FlashImage(s)
      BY <2>1, <2>2 DEF Restored
    <3>2. SavedOf(s)' = Content(FlashImage(s).type, FlashImage(s).len)
      BY <2>1, <3>1 DEF SavedOf
    <3> QED BY <3>2, FlashContents
  <2>3. CASE ~IsConfigured(s)
    <3>1. Restored(s)' = NoConfig
      BY <2>1, <2>3 DEF Restored
    <3>2. SavedOf(s)' = "EMPTY"
      BY <2>1, <3>1 DEF SavedOf, NoConfig, Content, Configured
    <3> QED BY <2>3, <3>2 DEF TableOf, Content, IsConfigured
  <2> QED BY <2>2, <2>3
<1> QED BY <1>2 DEF SavedNow, TableNow

\* ... and the daily store of update_time those EIDs whose flag says so.
LEMMA TickEndStores ==
    ASSUME TypeOK, TickEnd
    PROVE  \E S \in SUBSET Slots :
              SavedNow' = [s \in Slots |-> IF s \in S THEN TableNow[s] ELSE SavedNow[s]]
<1>1. CASE nvm' = nvm
  <2>1. SavedNow' = SavedNow  BY <1>1, SavedKept
  <2>2. SavedNow = [s \in Slots |-> IF s \in {} THEN TableNow[s] ELSE SavedNow[s]]
    BY DEF SavedNow
  <2>3. {} \in SUBSET Slots  OBVIOUS
  <2> QED BY <2>1, <2>2, <2>3
<1>2. ASSUME nvm' = [nvm EXCEPT !.config =
                       [s \in Slots |-> IF occupied[s] THEN FlashImage(s)
                                        ELSE nvm.config[s]]]
      PROVE  \E S \in SUBSET Slots :
                SavedNow' = [s \in Slots |-> IF s \in S THEN TableNow[s] ELSE SavedNow[s]]
  <2> DEFINE S == {s \in Slots : occupied[s] /\ ~nvm.factory /\ ~nvm.empty[s]}
  <2>0. nvm \in NvmStates  BY DEF TypeOK
  <2>1. /\ nvm'.factory = nvm.factory /\ nvm'.empty = nvm.empty
        /\ \A s \in Slots : nvm'.config[s] = IF occupied[s] THEN FlashImage(s)
                                             ELSE nvm.config[s]
    BY <1>2, <2>0 DEF NvmStates
  <2>2. ASSUME NEW s \in Slots
        PROVE  SavedOf(s)' = IF s \in S THEN TableOf(s) ELSE SavedOf(s)
    <3>1. CASE s \in S
      <4>1. Restored(s)' = FlashImage(s) /\ ~nvm'.factory
        BY <2>1, <3>1 DEF Restored
      <4>2. SavedOf(s)' = Content(FlashImage(s).type, FlashImage(s).len)
        BY <4>1 DEF SavedOf
      <4> QED BY <3>1, <4>2, FlashContents
    <3>2. CASE s \notin S
      <4>1. Restored(s)' = Restored(s)
        BY <2>1, <3>2 DEF Restored
      <4> QED BY <2>1, <3>2, <4>1 DEF SavedOf
    <3> QED BY <3>1, <3>2
  <2>3. S \in SUBSET Slots  OBVIOUS
  <2> HIDE DEF S
  <2>4. SavedNow' = [s \in Slots |-> IF s \in S THEN TableNow[s] ELSE SavedNow[s]]
    BY <2>2 DEF SavedNow, TableNow
  <2> QED BY <2>3, <2>4
<1> QED BY <1>1, <1>2 DEF TickEnd

LEMMA RestoreStep == ASSUME ProperInv, RestoreSlot PROVE TableStep
<1>0. TypeOK /\ main \in MainStates /\ main.slot \in Slots
  BY ProperFacts
<1> PICK m \in Slots : m = main.slot  BY <1>0
<1>1. /\ main.at = "boot" /\ main' = NextBoot /\ UNCHANGED <<nvm, writes>>
      /\ \A r \in Slots : r # m => SameSlot(r)
      /\ TableOf(m)' = SavedOf(m) /\ (Queued(m) => Queued(m)')
  BY <1>0, RestoreDoes
<1>2. RestoredUpTo = m /\ m # NumSlots
  BY <1>1, NumSlotsAssumption DEF RestoredUpTo, Slots
<1>3. RestoredUpTo' = m + 1
  <2>1. CASE m = NumSlots - 1
    BY <1>1, <2>1, NumSlotsAssumption DEF NextBoot, Idle, RestoredUpTo
  <2>2. CASE m # NumSlots - 1
    BY <1>0, <1>1, <2>2 DEF NextBoot, RestoredUpTo, MainStates
  <2> QED BY <2>1, <2>2
<1>4. main'.at \in {"boot", "idle"}
  BY <1>0, <1>1 DEF NextBoot, Idle, MainStates
<1>5. \A s \in Slots : (SetPending(s) <=> Queued(s)) /\ (SetPending(s)' <=> Queued(s)')
  BY <1>1, <1>4 DEF SetPending, InFrameSet
<1>6. TableNow' = [TableNow EXCEPT ![m] = SavedNow[m]]
  <2>1. \A s \in Slots : s # m => TableOf(s)' = TableOf(s)
    BY <1>1, SameTable DEF SameSlot
  <2> QED BY <1>1, <2>1 DEF TableNow, SavedNow
<1>7. Unchecked' \in {Unchecked, Unchecked \cup {m}}
  <2>1. Unchecked' = IF SetPending(m)' THEN Unchecked \cup {m} ELSE Unchecked \ {m}
    BY <1>1, <1>5, UncheckedOthers DEF SameSlot
  <2>2. ~SetPending(m)' => m \notin Unchecked
    BY <1>1, <1>5 DEF Unchecked
  <2> QED BY <2>1, <2>2
<1>8. SavedNow' = SavedNow /\ writes' = writes  BY <1>1, SavedKept
<1> QED BY <1>2, <1>3, <1>6, <1>7, <1>8, RestoreMaps

LEMMA LossStep == ASSUME TypeOK, Reset PROVE TableStep
<1>1. /\ main'.at = "boot" /\ main'.slot = 0 /\ queue' = <<>>
      /\ nvm' = nvm /\ writes' = writes
      /\ \A s \in Slots : ftype'[s] = "UID" /\ flen'[s] = 0
  BY DEF Reset, Idle
<1>2. TableNow' = [s \in Slots |-> "EMPTY"]
  <2>1. \A s \in Slots : TableOf(s)' = "EMPTY"
    BY <1>1 DEF TableOf, Content, Configured
  <2> QED BY <2>1 DEF TableNow
<1>3. Unchecked' = {}
  <2>1. \A s \in Slots : ~SetPending(s)'
    BY <1>1 DEF SetPending, Queued, InFrameSet
  <2> QED BY <2>1 DEF Unchecked
<1>4. RestoredUpTo' = 0  BY <1>1 DEF RestoredUpTo
<1> QED BY <1>1, <1>2, <1>3, <1>4, SavedKept, LossMaps

LEMMA WriteStep ==
    ASSUME TypeOK, ~Preempt, WellWritten, NEW s \in Slots, NEW w \in Writes,
           ClientWrite(s, w)
    PROVE  TableStep
<1>1. PICK t \in FrameTypes, n \in Nat :
          /\ RwAdvDataSet(s, t, n) /\ main.at = "idle" /\ main' = main
          /\ writes' = writes + 1 /\ nvm' = nvm
  BY WriteEvent
<1>2. /\ ftype'[s] = t /\ flen'[s] = n /\ (Queued(s) => Queued(s)')
      /\ \A r \in Slots : r # s => SameSlot(r)
  BY <1>1, WriteDoes
<1>3. RestoredUpTo = NumSlots /\ RestoredUpTo' = NumSlots
  BY <1>1 DEF RestoredUpTo
<1>4. \A r \in Slots : (SetPending(r) <=> Queued(r)) /\ (SetPending(r)' <=> Queued(r)')
  BY <1>1 DEF SetPending, InFrameSet
<1>5. Content(t, n) \in Contents
  BY DEF Content, Contents
<1>6. TableNow' = [TableNow EXCEPT ![s] = Content(t, n)]
  <2>1. TableOf(s)' = Content(t, n)  BY <1>2 DEF TableOf
  <2>2. \A r \in Slots : r # s => TableOf(r)' = TableOf(r)
    BY <1>2, SameTable DEF SameSlot
  <2> QED BY <2>1, <2>2 DEF TableNow
<1>7. Unchecked' \in {Unchecked, Unchecked \cup {s}}
  <2>1. Unchecked' = IF SetPending(s)' THEN Unchecked \cup {s} ELSE Unchecked \ {s}
    BY <1>2, <1>4, UncheckedOthers DEF SameSlot
  <2>2. ~SetPending(s)' => s \notin Unchecked
    BY <1>2, <1>4 DEF Unchecked
  <2> QED BY <2>1, <2>2
<1> QED BY <1>1, <1>3, <1>5, <1>6, <1>7, SavedKept, WriteMaps

LEMMA StartStep == ASSUME TypeOK, FrameSetStart PROVE TableStep
<1>1. PICK h \in Slots :
          /\ Queued(h) /\ main'.slot = h /\ main'.at = "check" /\ main.at = "idle"
          /\ \A r \in Slots : r # h => SameSlot(r)
          /\ UNCHANGED <<ftype, flen, nvm, writes>>
  BY StartDoes
<1>2. \A s \in Slots : SetPending(s)' <=> SetPending(s)
  BY <1>1 DEF SetPending, InFrameSet, SameSlot
<1>3. \A s \in Slots : TableOf(s)' = TableOf(s)
  BY <1>1, SameTable
<1>4. RestoredUpTo' = RestoredUpTo  BY <1>1 DEF RestoredUpTo
<1> QED BY <1>1, <1>2, <1>3, <1>4, TableKept, UncheckedKept, SavedKept, StutterMaps

\* A frame_set that goes on with its slot changes nothing.
LEMMA WithinStep ==
    ASSUME NEW m \in Slots, InFrameSet(m), InFrameSet(m)', queue' = queue,
           \A s \in Slots : TableOf(s)' = TableOf(s), nvm' = nvm, writes' = writes
    PROVE  TableStep
<1>1. \A s \in Slots : SetPending(s)' <=> SetPending(s)
  BY DEF SetPending, InFrameSet, Queued
<1>2. RestoredUpTo' = RestoredUpTo
  BY DEF RestoredUpTo, InFrameSet
<1> QED BY <1>1, <1>2, TableKept, UncheckedKept, SavedKept, StutterMaps

LEMMA FrameSetStep ==
    ASSUME ProperInv,
           FrameSetCheck \/ FrameSetFail \/ FrameSetOccupy \/ FrameSetDerive
    PROVE  TableStep
<1>0. TypeOK /\ main \in MainStates /\ main.slot \in Slots
  BY ProperFacts
<1> PICK m \in Slots : m = main.slot  BY <1>0
<1>1. CASE FrameSetCheck
  <2>1. /\ UNCHANGED <<ftype, flen, queue, nvm, writes>> /\ main.at = "check"
        /\ (main' = Idle \/ (main'.slot = m /\ main'.at \in {"fail", "occupy"}))
    BY <1>1, CheckDoes
  <2>2. \A s \in Slots : TableOf(s)' = TableOf(s)  BY <2>1, SameTable
  <2>3. InFrameSet(m)  BY <2>1 DEF InFrameSet
  <2>4. CASE main' = Idle  BY <2>1, <2>2, <2>3, <2>4, EndMaps
  <2>5. CASE main'.slot = m /\ main'.at \in {"fail", "occupy"}
    <3>1. InFrameSet(m)'  BY <2>5 DEF InFrameSet
    <3> QED BY <2>1, <2>2, <2>3, <3>1, WithinStep
  <2> QED BY <2>1, <2>4, <2>5
<1>2. CASE FrameSetOccupy \/ FrameSetDerive
  <2>1. /\ UNCHANGED <<ftype, flen, queue, nvm, writes>>
        /\ InFrameSet(m) /\ InFrameSet(m)'
    BY <1>0, <1>2 DEF FrameSetOccupy, FrameSetDerive, Running, Unchanging, MainStates,
                      InFrameSet
  <2>2. \A s \in Slots : TableOf(s)' = TableOf(s)  BY <2>1, SameTable
  <2> QED BY <2>1, <2>2, WithinStep
<1>3. CASE FrameSetFail
  <2>1. /\ UNCHANGED <<ftype, queue, nvm, writes>> /\ main' = Idle /\ InFrameSet(m)
        /\ flen'[m] = 0 /\ \A s \in Slots : s # m => flen'[s] = flen[s]
    BY <1>0, <1>3 DEF FrameSetFail, Running, Unchanging, TypeOK, InFrameSet
  <2>2. TableNow' = [TableNow EXCEPT ![m] = "EMPTY"]
    <3>1. TableOf(m)' = "EMPTY"  BY <2>1 DEF TableOf, Content, Configured
    <3>2. \A s \in Slots : s # m => TableOf(s)' = TableOf(s)  BY <2>1, SameTable
    <3> QED BY <3>1, <3>2 DEF TableNow
  <2>3. \A s \in Slots : s # m => (SetPending(s)' <=> SetPending(s))
    BY <2>1 DEF SetPending, InFrameSet, Idle, Queued
  <2>4. SetPending(m) /\ m \in Unchecked  BY <2>1 DEF SetPending, Unchecked
  <2>5. Unchecked' \in {Unchecked, Unchecked \ {m}}
    <3>1. Unchecked' = IF SetPending(m)' THEN Unchecked \cup {m} ELSE Unchecked \ {m}
      BY <2>3, UncheckedOthers
    <3> QED BY <2>4, <3>1
  <2>6. RestoredUpTo' = RestoredUpTo
    BY <2>1 DEF RestoredUpTo, InFrameSet, Idle
  <2> QED BY <2>1, <2>2, <2>4, <2>5, <2>6, SavedKept, RefuseMaps
<1> QED BY <1>1, <1>2, <1>3

LEMMA ReadyStep == ASSUME ProperInv, EidReady PROVE TableStep
<1>0. TypeOK /\ main \in MainStates /\ main.slot \in Slots
  BY ProperFacts
<1> PICK m \in Slots : m = main.slot  BY <1>0
<1>1. /\ \A r \in Slots : r # m => SameSlot(r)
      /\ ftype[m] = "EID" /\ ftype'[m] = "EID"
      /\ flen[m] # 0 /\ flen'[m] \in {flen[m], ECS_EID_WRITE_ECDH_LENGTH}
      /\ UNCHANGED <<queue, nvm, writes>>
      /\ main.at \in {"ready", "rotate"}
      /\ \/ main'.at = main.at /\ main'.slot = m
         \/ main.at = "ready" /\ main' = Idle
         \/ main.at = "rotate" /\ main'.at \in {"scan", "endtick"}
  BY ReadyDoes
<1>2. ASSUME NEW s \in Slots PROVE TableOf(s)' = TableOf(s)
  <2>1. CASE s = m
    BY <1>1, <2>1 DEF TableOf, Content, Configured, ECS_EID_WRITE_ECDH_LENGTH
  <2>2. CASE s # m
    BY <1>1, <2>2, SameTable DEF SameSlot
  <2> QED BY <2>1, <2>2
<1>3. CASE main.at = "ready"
  <2>1. InFrameSet(m)
    BY <1>3 DEF InFrameSet
  <2>2. CASE main' = Idle  BY <1>1, <1>2, <2>1, <2>2, EndMaps
  <2>3. CASE main'.at = main.at /\ main'.slot = m
    <3>1. InFrameSet(m)'  BY <1>3, <2>3 DEF InFrameSet
    <3> QED BY <1>1, <1>2, <2>1, <3>1, WithinStep
  <2> QED BY <1>1, <1>3, <2>2, <2>3
<1>4. CASE main.at = "rotate"
  <2>1. main'.at \in {"rotate", "scan", "endtick"}
    BY <1>1, <1>4
  <2>2. \A s \in Slots : SetPending(s)' <=> SetPending(s)
    BY <1>1, <1>4, <2>1 DEF SetPending, InFrameSet, Queued
  <2>3. RestoredUpTo' = RestoredUpTo  BY <1>4, <2>1 DEF RestoredUpTo
  <2> QED BY <1>1, <1>2, <2>2, <2>3, TableKept, UncheckedKept, SavedKept, StutterMaps
<1> QED BY <1>1, <1>3, <1>4

LEMMA StepMaps ==
    ASSUME ~Preempt, WellWritten, ProperInv, [Next]_vars PROVE TableStep
<1>0. TypeOK  BY ProperFacts
<1>1. CASE RestoreSlot  BY <1>1, RestoreStep
<1>2. CASE Reset  BY <1>0, <1>2, LossStep
<1>3. ASSUME NEW s \in Slots, NEW w \in Writes, ClientWrite(s, w) PROVE TableStep
  BY <1>0, <1>3, WriteStep
<1>4. CASE Connect \/ TimerTick
  <2>1. UNCHANGED <<nvm, writes>>  BY <1>4 DEF Connect, TimerTick
  <2>2. Idling  BY <1>0, <1>4, TimerDoes
  <2> QED BY <2>1, <2>2, IdlingMaps, SavedKept, StutterMaps
<1>5. CASE Disconnect
  <2>1. writes' = writes  BY <1>5 DEF Disconnect
  <2>2. Idling  BY <1>0, <1>5, TimerDoes
  <2>3. Slots \in SUBSET Slots  OBVIOUS
  <2> QED BY <1>0, <1>5, <2>1, <2>2, <2>3, IdlingMaps, DisconnectStores, StoreMaps
<1>6. CASE FrameSetStart  BY <1>0, <1>6, StartStep
<1>7. CASE FrameSetCheck \/ FrameSetFail \/ FrameSetOccupy \/ FrameSetDerive
  BY <1>7, FrameSetStep
<1>8. CASE EidReady  BY <1>8, ReadyStep
<1>9. CASE TickStart \/ TickScan \/ TickEnd
  <2>1. Idling /\ writes' = writes /\ (TickEnd \/ nvm' = nvm)
    BY <1>0, <1>9, ScanDoes
  <2>2. CASE TickEnd
    <3>1. PICK S \in SUBSET Slots :
              SavedNow' = [s \in Slots |-> IF s \in S THEN TableNow[s] ELSE SavedNow[s]]
      BY <1>0, <2>2, TickEndStores
    <3> QED BY <2>1, <3>1, IdlingMaps, StoreMaps
  <2>3. CASE nvm' = nvm
    BY <2>1, <2>3, IdlingMaps, SavedKept, StutterMaps
  <2> QED BY <2>1, <2>2, <2>3
<1>10. CASE UNCHANGED vars
  BY <1>10 DEF vars, TableStep, Table!vars, Content, Configured, Restored, SetPending,
               Queued, InFrameSet
<1> QED
  BY <1>1, <1>2, <1>3, <1>4, <1>5, <1>6, <1>7, <1>8, <1>9, <1>10
     DEF Next, Interrupt, MainLoop, PowerLoss, ErrorReset

LEMMA InitMaps == Init => Table!Init
<1> SUFFICES ASSUME Init PROVE Table!Init  OBVIOUS
<1>1. /\ main.at = "boot" /\ main.slot = 0 /\ queue = <<>> /\ writes = 0
      /\ nvm = FactoryNvm /\ \A s \in Slots : ftype[s] = "UID" /\ flen[s] = 0
  BY DEF Init, Idle
<1>2. TableNow = [s \in Slots |-> "EMPTY"]
  <2>1. \A s \in Slots : TableOf(s) = "EMPTY"
    BY <1>1 DEF TableOf, Content, Configured
  <2> QED BY <2>1 DEF TableNow
<1>3. SavedNow = [s \in Slots |-> IF s = 0 THEN "URL" ELSE "EMPTY"]
  <2>1. \A s \in Slots : SavedOf(s) = IF s = 0 THEN "URL" ELSE "EMPTY"
    BY <1>1 DEF SavedOf, Restored, FactoryNvm, NoConfig, Content, Configured
  <2> QED BY <2>1 DEF SavedNow
<1>4. Unchecked = {}
  <2>1. \A s \in Slots : ~SetPending(s)
    BY <1>1 DEF SetPending, Queued, InFrameSet
  <2> QED BY <2>1 DEF Unchecked
<1>5. RestoredUpTo = 0  BY <1>1 DEF RestoredUpTo
<1> QED
  BY <1>1, <1>2, <1>3, <1>4, <1>5
     DEF Table!Init, Table!Slots, Slots, TableNow, SavedNow, Unchecked, RestoredUpTo,
         TableOf, SavedOf

LEMMA AlwaysProper == ASSUME ~Preempt, WellWritten PROVE Spec => []ProperInv
<1>1. ProperInv /\ [Next]_vars => ProperInv'
  <2> SUFFICES ASSUME ProperInv, [Next]_vars PROVE ProperInv'  OBVIOUS
  <2>1. TypeOK'  BY NextType DEF ProperInv
  <2>2. MainProper' /\ \A s \in Slots : EidProper(s)'  BY ProperNext
  <2> QED BY <2>1, <2>2 DEF ProperInv
<1> QED BY <1>1, ProperInit, PTL DEF Spec

\* eddystone_adv_slot.c implements the table of slots that only its client
\* changes: as long as no client event preempts a main loop handler and EIDs are
\* written with a proper length, no frame_set, rotation or store changes what a
\* slot is, a refused write leaves its slot empty, and power loss brings back
\* what was stored (README.md:37).
THEOREM ImplementsTable ==
    ASSUME ~Preempt, WellWritten PROVE Spec => ImplementsSlotTable
<1>1. ProperInv /\ [Next]_vars => [Table!Next]_(Table!vars)
  BY StepMaps DEF TableStep
<1> QED BY <1>1, InitMaps, AlwaysProper, PTL DEF Spec, ImplementsSlotTable, Table!Spec

\* What SlotTable allows: a slot's contents change by a write or a restore, or
\* the slot becomes empty.
LEMMA TableChanges ==
    ASSUME TableStep, NEW s \in Slots
    PROVE  \/ TableNow'[s] = TableNow[s] \/ TableNow'[s] = "EMPTY"
           \/ writes' = writes + 1 \/ RestoredUpTo # NumSlots
<1>d. DOMAIN TableNow = Slots  BY DEF TableNow
<1>1. CASE Table!Restore
  <2>1. RestoredUpTo # NumSlots
    BY <1>1 DEF Table!Restore, Table!Up, RestoredUpTo
  <2> QED BY <2>1
<1>2. ASSUME NEW r \in Slots, Table!Write(r) PROVE writes' = writes + 1
  BY <1>2 DEF Table!Write
<1>3. ASSUME NEW r \in Slots, Table!Refuse(r)
      PROVE  TableNow'[s] = TableNow[s] \/ TableNow'[s] = "EMPTY"
  <2>1. TableNow' = [TableNow EXCEPT ![r] = "EMPTY"]
    BY <1>3 DEF Table!Refuse, TableNow, TableOf
  <2> QED BY <1>d, <2>1
<1>4. ASSUME NEW r \in Slots, Table!Accept(r) PROVE TableNow' = TableNow
  BY <1>4 DEF Table!Accept, TableNow, TableOf
<1>5. ASSUME NEW S \in SUBSET Slots, Table!Store(S) PROVE TableNow' = TableNow
  BY <1>5 DEF Table!Store, TableNow, TableOf
<1>6. CASE Table!PowerLoss
  <2>1. TableNow' = [r \in Slots |-> "EMPTY"]
    BY <1>6 DEF Table!PowerLoss, Table!Slots, Slots, TableNow, TableOf
  <2> QED BY <2>1
<1>7. CASE UNCHANGED Table!vars
  <2>1. TableNow' = TableNow
    BY <1>7 DEF Table!vars, TableNow, TableOf
  <2> QED BY <2>1
<1> QED
  BY <1>1, <1>2, <1>3, <1>4, <1>5, <1>6, <1>7 DEF TableStep, Table!Next, Table!Slots, Slots

LEMMA EmptyStays ==
    ASSUME TypeOK, TypeOK', TableStep, NEW s \in Slots,
           ~IsConfigured(s), IsConfigured(s)'
    PROVE  writes' # writes \/ main.at = "boot"
<1>1. TableNow[s] = "EMPTY"
  BY DEF TableNow, TableOf, Content, IsConfigured
<1>2. TableNow'[s] = ftype'[s]
  <2>1. TableOf(s)' = ftype'[s]  BY DEF TableOf, Content, IsConfigured
  <2> QED BY <2>1 DEF TableNow
<1>3. ftype'[s] # "EMPTY"
  BY DEF TypeOK, FrameTypes
<1>4. writes' = writes + 1 \/ RestoredUpTo # NumSlots
  BY <1>1, <1>2, <1>3, TableChanges
<1>5. writes \in Int  BY BoundsAssumption DEF TypeOK
<1> QED BY <1>4, <1>5 DEF RestoredUpTo

\* It follows that a slot the client has cleared, or whose write frame_set has
\* refused (eddystone_adv_slot.c:511), is not revived by a rotation or by the
\* end of an exchange.
THEOREM ClearedSlotsStayCleared ==
    ASSUME ~Preempt, WellWritten PROVE Spec => ClearedStaysCleared
<1>1. ProperInv /\ TypeOK' /\ [Next]_vars =>
          [\A s \in Slots : ~IsConfigured(s) /\ IsConfigured(s)'
               => writes' # writes \/ main.at = "boot"]_vars
  BY StepMaps, EmptyStays, ProperFacts
<1> QED BY <1>1, AlwaysProper, TypeCorrect, PTL DEF Spec, ClearedStaysCleared
=============================================================================
