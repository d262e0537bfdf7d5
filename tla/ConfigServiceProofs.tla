------------------------ MODULE ConfigServiceProofs ------------------------
(***************************************************************************)
(* ConfigService for every number of slots, set of powers, contents of     *)
(* flash and of the stack, and bound.                                      *)
(***************************************************************************)
EXTENDS ConfigService, TLAPS

USE NumSlotsAssumption

-----------------------------------------------------------------------------
(* Types                                                                     *)

LEMMA IdleType == Idle \in MainStates
<1>1. (CHOOSE p \in Powers : TRUE) \in Powers  BY PowersAssumption
<1> QED  BY <1>1 DEF Idle, MainStates, Positions, Slots, Types

\* Power up leaves SlotPower's variables in their types.
LEMMA PowerInitType == PowerInit => PowerTypeOK
<1> SUFFICES ASSUME PowerInit PROVE PowerTypeOK OBVIOUS
<1>1. /\ type \in [Slots -> Types] /\ len \in [Slots -> Lengths]
      /\ power \in [Slots -> Powers]
  BY BootsAssumption DEF PowerInit, PossibleBoots, Lengths
<1>2. /\ occupied \in [Slots -> BOOLEAN] /\ frame \in [Slots -> Types]
      /\ second \in [Slots -> Bytes]
      /\ overtaken \in [Slots -> BOOLEAN] /\ revived \in [Slots -> BOOLEAN]
  BY <1>1 DEF PowerInit, Types, Bytes
<1>3. queue \in Seq(Slots)
  <2>1. PICK n \in 0 .. NumSlots : queue \in [1 .. n -> Slots]  BY DEF PowerInit
  <2> QED  BY <2>1
<1> QED  BY <1>1, <1>2, <1>3, IdleType DEF PowerInit, PowerTypeOK

\* The byte that is stored is one.
LEMMA RangingType ==
    ASSUME PowerTypeOK, NEW s \in Slots, NEW p \in Powers
    PROVE  Ranging(s, p) \in [Slots -> Bytes]
BY DEF PowerTypeOK, Ranging, Bytes

\* A client's power.
LEMMA SetRadioTxPwrType ==
    ASSUME PowerTypeOK, NEW s \in Slots, NEW p, SetRadioTxPwr(s, p)
    PROVE  PowerTypeOK'
<1>1. power' \in [Slots -> Powers] /\ power'[s] \in Powers
  BY DEF PowerTypeOK, SetRadioTxPwr
<1>2. second' \in [Slots -> Bytes]
  BY <1>1, RangingType DEF SetRadioTxPwr
<1>3. overtaken' \in [Slots -> BOOLEAN]
  BY DEF PowerTypeOK, SetRadioTxPwr, Overtakes
<1> QED  BY <1>1, <1>2, <1>3 DEF PowerTypeOK, SetRadioTxPwr

\* A client's frame.
LEMMA SetRwAdvDataType ==
    ASSUME PowerTypeOK, NEW s \in Slots, NEW t \in Types, NEW l \in Lengths,
           SetRwAdvData(s, t, l)
    PROVE  PowerTypeOK'
<1>1. /\ type' \in [Slots -> Types] /\ len' \in [Slots -> Lengths]
      /\ occupied' \in [Slots -> BOOLEAN]
  BY DEF PowerTypeOK, SetRwAdvData
<1>2. queue' \in Seq(Slots)
  BY DEF PowerTypeOK, SetRwAdvData
<1>3. revived' \in [Slots -> BOOLEAN]
  BY DEF PowerTypeOK, SetRwAdvData, Revives, InsideEidReady
<1> QED  BY <1>1, <1>2, <1>3 DEF PowerTypeOK, SetRwAdvData

\* main takes the power of a slot.
LEMMA TakePowerType ==
    ASSUME PowerTypeOK, NEW p \in Positions, NEW s \in Slots, NEW t \in Types,
           TakePower(p, s, t)
    PROVE  main' \in MainStates /\ overtaken' \in [Slots -> BOOLEAN]
BY DEF PowerTypeOK, TakePower, MainStates

\* A rotation, and the stores of eid_ready.
LEMMA RotateType == ASSUME PowerTypeOK, NEW s \in Slots, Rotate(s) PROVE PowerTypeOK'
<1>1. main' \in MainStates
  BY DEF Rotate, PowerTypeOK, MainStates, Positions, Types
<1> QED  BY <1>1 DEF Rotate, PowerTypeOK, slotVars

LEMMA EidReadyTypes == ASSUME PowerTypeOK, EidReady PROVE PowerTypeOK'
<1>1. main \in MainStates /\ main.slot \in Slots /\ main.arg \in Powers
  BY DEF PowerTypeOK, MainStates
<1>2. CASE EidReadyType
  <2>1. type' \in [Slots -> Types] /\ main' \in MainStates
    BY <1>1, <1>2 DEF EidReadyType, PowerTypeOK, MainStates, Positions, Types
  <2> QED  BY <1>2, <2>1 DEF EidReadyType, PowerTypeOK
<1>3. CASE EidReadyFrame
  <2>1. frame' \in [Slots -> Types] /\ main' \in MainStates
    BY <1>1, <1>3 DEF EidReadyFrame, PowerTypeOK, MainStates, Positions, Types
  <2> QED  BY <1>3, <2>1 DEF EidReadyFrame, PowerTypeOK
<1>4. CASE EidReadyLength
  <2>1. len' \in [Slots -> Lengths] /\ main' \in MainStates
    BY <1>1, <1>4 DEF EidReadyLength, PowerTypeOK, MainStates, Positions, Lengths
  <2> QED  BY <1>4, <2>1 DEF EidReadyLength, PowerTypeOK
<1>5. CASE EidReadyPower
  <2>1. main' \in MainStates /\ overtaken' \in [Slots -> BOOLEAN]
    BY <1>1, <1>5, TakePowerType DEF EidReadyPower, Positions, Types
  <2> QED  BY <1>5, <2>1 DEF EidReadyPower, PowerTypeOK
<1>6. CASE RotateStore
  <2>1. second' \in [Slots -> Bytes]
    BY <1>1, <1>6, RangingType DEF RotateStore
  <2> QED  BY <1>6, <2>1, IdleType DEF PowerTypeOK, RotateStore
<1> QED  BY <1>2, <1>3, <1>4, <1>5, <1>6 DEF EidReady

\* The parts of main's handlers.
LEMMA BuildType == ASSUME PowerTypeOK, Build PROVE PowerTypeOK'
<1>1. ASSUME BuildAtOnce PROVE PowerTypeOK'
  <2>1. Head(queue) \in Slots /\ Tail(queue) \in Seq(Slots)
    BY <1>1 DEF PowerTypeOK, BuildAtOnce
  <2>2. /\ frame' \in [Slots -> Types] /\ second' \in [Slots -> Bytes]
        /\ len' \in [Slots -> Lengths]
    BY <1>1, <2>1 DEF PowerTypeOK, BuildAtOnce, Types, Bytes, Lengths
  <2> QED  BY <1>1, <2>1, <2>2 DEF PowerTypeOK, BuildAtOnce
<1>2. ASSUME BuildStart PROVE PowerTypeOK'
  <2>1. Head(queue) \in Slots /\ Tail(queue) \in Seq(Slots)
    BY <1>2 DEF PowerTypeOK, BuildStart
  <2>2. type[Head(queue)] \in Types  BY <2>1 DEF PowerTypeOK
  <2>3. /\ main' \in MainStates /\ overtaken' \in [Slots -> BOOLEAN]
    BY <1>2, <2>1, <2>2, TakePowerType DEF BuildStart, Positions
  <2>4. frame' \in [Slots -> Types]
    BY <1>2, <2>1 DEF PowerTypeOK, BuildStart, Types
  <2> QED  BY <1>2, <2>1, <2>3, <2>4 DEF PowerTypeOK, BuildStart
<1>3. ASSUME BuildStore PROVE PowerTypeOK'
  <2>1. main \in MainStates /\ main.slot \in Slots /\ main.arg \in Powers
    BY DEF PowerTypeOK, MainStates
  <2>2. second' \in [Slots -> Bytes]
    BY <1>3, <2>1, RangingType DEF BuildStore
  <2>3. /\ frame' \in [Slots -> Types] /\ len' \in [Slots -> Lengths]
    BY <1>3, <2>1 DEF PowerTypeOK, BuildStore, FitsEid, Types, Lengths
  <2>4. main' \in MainStates
    BY <1>3, <2>1, IdleType DEF BuildStore, MainStates, Positions
  <2> QED  BY <1>3, <2>2, <2>3, <2>4 DEF PowerTypeOK, BuildStore
<1>4. ASSUME Occupy PROVE PowerTypeOK'
  <2>1. main' \in MainStates /\ occupied' \in [Slots -> BOOLEAN]
    BY <1>4 DEF Occupy, PowerTypeOK, MainStates, Positions
  <2> QED  BY <1>4, <2>1 DEF Occupy, PowerTypeOK
<1> QED  BY <1>1, <1>2, <1>3, <1>4, EidReadyTypes DEF Build

\* What a behaviour leaves of the variables of the service.
LEMMA ServiceStutter ==
    ASSUME TypeOK, PowerTypeOK', UNCHANGED serviceVars PROVE TypeOK'
<1> /\ connected' = connected /\ lock' = lock /\ active' = active
    /\ prepared' = prepared /\ sending' = sending /\ value' = value /\ holds' = holds
    /\ replies' = replies /\ last' = last /\ writes' = writes
  BY DEF serviceVars
<1> QED  BY DEF TypeOK

LEMMA NothingType ==
    /\ 0 \in Numbers /\ Missing \in Contents /\ Nothing \in Sent /\ NoParts \in Prepared
BY MaxWritesAssumption DEF Numbers, Missing, Contents, Nothing, Sent, NoParts, Prepared, Types

LEMMA InitType == Init => TypeOK
<1> SUFFICES ASSUME Init PROVE TypeOK OBVIOUS
<1>1. PowerTypeOK  BY PowerInitType DEF Init
<1>2. connected \in BOOLEAN /\ lock = "LOCKED" /\ active = 0 /\ replies = 1
  BY Zenon DEF Init
<1>3. prepared \in Prepared /\ value \in Values /\ sending \in Sent
  BY NothingType DEF Init, Values, Types
<1>4. /\ holds \in [Slots -> Contents] /\ last \in [Slots -> Sent]
      /\ writes \in Numbers
  BY NothingType DEF Init
<1>5. lock \in LockValues /\ active \in Slots /\ replies \in 0 .. 2
  BY <1>2 DEF LockValues, Slots
<1> QED  BY <1>1, <1>2, <1>3, <1>4, <1>5 DEF TypeOK

\* A request that leaves power and frames alone.
LEMMA PowerStutter == ASSUME PowerTypeOK, UNCHANGED powerVars PROVE PowerTypeOK'
BY DEF PowerTypeOK, powerVars, slotVars

LEMMA ReplyType ==
    ASSUME NEW n \in 0 .. 2, TypeOK, Reply(n)
    PROVE  replies' \in 0 .. 2 /\ connected' \in BOOLEAN
BY DEF Reply, TypeOK

LEMMA HandlerRepliesType == ASSUME NEW e PROVE HandlerReplies(e) \in 0 .. 2
BY DEF HandlerReplies

\* The value an execution takes, and the one the SoftDevice writes.
LEMMA WrittenType ==
    ASSUME TypeOK PROVE Written \in Values /\ Written.type \in Types
BY DEF TypeOK, Written, Values, Prepared

\* One more number.
LEMMA NumberType == ASSUME TypeOK, writes < MaxWrites PROVE writes + 1 \in Numbers
BY MaxWritesAssumption DEF TypeOK, Numbers

LEMMA ContentsType == ASSUME NEW sent \in Sent PROVE ContentsOf(sent) \in Contents
BY MaxWritesAssumption DEF Sent, ContentsOf, Contents, Numbers

LEMMA WriteType == ASSUME TypeOK, Write PROVE TypeOK'
<1>1. ASSUME NEW c, Writes(c)
      PROVE  replies' \in 0 .. 2 /\ connected' \in BOOLEAN
  BY <1>1, ReplyType, HandlerRepliesType DEF Writes
<1>2. ASSUME NEW n \in 0 .. NumSlots, WriteActiveSlot(n) PROVE TypeOK'
  <2>1. active' \in Slots  BY <1>2 DEF WriteActiveSlot, Slots
  <2> QED
    BY <1>1, <1>2, <2>1, PowerStutter DEF WriteActiveSlot, TypeOK, longVars, valueVars
<1>3. ASSUME NEW p, WriteRadioTxPwr(p) PROVE TypeOK'
  <2>1. PowerTypeOK'
    BY <1>3, SetRadioTxPwrType DEF WriteRadioTxPwr, TypeOK
  <2>2. writes' \in Numbers
    BY <1>3, NumberType DEF WriteRadioTxPwr
  <2> QED  BY <1>1, <1>3, <2>1, <2>2 DEF WriteRadioTxPwr, TypeOK, longVars, valueVars
<1>4. ASSUME NEW w \in LockWrites, WriteLockState(w) PROVE TypeOK'
  <2>1. lock' \in LockValues
    BY <1>4 DEF WriteLockState, LockValues, LockWrites
  <2> QED
    BY <1>1, <1>4, <2>1, PowerStutter DEF WriteLockState, TypeOK, longVars, valueVars
<1>5. ASSUME NEW m \in BOOLEAN, WriteUnlock(m) PROVE TypeOK'
  <2>1. lock' \in LockValues  BY <1>5 DEF WriteUnlock, TypeOK, LockValues
  <2> QED
    BY <1>1, <1>5, <2>1, PowerStutter DEF WriteUnlock, TypeOK, longVars, valueVars
<1>6. ASSUME NEW t \in Types, NEW l \in Lengths, WriteRwAdvSlot(t, l) PROVE TypeOK'
  <2>1. PowerTypeOK' /\ active \in Slots
    BY <1>6, SetRwAdvDataType DEF WriteRwAdvSlot, TypeOK
  <2>2. writes' \in Numbers /\ writes' = writes + 1
    BY <1>6, NumberType DEF WriteRwAdvSlot
  <2>3. Plain(writes + 1) \in Sent /\ ContentsOf(Plain(writes + 1)) \in Contents
    BY <2>2, ContentsType DEF Plain, Sent
  <2>4. /\ value' \in Values
        /\ holds' \in [Slots -> Contents] /\ last' \in [Slots -> Sent]
    <3>1. value' = [type |-> t, contents |-> ContentsOf(Plain(writes + 1))]
      BY <1>6 DEF WriteRwAdvSlot
    <3>2. value' \in Values /\ value'.contents \in Contents
      BY <2>3, <3>1 DEF Values
    <3>3. CASE HasContents(t, l)
      <4>1. /\ holds' = [holds EXCEPT ![active] = value'.contents]
            /\ last' = [last EXCEPT ![active] = Plain(writes + 1)]
        BY <1>6, <3>3 DEF WriteRwAdvSlot, Copies
      <4> QED  BY <4>1, <2>1, <2>3, <3>2 DEF TypeOK
    <3>4. CASE ~HasContents(t, l)
      BY <1>6, <3>2, <3>4 DEF WriteRwAdvSlot, TypeOK
    <3> QED  BY <3>3, <3>4
  <2>5. replies' \in 0 .. 2 /\ connected' \in BOOLEAN
    BY <1>1, <1>6 DEF WriteRwAdvSlot
  <2>6. UNCHANGED <<lock, active, longVars>>  BY <1>6 DEF WriteRwAdvSlot
  <2> QED  BY <2>1, <2>2, <2>4, <2>5, <2>6 DEF TypeOK, longVars
<1>7. ASSUME NEW c \in Chars, WriteOther(c) PROVE TypeOK'
  BY <1>1, <1>7, PowerStutter DEF WriteOther, TypeOK, longVars, valueVars
<1>8. ASSUME NEW c, NEW op, DeniedWrite(c, op) PROVE TypeOK'
  <2>1. replies' \in 0 .. 2 /\ connected' \in BOOLEAN
    BY <1>8, ReplyType, HandlerRepliesType DEF DeniedWrite
  <2> QED  BY <1>8, <2>1, PowerStutter DEF DeniedWrite, TypeOK, longVars, valueVars
<1> QED  BY <1>2, <1>3, <1>4, <1>5, <1>6, <1>7, <1>8 DEF Write

LEMMA LongWriteType == ASSUME TypeOK, LongWrite PROVE TypeOK'
<1>1. ASSUME NEW c \in PrepareChars, NEW t \in Types, Prepare(c, t) PROVE TypeOK'
  <2>1. replies' \in 0 .. 2 /\ connected' \in BOOLEAN
    BY <1>1, ReplyType DEF Prepare, LongReplies
  <2>2. /\ sending \in Sent /\ prepared \in Prepared
        /\ sending.number \in Numbers /\ sending.parts \in 0 .. 1
    BY <1>1 DEF Prepare, TypeOK, Sent
  <2>3. NextPart \in Sent /\ writes' \in Numbers
    <3>1. CASE sending.parts = 0
      BY <1>1, <3>1, NumberType DEF Prepare, NextPart, Sent
    <3>2. CASE sending.parts # 0
      BY <1>1, <2>2, <3>2 DEF Prepare, NextPart, Sent, TypeOK
    <3> QED  BY <3>1, <3>2
  <2>4. prepared' \in Prepared
    <3>1. NextPart.number \in Numbers  BY <2>3 DEF Sent
    <3>2. prepared'.contents \in Contents
      BY <1>1, <2>2, <3>1, NothingType DEF Prepare, Prepared, Contents
    <3> QED  BY <1>1, <3>2 DEF Prepare, Prepared
  <2> QED  BY <1>1, <2>1, <2>3, <2>4, PowerStutter DEF Prepare, TypeOK, valueVars
<1>2. ASSUME NEW c, NEW op, DeniedWrite(c, op) PROVE TypeOK'
  <2>1. replies' \in 0 .. 2 /\ connected' \in BOOLEAN
    BY <1>2, ReplyType, HandlerRepliesType DEF DeniedWrite
  <2> QED  BY <1>2, <2>1, PowerStutter DEF DeniedWrite, TypeOK, longVars, valueVars
<1>4. ASSUME Execute PROVE TypeOK'
  <2>1. replies' \in 0 .. 2 /\ connected' \in BOOLEAN
    BY <1>4, ReplyType DEF Execute, ExecuteValue, LongReplies
  <2>2. Written \in Values /\ Written.contents \in Contents
    BY WrittenType DEF Values
  <2>3. Written.type \in Types /\ active \in Slots
    BY WrittenType DEF TypeOK
  <2>4. PowerTypeOK'
    <3> DEFINE l == IF Written.type = "EID" THEN "right" ELSE "wrong"
    <3>1. l \in Lengths  BY DEF Lengths
    <3>2. SetRwAdvData(active, Written.type, l)
      BY <1>4 DEF Execute, ExecuteValue
    <3> HIDE DEF l
    <3> QED  BY <2>3, <3>1, <3>2, SetRwAdvDataType DEF TypeOK
  <2>5. holds' \in [Slots -> Contents] /\ last' \in [Slots -> Sent]
    BY <1>4, <2>2, <2>3 DEF Execute, ExecuteValue, Copies, TypeOK
  <2>6. prepared' \in Prepared /\ sending' \in Sent
    BY <1>4, NothingType DEF Execute, ExecuteValue, NoLongWrite
  <2> QED
    BY <1>4, <2>1, <2>2, <2>4, <2>5, <2>6 DEF Execute, ExecuteValue, TypeOK
<1>5. ASSUME DeniedExecute PROVE TypeOK'
  <2>1. replies' \in 0 .. 2 /\ connected' \in BOOLEAN
    BY <1>5, ReplyType, HandlerRepliesType DEF DeniedExecute
  <2> QED
    BY <1>5, <2>1, NothingType, PowerStutter
       DEF DeniedExecute, NoLongWrite, TypeOK, valueVars
<1>6. ASSUME Cancel PROVE TypeOK'
  <2>1. replies' \in 0 .. 2 /\ connected' \in BOOLEAN
    BY <1>6, ReplyType, HandlerRepliesType DEF Cancel
  <2> QED
    BY <1>6, <2>1, NothingType, PowerStutter DEF Cancel, NoLongWrite, TypeOK, valueVars
<1> QED  BY <1>1, <1>2, <1>4, <1>5, <1>6 DEF LongWrite

LEMMA NextType == TypeOK /\ [Next]_vars => TypeOK'
<1> SUFFICES ASSUME TypeOK, [Next]_vars PROVE TypeOK' OBVIOUS
<1>1. ASSUME Connect PROVE TypeOK'
  <2>1. active' \in Slots  BY <1>1 DEF Connect, Slots
  <2> QED  BY <1>1, <2>1, PowerStutter DEF Connect, TypeOK, longVars, valueVars
<1>2. ASSUME Disconnect PROVE TypeOK'
  <2>1. lock' \in LockValues  BY <1>2 DEF Disconnect, TypeOK, LockValues
  <2>2. prepared' \in Prepared /\ sending' \in Sent
    <3>1. NoLongWrite  BY <1>2, Zenon DEF Disconnect
    <3> QED  BY <3>1, NothingType DEF NoLongWrite
  <2>3. /\ connected' \in BOOLEAN /\ replies' = 1
        /\ UNCHANGED <<active, valueVars, writes>>
    BY <1>2, Zenon DEF Disconnect
  <2>4. PowerTypeOK'  BY <1>2, PowerStutter DEF Disconnect, TypeOK
  <2>5. /\ replies' \in 0 .. 2 /\ active' \in Slots
        /\ value' = value /\ holds' = holds /\ last' = last /\ writes' = writes
    BY <2>3 DEF TypeOK, longVars, valueVars
  <2> QED  BY <2>1, <2>2, <2>3, <2>4, <2>5 DEF TypeOK
<1>3. ASSUME NEW c \in Chars, Read(c) PROVE TypeOK'
  <2>1. replies' \in 0 .. 2 /\ connected' \in BOOLEAN
    BY <1>3, ReplyType, HandlerRepliesType DEF Read
  <2> QED  BY <1>3, <2>1, PowerStutter DEF Read, TypeOK, longVars, valueVars
<1>4. ASSUME MainLoop PROVE TypeOK'
  <2>1. PowerTypeOK'
    BY <1>4, BuildType, RotateType DEF MainLoop, BuildFrames, RotateEid, TypeOK
  <2> QED  BY <1>4, <2>1, ServiceStutter DEF MainLoop, BuildFrames, RotateEid
<1>5. ASSUME UNCHANGED vars PROVE TypeOK'
  BY <1>5, PowerStutter, ServiceStutter DEF vars, TypeOK
<1> QED
  BY <1>1, <1>2, <1>3, <1>4, <1>5, WriteType, LongWriteType DEF Next, Interrupt

\* Every variable has its type.
THEOREM TypeCorrect == Spec => []TypeOK
<1> QED  BY InitType, NextType, PTL DEF Spec

-----------------------------------------------------------------------------
(* Replies                                                                   *)

\* A characteristic the program is asked about has a branch in on_write ...
LEMMA WriteHasEvent ==
    \A c \in Chars : Service[c].write => WriteEvent(c, "write") # "none"
<1> SUFFICES ASSUME NEW c \in Chars, Service[c].write
             PROVE  c \in {"active_slot", "adv_intrvl", "radio_tx_pwr", "adv_tx_pwr",
                           "lock_state", "unlock", "rw_adv_slot", "factory_reset",
                           "remain_cnntbl"}
  BY DEF WriteEvent
<1> QED
  BY DEF Chars, Service, Characteristic, brdcst_cap, pub_ecdh_key, eid_id_key

\* ... and in on_read.
LEMMA ReadHasEvent ==
    \A c \in Chars : Service[c].read /\ Service[c].rd_auth => ReadEvent(c) # "none"
<1> SUFFICES ASSUME NEW c \in Chars, Service[c].read, Service[c].rd_auth
             PROVE  c \notin {"lock_state", "factory_reset", "remain_cnntbl"}
  BY DEF ReadEvent, Chars, Service
<1> QED
  BY DEF Chars, Service, Characteristic, lock_state, factory_reset, remain_cnntbl

\* A long write in progress is one of a characteristic that has no plain branch.
LEMMA PreparedEvent ==
    ASSUME TypeOK, prepared.char # "none"
    PROVE  WriteEvent(prepared.char, "execute") = "execute"
<1>1. prepared.char \in PrepareChars  BY DEF TypeOK, Prepared
<1> QED  BY <1>1, PrepareCharsAssumption DEF WriteEvent

\* One request, one reply.
LEMMA NextReplies ==
    ASSUME TypeOK, OneReply, ~CancelsAsked, [Next]_vars PROVE OneReply'
<1>1. CASE Connect  BY <1>1 DEF Connect, OneReply
<1>2. CASE Disconnect  BY <1>2, Zenon DEF Disconnect, OneReply
<1>3. ASSUME NEW c \in Chars, Read(c) PROVE OneReply'
  BY <1>3, ReadHasEvent DEF Read, Reply, HandlerReplies, OneReply
<1>4. ASSUME NEW c \in Chars, Writes(c) PROVE OneReply'
  BY <1>4, WriteHasEvent DEF Writes, Reply, HandlerReplies, OneReply
<1>5. {"active_slot", "radio_tx_pwr", "lock_state", "unlock", "rw_adv_slot"}
      \subseteq Chars
  BY DEF Chars, Service
<1>6. ASSUME NEW c \in Chars, DeniedWrite(c, "write") PROVE OneReply'
  BY <1>6, WriteHasEvent DEF DeniedWrite, Reply, HandlerReplies, OneReply
<1>7. CASE Write
  BY <1>4, <1>5, <1>6, <1>7
     DEF Write, WriteActiveSlot, WriteRadioTxPwr, WriteLockState, WriteUnlock,
         WriteRwAdvSlot, WriteOther
<1>8. ASSUME NEW c \in PrepareChars, NEW t \in Types, Prepare(c, t) PROVE OneReply'
  BY <1>8 DEF Prepare, Reply, LongReplies, OneReply
<1>9. ASSUME NEW c \in PrepareChars, DeniedWrite(c, "prepare") PROVE OneReply'
  <2>1. WriteEvent(c, "prepare") = "prepare"
    BY PrepareCharsAssumption DEF WriteEvent
  <2> QED  BY <1>9, <2>1 DEF DeniedWrite, Reply, HandlerReplies, OneReply
<1>10. CASE Execute
  BY <1>10 DEF Execute, ExecuteValue, Reply, LongReplies, OneReply
<1>11. CASE DeniedExecute
  BY <1>11, PreparedEvent DEF DeniedExecute, Reply, HandlerReplies, OneReply
<1>12. CASE LongWrite
  <2>1. CASE Cancel  BY <2>1 DEF Cancel, Reply, OneReply
  <2> QED  BY <1>8, <1>9, <1>10, <1>11, <1>12, <2>1 DEF LongWrite
<1>13. CASE MainLoop
  BY <1>13 DEF MainLoop, BuildFrames, RotateEid, serviceVars, OneReply
<1>14. CASE UNCHANGED vars  BY <1>14 DEF vars, serviceVars, OneReply
<1> QED
  BY <1>1, <1>2, <1>3, <1>7, <1>12, <1>13, <1>14 DEF Next, Interrupt

\* If the SoftDevice answers cancellations alone, every request gets exactly one
\* reply (ecs_write_evt_handler, ecs_read_evt_handler, on_write, on_read).
THEOREM EveryRequestIsAnswered == ~CancelsAsked => (Spec => []OneReply)
<1> SUFFICES ASSUME ~CancelsAsked PROVE Spec => []OneReply OBVIOUS
<1>1. Init => OneReply  BY Zenon DEF Init, OneReply
<1>2. TypeOK /\ OneReply /\ [Next]_vars => OneReply'  BY NextReplies
<1> QED  BY <1>1, <1>2, TypeCorrect, PTL DEF Spec

-----------------------------------------------------------------------------
(* Slots                                                                     *)

\* The lock lets through none of the writes that change a power or a frame.
LEMMA LockedStep ==
    ASSUME TypeOK, [Next]_vars, lock = "LOCKED"
    PROVE  UNCHANGED <<power, holds, last>>
<1>1. \A e : (\E u \in Unlocked : LetsThrough(u, e)) => e = "unlock"
  BY DEF Unlocked, LetsThrough
<1>2. WriteEvent("radio_tx_pwr", "write") # "unlock"
      /\ WriteEvent("rw_adv_slot", "write") # "unlock"
  BY DEF WriteEvent
<1>3. CASE Connect  BY <1>3 DEF Connect, powerVars, slotVars, valueVars
<1>4. CASE Disconnect  BY <1>4, Zenon DEF Disconnect, powerVars, slotVars, valueVars
<1>5. ASSUME NEW c \in Chars, Read(c) PROVE UNCHANGED <<power, holds, last>>
  BY <1>5 DEF Read, powerVars, slotVars, valueVars
<1>6. CASE Write
  <2>1. ASSUME NEW p PROVE ~WriteRadioTxPwr(p)
    BY <1>1, <1>2 DEF WriteRadioTxPwr, Writes
  <2>2. ASSUME NEW t, NEW l PROVE ~WriteRwAdvSlot(t, l)
    BY <1>1, <1>2 DEF WriteRwAdvSlot, Writes
  <2>3. ASSUME NEW n, WriteActiveSlot(n) PROVE UNCHANGED <<power, holds, last>>
    BY <2>3 DEF WriteActiveSlot, powerVars, slotVars, valueVars
  <2>4. ASSUME NEW w, WriteLockState(w) PROVE UNCHANGED <<power, holds, last>>
    BY <2>4, Zenon DEF WriteLockState, powerVars, slotVars, valueVars
  <2>5. ASSUME NEW m, WriteUnlock(m) PROVE UNCHANGED <<power, holds, last>>
    BY <2>5 DEF WriteUnlock, powerVars, slotVars, valueVars
  <2>6. ASSUME NEW c, WriteOther(c) \/ DeniedWrite(c, "write")
        PROVE  UNCHANGED <<power, holds, last>>
    BY <2>6 DEF WriteOther, DeniedWrite, powerVars, slotVars, valueVars
  <2> QED  BY <1>6, <2>1, <2>2, <2>3, <2>4, <2>5, <2>6 DEF Write
<1>7. CASE LongWrite
  <2>1. ~Execute
    BY <1>1, PreparedEvent DEF Execute, ExecuteValue
  <2>2. ASSUME NEW c, NEW t, Prepare(c, t) PROVE UNCHANGED <<power, holds, last>>
    BY <2>2 DEF Prepare, powerVars, slotVars, valueVars
  <2>3. ASSUME NEW c, DeniedWrite(c, "prepare") PROVE UNCHANGED <<power, holds, last>>
    BY <2>3 DEF DeniedWrite, powerVars, slotVars, valueVars
  <2>4. ASSUME DeniedExecute \/ Cancel PROVE UNCHANGED <<power, holds, last>>
    BY <2>4 DEF DeniedExecute, Cancel, powerVars, slotVars, valueVars
  <2> QED  BY <1>7, <2>1, <2>2, <2>3, <2>4 DEF LongWrite
<1>8. CASE MainLoop
  <2>1. UNCHANGED <<holds, last>>
    BY <1>8 DEF MainLoop, BuildFrames, RotateEid, serviceVars
  <2>2. UNCHANGED power
    BY <1>8 DEF MainLoop, BuildFrames, RotateEid, Build, BuildAtOnce, BuildStart,
                BuildStore, Occupy, EidReady, EidReadyType, EidReadyFrame,
                EidReadyLength, EidReadyPower, RotateStore, Rotate, slotVars
  <2> QED  BY <2>1, <2>2
<1>9. CASE UNCHANGED vars  BY <1>9 DEF vars, serviceVars, powerVars, slotVars
<1> QED
  BY <1>3, <1>4, <1>5, <1>6, <1>7, <1>8, <1>9 DEF Next, Interrupt

\* A locked beacon keeps its frames and powers (ble_eddystone_is_unlocked and
\* its uses), for any long write and any stack byte of an empty lock state.
THEOREM LockedBeaconKeepsItsSlots == Spec => LockedFreezesSlots
<1>1. TypeOK /\ [Next]_vars
      => [lock = "LOCKED" => UNCHANGED <<power, holds, last>>]_vars
  BY LockedStep
<1> QED  BY <1>1, TypeCorrect, PTL DEF Spec, LockedFreezesSlots

\* What the SoftDevice keeps is what was accepted of the write the client is
\* sending.
PartsAreSent ==
    IF prepared.char = "none" THEN sending = Nothing
    ELSE /\ sending.parts \in {1, 2} /\ prepared.contents = ContentsOf(sending)

LEMMA NextPartsAreSent == ASSUME TypeOK, PartsAreSent, [Next]_vars PROVE PartsAreSent'
<1> USE DEF PartsAreSent
<1>1. ASSUME UNCHANGED longVars PROVE PartsAreSent'
  BY <1>1, Zenon DEF longVars, ContentsOf
<1>2. ASSUME NoLongWrite PROVE PartsAreSent'  BY <1>2 DEF NoLongWrite, NoParts
<1>3. CASE Connect  BY <1>1, <1>3 DEF Connect
<1>4. CASE Disconnect
  <2>1. NoLongWrite  BY <1>4, Zenon DEF Disconnect
  <2> QED  BY <1>2, <2>1
<1>5. ASSUME NEW c \in Chars, Read(c) PROVE PartsAreSent'  BY <1>1, <1>5 DEF Read
<1>6. CASE Write
  <2>1. ASSUME NEW w, WriteLockState(w) PROVE PartsAreSent'
    <3>1. UNCHANGED longVars  BY <2>1, Zenon DEF WriteLockState
    <3> QED  BY <1>1, <3>1
  <2> QED
    BY <1>1, <1>6, <2>1
       DEF Write, WriteActiveSlot, WriteRadioTxPwr, WriteUnlock, WriteRwAdvSlot,
           WriteOther, DeniedWrite
<1>7. ASSUME NEW c \in PrepareChars, NEW t, Prepare(c, t) PROVE PartsAreSent'
  <2>1. c # "none"  BY PrepareCharsAssumption
  <2>2. /\ sending' = NextPart /\ prepared'.char = c
        /\ prepared'.contents = IF prepared.char = "none"
                                THEN [Missing EXCEPT !.head = NextPart.number]
                                ELSE [prepared.contents EXCEPT !.tail = NextPart.number]
        /\ sending.parts < 2 /\ sending \in Sent
    BY <1>7 DEF Prepare, TypeOK
  <2>3. CASE prepared.char = "none"
    <3>1. NextPart = [number |-> writes + 1, parts |-> 1]
      BY <2>3 DEF Nothing, NextPart
    <3>2. prepared'.contents = [head |-> writes + 1, tail |-> 0]
      BY <2>2, <2>3, <3>1 DEF Missing
    <3>3. ContentsOf(sending') = [head |-> writes + 1, tail |-> 0]
      BY <2>2, <3>1 DEF ContentsOf
    <3> QED  BY <2>1, <2>2, <3>1, <3>2, <3>3
  <2>4. CASE prepared.char # "none"
    <3>1. sending.parts = 1  BY <2>2, <2>4
    <3>2. /\ NextPart.number = sending.number /\ NextPart.parts = 2
      BY <2>2, <3>1 DEF NextPart, Sent
    <3>3. prepared.contents = [head |-> sending.number, tail |-> 0]
      BY <2>4, <3>1 DEF ContentsOf
    <3>4. prepared'.contents = [head |-> sending.number, tail |-> sending.number]
      BY <2>2, <2>4, <3>2, <3>3
    <3>5. ContentsOf(sending') = [head |-> sending.number, tail |-> sending.number]
      BY <2>2, <3>2 DEF ContentsOf
    <3> QED  BY <2>1, <2>2, <3>2, <3>4, <3>5
  <2> QED  BY <2>3, <2>4
<1>8. CASE LongWrite
  <2>1. ASSUME NEW c, DeniedWrite(c, "prepare") PROVE PartsAreSent'
    BY <1>1, <2>1 DEF DeniedWrite
  <2>2. ASSUME Execute \/ DeniedExecute \/ Cancel PROVE PartsAreSent'
    BY <1>2, <2>2 DEF Execute, ExecuteValue, DeniedExecute, Cancel
  <2> QED  BY <1>7, <1>8, <2>1, <2>2 DEF LongWrite
<1>9. CASE MainLoop
  BY <1>1, <1>9 DEF MainLoop, BuildFrames, RotateEid, serviceVars, longVars
<1>10. CASE UNCHANGED vars  BY <1>1, <1>10 DEF vars, serviceVars, longVars
<1> QED
  BY <1>3, <1>4, <1>5, <1>6, <1>8, <1>9, <1>10 DEF Next, Interrupt

\* An execution copies the value the SoftDevice has just written.
LEMMA NextHolds ==
    ASSUME TypeOK, PartsAreSent, SlotHoldsItsWrite,
           PrepareChars \subseteq {"rw_adv_slot"}, [Next]_vars
    PROVE  SlotHoldsItsWrite'
<1> USE DEF SlotHoldsItsWrite
<1>1. active \in Slots /\ holds \in [Slots -> Contents] /\ last \in [Slots -> Sent]
  BY DEF TypeOK
<1>2. ASSUME UNCHANGED <<holds, last>> PROVE SlotHoldsItsWrite'
  BY <1>2 DEF ContentsOf
<1>3. ASSUME NEW sent,
             holds' = [holds EXCEPT ![active] = ContentsOf(sent)],
             last' = [last EXCEPT ![active] = sent]
      PROVE  SlotHoldsItsWrite'
  <2>1. ASSUME NEW s \in Slots PROVE holds'[s] = ContentsOf(last'[s])
    <3>1. CASE s = active  BY <1>1, <1>3, <3>1
    <3>2. CASE s # active
      <4>1. holds'[s] = holds[s] /\ last'[s] = last[s]  BY <1>1, <1>3, <3>2
      <4> QED  BY <4>1
    <3> QED  BY <3>1, <3>2
  <2> QED  BY <2>1 DEF ContentsOf
<1>4. CASE Connect  BY <1>2, <1>4 DEF Connect, valueVars
<1>5. CASE Disconnect
  <2>1. UNCHANGED <<holds, last>>  BY <1>5, Zenon DEF Disconnect, valueVars
  <2> QED  BY <1>2, <2>1
<1>6. ASSUME NEW c \in Chars, Read(c) PROVE SlotHoldsItsWrite'
  BY <1>2, <1>6 DEF Read, valueVars
<1>7. CASE Write
  <2>1. ASSUME NEW t, NEW l, WriteRwAdvSlot(t, l) PROVE SlotHoldsItsWrite'
    <3>1. CASE HasContents(t, l)
      <4>1. value' = [type |-> t, contents |-> ContentsOf(Plain(writes + 1))]
        BY <2>1 DEF WriteRwAdvSlot
      <4>2. /\ holds' = [holds EXCEPT ![active] = value'.contents]
            /\ last' = [last EXCEPT ![active] = Plain(writes + 1)]
        BY <2>1, <3>1 DEF WriteRwAdvSlot, Copies
      <4>3. value'.contents = ContentsOf(Plain(writes + 1))  BY <4>1
      <4> QED  BY <1>3, <4>2, <4>3
    <3>2. CASE ~HasContents(t, l)  BY <1>2, <2>1, <3>2 DEF WriteRwAdvSlot
    <3> QED  BY <3>1, <3>2
  <2>2. ASSUME NEW n, WriteActiveSlot(n) PROVE SlotHoldsItsWrite'
    BY <1>2, <2>2 DEF WriteActiveSlot, valueVars
  <2>3. ASSUME NEW w, WriteLockState(w) PROVE SlotHoldsItsWrite'
    <3>1. UNCHANGED <<holds, last>>  BY <2>3, Zenon DEF WriteLockState, valueVars
    <3> QED  BY <1>2, <3>1
  <2>4. ASSUME NEW m, WriteUnlock(m) PROVE SlotHoldsItsWrite'
    BY <1>2, <2>4 DEF WriteUnlock, valueVars
  <2>5. ASSUME NEW c, WriteOther(c) \/ DeniedWrite(c, "write")
        PROVE  SlotHoldsItsWrite'
    BY <1>2, <2>5 DEF WriteOther, DeniedWrite, valueVars
  <2>6. ASSUME NEW p, WriteRadioTxPwr(p) PROVE SlotHoldsItsWrite'
    BY <1>2, <2>6 DEF WriteRadioTxPwr, valueVars
  <2> QED  BY <1>7, <2>1, <2>2, <2>3, <2>4, <2>5, <2>6 DEF Write
<1>8. CASE LongWrite
  <2>1. CASE Execute
    <3>1. prepared.char = "rw_adv_slot"
      BY <2>1 DEF Execute, ExecuteValue, TypeOK, Prepared
    <3>2. Written.contents = ContentsOf(sending)
      BY <3>1 DEF Written, PartsAreSent
    <3>3. /\ holds' = [holds EXCEPT ![active] = Written.contents]
          /\ last' = [last EXCEPT ![active] = sending]
      BY <2>1, <3>1 DEF Execute, ExecuteValue, Copies
    <3> QED  BY <1>3, <3>2, <3>3
  <2>2. ASSUME NEW c, NEW t, Prepare(c, t) PROVE SlotHoldsItsWrite'
    BY <1>2, <2>2 DEF Prepare, valueVars
  <2>3. ASSUME NEW c, DeniedWrite(c, "prepare") PROVE SlotHoldsItsWrite'
    BY <1>2, <2>3 DEF DeniedWrite, valueVars
  <2>4. ASSUME DeniedExecute \/ Cancel PROVE SlotHoldsItsWrite'
    BY <1>2, <2>4 DEF DeniedExecute, Cancel, valueVars
  <2> QED  BY <1>8, <2>1, <2>2, <2>3, <2>4 DEF LongWrite
<1>9. CASE MainLoop
  BY <1>2, <1>9 DEF MainLoop, BuildFrames, RotateEid, serviceVars
<1>10. CASE UNCHANGED vars  BY <1>2, <1>10 DEF vars, serviceVars
<1> QED
  BY <1>4, <1>5, <1>6, <1>7, <1>8, <1>9, <1>10 DEF Next, Interrupt

\* If RW ADV Slot is the only characteristic written in parts, each slot holds
\* what was accepted of the last frame written to it, and nothing of another
\* (long_write_overwrite_flag and the write of RW ADV Slot in
\* eddystone_ble_handler.c).
THEOREM SlotsHoldTheirWrites ==
    PrepareChars \subseteq {"rw_adv_slot"} => (Spec => []SlotHoldsItsWrite)
<1> SUFFICES ASSUME PrepareChars \subseteq {"rw_adv_slot"}
             PROVE  Spec => []SlotHoldsItsWrite
  OBVIOUS
<1>1. Init => PartsAreSent /\ SlotHoldsItsWrite
  <2> SUFFICES ASSUME Init PROVE PartsAreSent /\ SlotHoldsItsWrite OBVIOUS
  <2>1. /\ holds = [s \in Slots |-> Missing] /\ last = [s \in Slots |-> Nothing]
        /\ prepared = NoParts /\ sending = Nothing
    BY Zenon DEF Init
  <2>2. ContentsOf(Nothing) = Missing  BY DEF ContentsOf, Nothing, Missing
  <2> QED  BY <2>1, <2>2 DEF SlotHoldsItsWrite, PartsAreSent, NoParts
<1>2. TypeOK /\ PartsAreSent /\ SlotHoldsItsWrite /\ [Next]_vars
      => PartsAreSent' /\ SlotHoldsItsWrite'
  BY NextPartsAreSent, NextHolds
<1> QED  BY <1>1, <1>2, TypeCorrect, PTL DEF Spec

-----------------------------------------------------------------------------
(* Ranging bytes                                                             *)

\* A frame_set of s waits in q.
In(s, q) == \E i \in 1 .. Len(q) : q[i] = s

LEMMA AppendIn ==
    ASSUME NEW q \in Seq(Slots), NEW a \in Slots, NEW s
    PROVE  In(s, Append(q, a)) <=> In(s, q) \/ s = a
<1>1. /\ Len(Append(q, a)) = Len(q) + 1 /\ Len(q) \in Nat
      /\ \A i \in 1 .. Len(q) : Append(q, a)[i] = q[i]
      /\ Append(q, a)[Len(q) + 1] = a
  OBVIOUS
<1> QED  BY <1>1, SMT DEF In

LEMMA TailIn ==
    ASSUME NEW q \in Seq(Slots), q # <<>>, NEW s
    PROVE  /\ In(s, q) <=> s = Head(q) \/ In(s, Tail(q))
           /\ Head(q) \in Slots
<1>1. /\ Len(Tail(q)) = Len(q) - 1 /\ Len(q) \in Nat \ {0}
      /\ \A i \in 1 .. Len(q) - 1 : Tail(q)[i] = q[i + 1]
      /\ Head(q) = q[1] /\ q[1] \in Slots
  OBVIOUS
<1>2. ASSUME In(s, q) PROVE s = Head(q) \/ In(s, Tail(q))
  <2>1. PICK i \in 1 .. Len(q) : q[i] = s  BY <1>2 DEF In
  <2>2. CASE i = 1  BY <1>1, <2>1, <2>2
  <2>3. CASE i # 1
    <3>1. i - 1 \in 1 .. Len(Tail(q)) /\ Tail(q)[i - 1] = s
      BY <1>1, <2>1, <2>3, SMT
    <3> QED  BY <3>1 DEF In
  <2> QED  BY <2>2, <2>3
<1>3. ASSUME In(s, Tail(q)) PROVE In(s, q)
  <2>1. PICK i \in 1 .. Len(Tail(q)) : Tail(q)[i] = s  BY <1>3 DEF In
  <2>2. i + 1 \in 1 .. Len(q) /\ q[i + 1] = s  BY <1>1, <2>1, SMT
  <2> QED  BY <2>2 DEF In
<1>4. ASSUME s = Head(q) PROVE In(s, q)
  BY <1>1, <1>4, SMT DEF In
<1> QED  BY <1>1, <1>2, <1>3, <1>4

Waits(s) == In(s, queue)
Runs(s) == main.at # "idle" /\ main.slot = s
LEMMA BuildingIs == \A s : Building(s) <=> Waits(s) \/ Runs(s)
  BY DEF Building, Waits, Runs, In

\* A slot that nothing will be built for has its byte; the build in progress
\* holds the power of its slot, unless it was overtaken; and the frame whose byte
\* it will store has one, unless the slot is empty, to be built anew, or revived.
HasItsByte(s) ==
    \/ revived[s]
    \/ IF type[s] \in Ranged THEN overtaken[s] \/ second[s] = power[s]
       ELSE second[s] = Version
FrameHasByte(s) == Waits(s) \/ revived[s] \/ type[s] \in Ranged
Calibrated ==
    /\ \A s \in Slots : IsConfigured(s) /\ ~Waits(s) /\ ~Runs(s) => HasItsByte(s)
    /\ main.at \in {"build", "rotate"} /\ ~overtaken[main.slot]
       => main.arg = power[main.slot]
    /\ main.at \in {"build", "sized", "rotate"} /\ IsConfigured(main.slot)
       => FrameHasByte(main.slot)
    /\ main.at \in {"typed", "framed"} => FrameHasByte(main.slot)

LEMMA InitCalibrated == ASSUME PowerInit PROVE Calibrated
<1>1. main.at = "idle"  BY DEF PowerInit, Idle
<1>2. ASSUME NEW s \in Slots, IsConfigured(s), ~Waits(s) PROVE HasItsByte(s)
  <2>1. occupied[s]
    <3>1. (\E i \in DOMAIN queue : queue[i] = s) <=> IsConfigured(s) /\ ~occupied[s]
      BY DEF PowerInit
    <3>2. DOMAIN queue = 1 .. Len(queue)
      <4>1. PICK n \in 0 .. NumSlots : queue \in [1 .. n -> Slots]  BY DEF PowerInit
      <4> QED  BY <4>1
    <3> QED  BY <1>2, <3>1, <3>2 DEF Waits, In
  <2>2. second[s] = power[s] /\ type[s] = "EID"
    BY <2>1 DEF PowerInit
  <2> QED  BY <2>2 DEF HasItsByte, Ranged
<1> QED  BY <1>1, <1>2 DEF Calibrated

\* A new power comes with its byte, for the frame that is there.
LEMMA PowerCalibrated ==
    ASSUME PowerTypeOK, Calibrated, NEW r \in Slots, NEW p, SetRadioTxPwr(r, p)
    PROVE  Calibrated'
<1>1. /\ power' = [power EXCEPT ![r] = power'[r]]
      /\ second' = IF type[r] \in Ranged THEN [second EXCEPT ![r] = power'[r]] ELSE second
      /\ overtaken' = [overtaken EXCEPT ![r] = Overtakes(r, power'[r])]
      /\ UNCHANGED <<type, len, occupied, frame, queue, main, revived>>
  BY DEF SetRadioTxPwr, Ranging, PowerTypeOK
<1>2. ASSUME NEW s \in Slots, IsConfigured(s)', ~Waits(s)', ~Runs(s)'
      PROVE  HasItsByte(s)'
  <2>1. HasItsByte(s)
    BY <1>1, <1>2 DEF IsConfigured, Waits, Runs, Calibrated
  <2>2. CASE s # r
    BY <1>1, <2>1, <2>2 DEF HasItsByte, PowerTypeOK
  <2>3. CASE s = r
    BY <1>1, <2>1, <2>3 DEF HasItsByte, PowerTypeOK
  <2> QED  BY <2>2, <2>3
<1>3. ASSUME main'.at \in {"build", "rotate"}, ~overtaken'[main'.slot]
      PROVE  main'.arg = power'[main'.slot]
  BY <1>1, <1>3 DEF Overtakes, Calibrated, PowerTypeOK, MainStates
<1>4. /\ main'.at \in {"build", "sized", "rotate"} /\ IsConfigured(main.slot)'
         => FrameHasByte(main.slot)'
      /\ main'.at \in {"typed", "framed"} => FrameHasByte(main.slot)'
  BY <1>1 DEF Calibrated, IsConfigured, Waits, FrameHasByte
<1> QED  BY <1>2, <1>3, <1>4 DEF Calibrated

\* A frame that a client writes waits to be built, or the slot is empty.
LEMMA FrameCalibrated ==
    ASSUME PowerTypeOK, Calibrated, NEW r \in Slots, NEW t \in Types, NEW l \in Lengths,
           SetRwAdvData(r, t, l)
    PROVE  Calibrated'
<1>1. /\ type' = [type EXCEPT ![r] = t] /\ len' = [len EXCEPT ![r] = l]
      /\ revived' = Revives(r, t, l)
      /\ UNCHANGED <<power, frame, second, main, overtaken>>
      /\ type \in [Slots -> Types] /\ len \in [Slots -> Lengths] /\ queue \in Seq(Slots)
      /\ revived \in [Slots -> BOOLEAN]
  BY DEF SetRwAdvData, PowerTypeOK
<1>2. ~IsConfigured(r)' \/ Waits(r)'
  <2>1. CASE l = "zero"  BY <1>1, <2>1 DEF IsConfigured
  <2>2. CASE l # "zero"
    BY <1>1, <2>2, AppendIn DEF SetRwAdvData, Waits
  <2> QED  BY <2>1, <2>2
<1>3. ASSUME NEW s \in Slots, s # r, ~Waits(s)'
      PROVE  /\ IsConfigured(s)' <=> IsConfigured(s)
             /\ ~Waits(s) /\ type'[s] = type[s] /\ revived'[s] = revived[s]
  <2>1. /\ IsConfigured(s)' <=> IsConfigured(s)
        /\ type'[s] = type[s] /\ revived'[s] = revived[s]
    BY <1>1, <1>3 DEF IsConfigured, Revives
  <2>2. CASE l = "zero"
    BY <1>3, <2>1, <2>2 DEF SetRwAdvData, Waits
  <2>3. CASE l # "zero"
    BY <1>1, <1>3, <2>1, <2>3, AppendIn DEF SetRwAdvData, Waits
  <2> QED  BY <2>2, <2>3
<1>4. ASSUME NEW s \in Slots, IsConfigured(s)', ~Waits(s)', ~Runs(s)'
      PROVE  HasItsByte(s)'
  <2>1. s # r  BY <1>2, <1>4
  <2>2. HasItsByte(s) /\ type'[s] = type[s] /\ revived'[s] = revived[s]
    BY <1>1, <1>3, <1>4, <2>1 DEF Calibrated, Runs
  <2> QED  BY <1>1, <2>2 DEF HasItsByte
<1>5. main.slot \in Slots  BY DEF PowerTypeOK, MainStates
<1>6. ASSUME main.slot # r
      PROVE  /\ main.at \in {"build", "sized", "rotate"} /\ IsConfigured(main.slot)'
                => FrameHasByte(main.slot)'
             /\ main.at \in {"typed", "framed"} => FrameHasByte(main.slot)'
  BY <1>1, <1>3, <1>5, <1>6 DEF Calibrated, FrameHasByte
<1>7. ASSUME main.slot = r
      PROVE  /\ IsConfigured(r)' => FrameHasByte(r)'
             /\ main.at \in {"typed", "framed"} => FrameHasByte(r)'
  <2>1. CASE l # "zero"
    BY <1>1, <1>2, <2>1 DEF IsConfigured, FrameHasByte
  <2>2. CASE l = "zero"
    <3>1. type'[r] = t /\ ~IsConfigured(r)'  BY <1>1, <2>2 DEF IsConfigured
    <3>2. t = "TLM" /\ main.at \in {"typed", "framed"} => revived'[r]
      BY <1>1, <1>7, <2>2 DEF Revives, InsideEidReady
    <3>3. t # "TLM" => t \in Ranged  BY DEF Types, Ranged
    <3> QED  BY <3>1, <3>2, <3>3 DEF FrameHasByte
  <2> QED  BY <2>1, <2>2
<1>8. /\ main.at \in {"build", "sized", "rotate"} /\ IsConfigured(main.slot)'
         => FrameHasByte(main.slot)'
      /\ main.at \in {"typed", "framed"} => FrameHasByte(main.slot)'
  BY <1>1, <1>6, <1>7 DEF FrameHasByte, IsConfigured, Waits
<1> QED  BY <1>1, <1>4, <1>8 DEF Calibrated

\* A slot other than r keeps its byte when only r changes.
OnlyChanges(r) ==
    \A s \in Slots \ {r} :
        /\ type'[s] = type[s] /\ len'[s] = len[s] /\ power'[s] = power[s]
        /\ second'[s] = second[s]
        /\ overtaken'[s] = overtaken[s] /\ revived'[s] = revived[s]
        /\ (Waits(s)' <=> Waits(s)) /\ ~Runs(s)

LEMMA OthersCalibrated ==
    ASSUME NEW r \in Slots, Calibrated, OnlyChanges(r), NEW s \in Slots \ {r},
           IsConfigured(s)', ~Waits(s)'
    PROVE  HasItsByte(s)'
<1>1. IsConfigured(s) /\ ~Waits(s) /\ ~Runs(s)
  BY DEF OnlyChanges, IsConfigured
<1> QED  BY <1>1 DEF OnlyChanges, Calibrated, HasItsByte

LEMMA BuildAtOnceCalibrated ==
    ASSUME PowerTypeOK, Calibrated, BuildAtOnce PROVE Calibrated'
<1>0. queue # <<>> /\ queue \in Seq(Slots)
  BY DEF BuildAtOnce, PowerTypeOK
<1>2. PICK r \in Slots : r = Head(queue)
  BY <1>0, TailIn
<1>1. /\ main.at = "idle" /\ queue' = Tail(queue)
      /\ type[r] = "TLM" \/ (type[r] = "UID" /\ len[r] # "right")
      /\ UNCHANGED <<type, occupied, power, main, overtaken, revived>>
      /\ len \in [Slots -> Lengths] /\ second \in [Slots -> Bytes]
  BY <1>2 DEF BuildAtOnce, PowerTypeOK
<1>3. CASE len[r] = "right"
  <2>1. UNCHANGED len /\ second' = [second EXCEPT ![r] = Version]
    BY <1>2, <1>3 DEF BuildAtOnce
  <2>2. OnlyChanges(r)
    BY <1>0, <1>1, <1>2, <2>1, TailIn DEF OnlyChanges, Waits, Runs
  <2>3. HasItsByte(r)'
    BY <1>1, <1>2, <1>3, <2>1 DEF HasItsByte, Ranged
  <2> QED  BY <1>1, <1>2, <2>2, <2>3, OthersCalibrated DEF Calibrated
<1>4. CASE len[r] # "right"
  <2>1. len' = [len EXCEPT ![r] = "zero"] /\ UNCHANGED second
    BY <1>2, <1>4 DEF BuildAtOnce
  <2>2. OnlyChanges(r)
    BY <1>0, <1>1, <1>2, <2>1, TailIn DEF OnlyChanges, Waits, Runs
  <2>3. ~IsConfigured(r)'
    BY <1>1, <1>2, <2>1 DEF IsConfigured
  <2> QED  BY <1>1, <1>2, <2>2, <2>3, OthersCalibrated DEF Calibrated
<1> QED  BY <1>3, <1>4

LEMMA BuildStartCalibrated ==
    ASSUME PowerTypeOK, Calibrated, BuildStart PROVE Calibrated'
<1>0. queue # <<>> /\ queue \in Seq(Slots)
  BY DEF BuildStart, PowerTypeOK
<1>2. PICK r \in Slots : r = Head(queue)
  BY <1>0, TailIn
<1>1. /\ main.at = "idle" /\ queue' = Tail(queue)
      /\ type[r] \in Ranged
      /\ main' = [at |-> "build", slot |-> r, type |-> type[r], arg |-> power[r]]
      /\ overtaken' = [overtaken EXCEPT ![r] = FALSE]
      /\ UNCHANGED <<type, len, occupied, power, second, revived>>
      /\ overtaken \in [Slots -> BOOLEAN]
  BY <1>2 DEF BuildStart, TakePower, PowerTypeOK, Ranged
<1>3. OnlyChanges(r)
  BY <1>0, <1>1, <1>2, TailIn DEF OnlyChanges, Waits, Runs
<1>4. ASSUME NEW s \in Slots, IsConfigured(s)', ~Waits(s)', ~Runs(s)'
      PROVE  HasItsByte(s)'
  <2>1. s # r  BY <1>1, <1>4 DEF Runs
  <2> QED  BY <1>2, <1>3, <1>4, <2>1, OthersCalibrated
<1> QED  BY <1>1, <1>4 DEF Calibrated, FrameHasByte

\* Storing the byte of the build ends it with the right one.
LEMMA StoredByte ==
    ASSUME PowerTypeOK, Calibrated, NEW r \in Slots, r = main.slot,
           main.at \in {"build", "rotate"},
           second' = Ranging(r, main.arg), UNCHANGED <<type, power, overtaken, revived>>,
           IsConfigured(r), ~Waits(r)
    PROVE  HasItsByte(r)'
<1>1. revived[r] \/ type[r] \in Ranged
  BY DEF Calibrated, FrameHasByte
<1>2. type[r] \in Ranged => second'[r] = main.arg
  BY DEF Ranging, PowerTypeOK
<1>3. overtaken[r] \/ main.arg = power[r]
  BY DEF Calibrated
<1> QED  BY <1>1, <1>2, <1>3 DEF HasItsByte

LEMMA BuildStoreCalibrated ==
    ASSUME PowerTypeOK, Calibrated, BuildStore PROVE Calibrated'
<1>0. PICK r \in Slots : r = main.slot
  BY DEF PowerTypeOK, MainStates
<1>1. /\ main.at = "build" /\ second' = Ranging(r, main.arg)
      /\ UNCHANGED <<type, power, queue, overtaken, revived>>
      /\ main \in MainStates /\ len \in [Slots -> Lengths]
      /\ second \in [Slots -> Bytes]
  BY <1>0 DEF BuildStore, PowerTypeOK
<1>2. /\ len' = [len EXCEPT ![r] = len'[r]]
      /\ \/ main' = [main EXCEPT !.at = "occupy"] /\ UNCHANGED len
         \/ main' = Idle /\ (len'[r] = len[r] \/ len'[r] = "zero")
  BY <1>0, <1>1 DEF BuildStore
<1>3. OnlyChanges(r)
  BY <1>0, <1>1, <1>2 DEF OnlyChanges, Waits, Runs, Ranging
<1>4. ASSUME IsConfigured(r)', ~Waits(r)' PROVE HasItsByte(r)'
  <2>1. IsConfigured(r) /\ ~Waits(r)
    BY <1>1, <1>2, <1>4 DEF IsConfigured, Waits
  <2> QED  BY <1>0, <1>1, <2>1, StoredByte
<1>5. ASSUME NEW s \in Slots, IsConfigured(s)', ~Waits(s)'
      PROVE  HasItsByte(s)'
  BY <1>3, <1>4, <1>5, OthersCalibrated
<1>6. CASE main' = Idle
  BY <1>5, <1>6 DEF Calibrated, Idle
<1>7. CASE main' = [main EXCEPT !.at = "occupy"]
  <2>1. main'.at = "occupy"  BY <1>1, <1>7 DEF MainStates
  <2> QED  BY <1>5, <2>1 DEF Calibrated
<1> QED  BY <1>2, <1>6, <1>7

\* The steps of main that store no byte and take no power.
LEMMA OccupyCalibrated == ASSUME PowerTypeOK, Calibrated, Occupy PROVE Calibrated'
<1>1. /\ main.at = "occupy" /\ main'.at = "exchange" /\ main'.slot = main.slot
      /\ UNCHANGED <<type, len, power, second, overtaken, revived, queue>>
  BY DEF Occupy, PowerTypeOK, MainStates
<1> QED  BY <1>1 DEF Calibrated, IsConfigured, Waits, Runs, HasItsByte

LEMMA RotateCalibrated ==
    ASSUME PowerTypeOK, Calibrated, NEW r \in Slots, Rotate(r) PROVE Calibrated'
<1>1. /\ main.at = "idle" /\ main'.at = "exchange" /\ main'.slot = r
      /\ UNCHANGED <<type, len, power, second, overtaken, revived, queue>>
  BY DEF Rotate, slotVars, PowerTypeOK, MainStates
<1> QED  BY <1>1 DEF Calibrated, IsConfigured, Waits, Runs, HasItsByte

\* eddystone_adv_slot_eid_ready, before it stores the byte.
LEMMA EidReadyCalibrated ==
    ASSUME PowerTypeOK, Calibrated,
           EidReadyType \/ EidReadyFrame \/ EidReadyLength \/ EidReadyPower
    PROVE  Calibrated'
<1>0. PICK r \in Slots : r = main.slot
  BY DEF PowerTypeOK, MainStates
<1>1. main.at # "idle" /\ main'.at # "idle" /\ main'.slot = r
  BY <1>0 DEF EidReadyType, EidReadyFrame, EidReadyLength, EidReadyPower, TakePower,
              PowerTypeOK, MainStates
<1>2. /\ UNCHANGED <<power, second, revived, queue>>
      /\ type' = [type EXCEPT ![r] = type'[r]] /\ len' = [len EXCEPT ![r] = len'[r]]
      /\ overtaken' = [overtaken EXCEPT ![r] = overtaken'[r]]
  BY <1>0 DEF EidReadyType, EidReadyFrame, EidReadyLength, EidReadyPower, TakePower,
              PowerTypeOK
<1>3. OnlyChanges(r)
  BY <1>0, <1>1, <1>2 DEF OnlyChanges, Waits, Runs, PowerTypeOK
<1>4. ASSUME NEW s \in Slots, IsConfigured(s)', ~Waits(s)', ~Runs(s)'
      PROVE  HasItsByte(s)'
  <2>1. s # r  BY <1>1, <1>4 DEF Runs
  <2> QED  BY <1>3, <1>4, <2>1, OthersCalibrated
<1>5. CASE EidReadyType
  <2>1. main'.at = "typed" /\ type'[r] \in Ranged
    BY <1>0, <1>5 DEF EidReadyType, PowerTypeOK, MainStates, Ranged
  <2> QED  BY <1>1, <1>4, <2>1 DEF Calibrated, FrameHasByte
<1>6. CASE EidReadyFrame
  <2>1. /\ main.at = "typed" /\ main'.at = "framed" /\ type' = type
    BY <1>6 DEF EidReadyFrame, PowerTypeOK, MainStates
  <2> QED  BY <1>0, <1>1, <1>2, <1>4, <2>1 DEF Calibrated, FrameHasByte, Waits
<1>7. CASE EidReadyLength
  <2>1. /\ main.at = "framed" /\ main'.at = "sized" /\ type' = type
    BY <1>7 DEF EidReadyLength, PowerTypeOK, MainStates
  <2> QED  BY <1>0, <1>1, <1>2, <1>4, <2>1 DEF Calibrated, FrameHasByte, Waits
<1>8. CASE EidReadyPower
  <2>1. /\ main.at = "sized" /\ main'.at = "rotate" /\ main'.arg = power[r]
        /\ type' = type /\ len' = len
    BY <1>0, <1>8 DEF EidReadyPower, TakePower
  <2>2. IsConfigured(r)' => FrameHasByte(r)'
    BY <1>0, <1>2, <2>1 DEF Calibrated, FrameHasByte, Waits, IsConfigured
  <2> QED  BY <1>1, <1>2, <1>4, <2>1, <2>2 DEF Calibrated
<1> QED  BY <1>5, <1>6, <1>7, <1>8

LEMMA RotateStoreCalibrated ==
    ASSUME PowerTypeOK, Calibrated, RotateStore PROVE Calibrated'
<1>0. PICK r \in Slots : r = main.slot
  BY DEF PowerTypeOK, MainStates
<1>1. /\ main.at = "rotate" /\ second' = Ranging(r, main.arg) /\ main' = Idle
      /\ UNCHANGED <<type, len, occupied, power, frame, queue, overtaken, revived>>
      /\ second \in [Slots -> Bytes]
  BY <1>0 DEF RotateStore, PowerTypeOK
<1>2. OnlyChanges(r)
  BY <1>0, <1>1 DEF OnlyChanges, Waits, Runs, Ranging
<1>3. ASSUME NEW s \in Slots, IsConfigured(s)', ~Waits(s)' PROVE HasItsByte(s)'
  <2>1. CASE s # r  BY <1>1, <1>2, <1>3, <2>1, OthersCalibrated
  <2>2. CASE s = r
    <3>1. IsConfigured(r) /\ ~Waits(r)  BY <1>1, <1>3, <2>2 DEF IsConfigured, Waits
    <3> QED  BY <1>0, <1>1, <2>2, <3>1, StoredByte
  <2> QED  BY <2>1, <2>2
<1> QED  BY <1>1, <1>3 DEF Calibrated, Idle

LEMMA StillCalibrated == ASSUME Calibrated, UNCHANGED powerVars PROVE Calibrated'
BY DEF powerVars, slotVars, Calibrated, IsConfigured, Waits, Runs, HasItsByte,
       FrameHasByte

LEMMA BuildCalibrated == ASSUME PowerTypeOK, Calibrated, Build PROVE Calibrated'
BY BuildAtOnceCalibrated, BuildStartCalibrated, BuildStoreCalibrated, OccupyCalibrated,
   EidReadyCalibrated, RotateStoreCalibrated DEF Build, EidReady

LEMMA NextCalibrated == ASSUME TypeOK, Calibrated, [Next]_vars PROVE Calibrated'
<1>1. PowerTypeOK /\ active \in Slots
  BY DEF TypeOK
<1>2. CASE Connect  BY <1>2, StillCalibrated DEF Connect
<1>3. CASE Disconnect
  <2>1. UNCHANGED powerVars  BY <1>3, Zenon DEF Disconnect
  <2> QED  BY <2>1, StillCalibrated
<1>4. ASSUME NEW c \in Chars, Read(c) PROVE Calibrated'
  BY <1>4, StillCalibrated DEF Read
<1>5. CASE Write
  <2>1. ASSUME NEW n, WriteActiveSlot(n) PROVE Calibrated'
    BY <2>1, StillCalibrated DEF WriteActiveSlot
  <2>2. ASSUME NEW p, WriteRadioTxPwr(p) PROVE Calibrated'
    <3>1. SetRadioTxPwr(active, p)  BY <2>2 DEF WriteRadioTxPwr
    <3> QED  BY <1>1, <3>1, PowerCalibrated
  <2>3. ASSUME NEW w, WriteLockState(w) PROVE Calibrated'
    <3>1. UNCHANGED powerVars  BY <2>3, Zenon DEF WriteLockState
    <3> QED  BY <3>1, StillCalibrated
  <2>4. ASSUME NEW m, WriteUnlock(m) PROVE Calibrated'
    BY <2>4, StillCalibrated DEF WriteUnlock
  <2>5. ASSUME NEW t \in Types, NEW l \in Lengths, WriteRwAdvSlot(t, l)
        PROVE  Calibrated'
    <3>1. SetRwAdvData(active, t, l)  BY <2>5 DEF WriteRwAdvSlot
    <3> QED  BY <1>1, <3>1, FrameCalibrated
  <2>6. ASSUME NEW c, WriteOther(c) \/ DeniedWrite(c, "write") PROVE Calibrated'
    BY <2>6, StillCalibrated DEF WriteOther, DeniedWrite
  <2> QED  BY <1>5, <2>1, <2>2, <2>3, <2>4, <2>5, <2>6 DEF Write
<1>6. CASE LongWrite
  <2>1. ASSUME NEW c, NEW t, Prepare(c, t) PROVE Calibrated'
    BY <2>1, StillCalibrated DEF Prepare
  <2>2. ASSUME NEW c, DeniedWrite(c, "prepare") PROVE Calibrated'
    BY <2>2, StillCalibrated DEF DeniedWrite
  <2>3. CASE Execute
    <3>1. PICK l \in Lengths : SetRwAdvData(active, Written.type, l)
      <4>1. SetRwAdvData(active, Written.type,
                         IF Written.type = "EID" THEN "right" ELSE "wrong")
        BY <2>3, Zenon DEF Execute, ExecuteValue
      <4> QED  BY <4>1 DEF Lengths
    <3> QED  BY <1>1, <3>1, WrittenType, FrameCalibrated
  <2>4. CASE DeniedExecute \/ Cancel
    BY <2>4, StillCalibrated DEF DeniedExecute, Cancel
  <2> QED  BY <1>6, <2>1, <2>2, <2>3, <2>4 DEF LongWrite
<1>7. CASE BuildFrames
  BY <1>1, <1>7, BuildCalibrated DEF BuildFrames
<1>8. ASSUME NEW s \in Slots, RotateEid(s) PROVE Calibrated'
  BY <1>1, <1>8, RotateCalibrated DEF RotateEid
<1>9. CASE UNCHANGED vars
  BY <1>9, StillCalibrated DEF vars
<1> QED
  BY <1>2, <1>3, <1>4, <1>5, <1>6, <1>7, <1>8, <1>9 DEF Next, Interrupt, MainLoop

\* A slot that nothing is left to build for carries the byte of its power or its
\* frame's version, whatever the order of frames, powers, builds, exchanges and
\* rotations, and with interrupts anywhere, unless a power was written between
\* the halves of a build, or the slot was emptied as the TLM of a stack byte
\* between two stores of eid_ready (eddystone_set_ranging_data and its callers).
THEOREM BytesAreCalibrated == Spec => []RangingIsCalibrated
<1>1. Init => Calibrated
  BY InitCalibrated DEF Init
<1>2. TypeOK /\ Calibrated /\ [Next]_vars => Calibrated'
  BY NextCalibrated
<1>3. Calibrated => RangingIsCalibrated
  BY BuildingIs, SMT DEF Calibrated, HasItsByte, RangingIsCalibrated
<1> QED  BY <1>1, <1>2, <1>3, TypeCorrect, PTL DEF Spec
=============================================================================
