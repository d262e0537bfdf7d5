------------------------- MODULE LockServiceProofs -------------------------
(***************************************************************************)
(* LockService for every number of slots and of keys and challenges: what  *)
(* the lock protects whatever the interrupt hits, and what clients that    *)
(* let exchanges finish can rely on.                                       *)
(***************************************************************************)
EXTENDS LockService, TLAPS

USE NumSlotsAssumption

-----------------------------------------------------------------------------
(* The queue *)

\* A frame_set for s waits in q.
In(s, q) == \E i \in 1 .. Len(q) : q[i] = s

LEMMA AppendIn ==
    ASSUME NEW q \in Seq(Slots), NEW a \in Slots, NEW s
    PROVE  In(s, Append(q, a)) <=> In(s, q) \/ s = a
<1>1. /\ Len(Append(q, a)) = Len(q) + 1 /\ Len(q) \in Nat
      /\ \A i \in 1 .. Len(q) : Append(q, a)[i] = q[i]
      /\ Append(q, a)[Len(q) + 1] = a
  OBVIOUS
<1> QED  BY <1>1 DEF In

LEMMA TailIn ==
    ASSUME NEW q \in Seq(Slots), q # <<>>, NEW s
    PROVE  /\ In(s, Tail(q)) => In(s, q)
           /\ In(s, q) => In(s, Tail(q)) \/ s = Head(q)
           /\ In(Head(q), q)
<1>1. /\ Len(q) \in Nat \ {0} /\ Len(Tail(q)) = Len(q) - 1 /\ Head(q) = q[1]
      /\ \A i \in 1 .. Len(q) - 1 : Tail(q)[i] = q[i + 1]
  OBVIOUS
<1>2. ASSUME In(s, Tail(q)) PROVE In(s, q)
  <2>1. PICK i \in 1 .. Len(q) - 1 : q[i + 1] = s  BY <1>1, <1>2 DEF In
  <2>2. i + 1 \in 1 .. Len(q)  BY <1>1
  <2> QED  BY <2>1, <2>2 DEF In
<1>3. ASSUME In(s, q), s # Head(q) PROVE In(s, Tail(q))
  <2>1. PICK i \in 1 .. Len(q) : q[i] = s  BY <1>3 DEF In
  <2>2. i # 1  BY <1>1, <1>3, <2>1
  <2>3. i - 1 \in 1 .. Len(q) - 1 /\ (i - 1) + 1 = i  BY <1>1, <2>2
  <2>4. Tail(q)[i - 1] = s  BY <1>1, <2>1, <2>3
  <2> QED  BY <1>1, <2>3, <2>4 DEF In
<1>4. In(Head(q), q)
  <2>1. 1 \in 1 .. Len(q)  BY <1>1
  <2> QED  BY <1>1, <2>1 DEF In
<1> QED  BY <1>2, <1>3, <1>4

-----------------------------------------------------------------------------
(* Types *)

\* A block decrypts to a number, whatever the key.
LEMMA DerivedType ==
    ASSUME NEW k \in Nat, NEW w \in EidWrites PROVE Derived(k, w) \in Nat
BY DEF EidWrites, Blocks, Derived, Decrypted

LEMMA EncryptedType ==
    ASSUME NEW k \in Nat, NEW t \in Nat
    PROVE  Encrypted(k, t) \in Blocks /\ Decrypted(k, Encrypted(k, t)) = t
BY DEF Encrypted, Decrypted, Blocks

LEMMA DrawType == ASSUME fresh \in Nat, Draw PROVE fresh' \in Nat
BY MaxFreshAssumption DEF Draw

LEMMA InitType == Init => TypeOK
<1> SUFFICES ASSUME Init PROVE TypeOK OBVIOUS
<1>1. NoBlock \in Blocks /\ Encrypted(1, 2) \in Blocks
  BY EncryptedType DEF NoBlock, Blocks
<1>2. NoWrite \in EidWrites  BY <1>1 DEF NoWrite, EidWrites
<1>3. main \in MainStates
  BY <1>2 DEF Init, Idle, MainStates, Positions, Slots
<1>4. /\ isEid \in [Slots -> BOOLEAN] /\ buffer \in [Slots -> EidWrites]
      /\ ik \in [Slots -> Nat] /\ exposed \in [Slots -> Blocks]
  BY <1>1, <1>2 DEF Init
<1>5. ecb \in [clear : Nat, cipher : Blocks]  BY <1>1 DEF Init
<1>6. connected \in BOOLEAN  BY Zenon DEF Init
<1>7. /\ lockState = LOCKED /\ lockKey = 1 /\ activeSlot = 0 /\ offered = 0
      /\ queue = <<>> /\ fresh = 2
  BY Zenon DEF Init
<1>8. /\ lockState \in LockBytes /\ lockKey \in Nat /\ activeSlot \in Slots
      /\ offered \in Nat /\ fresh \in Nat
  BY <1>7 DEF LockBytes, LOCKED, Slots
<1>9. queue \in Seq(Slots)  BY <1>7
<1> QED  BY <1>3, <1>4, <1>5, <1>6, <1>8, <1>9 DEF TypeOK

LEMMA NextType == TypeOK /\ [Next]_vars => TypeOK'
<1> SUFFICES ASSUME TypeOK, [Next]_vars PROVE TypeOK' OBVIOUS
<1> USE DEF TypeOK
<1>1. CASE Connect  BY <1>1 DEF Connect, slotVars, Slots
<1>2. CASE Disconnect
  <2>1. lockState' \in LockBytes
    BY <1>2 DEF Disconnect, LockBytes, LOCKED, UNLOCKED
  <2> QED  BY <1>2, <2>1 DEF Disconnect, slotVars
<1>3. ASSUME NEW n \in 0 .. NumSlots, WriteActiveSlot(n) PROVE TypeOK'
  <2>1. activeSlot' \in Slots  BY <1>3 DEF WriteActiveSlot, Slots
  <2> QED  BY <1>3, <2>1 DEF WriteActiveSlot, slotVars
<1>4. ASSUME NEW b \in LockBytes, WriteLockState(b) PROVE TypeOK'
  BY <1>4 DEF WriteLockState, slotVars, LockBytes, LOCKED, AUTO_RELOCK_DISABLED
<1>5. ASSUME NEW b \in LockBytes, WriteLockCode(b) PROVE TypeOK'
  <2>1. fresh' \in Nat  BY <1>5, DrawType DEF WriteLockCode
  <2>2. lockKey' \in Nat /\ lockState' = b
    BY <1>5, <2>1, EncryptedType DEF WriteLockCode
  <2> QED  BY <1>5, <2>1, <2>2 DEF WriteLockCode, slotVars
<1>6. ASSUME NEW ecdh \in BOOLEAN, WriteEid(ecdh) PROVE TypeOK'
  <2>1. fresh' \in Nat  BY <1>6, DrawType DEF WriteEid
  <2>2. [ecdh |-> ecdh, block |-> Encrypted(lockKey, fresh')] \in EidWrites
    BY <2>1, EncryptedType DEF EidWrites
  <2>3. buffer' \in [Slots -> EidWrites]  BY <1>6, <2>2 DEF WriteEid
  <2>4. isEid' \in [Slots -> BOOLEAN] /\ queue' \in Seq(Slots)
    BY <1>6 DEF WriteEid
  <2> QED  BY <1>6, <2>1, <2>3, <2>4 DEF WriteEid
<1>7. CASE ClearSlot
  BY <1>7 DEF ClearSlot
<1>8. CASE ReadUnlock
  <2>1. fresh' \in Nat  BY <1>8, DrawType DEF ReadUnlock
  <2>2. ecb' \in [clear : Nat, cipher : Blocks]
    BY <1>8, <2>1, EncryptedType DEF ReadUnlock, Prepared
  <2> QED  BY <1>8, <2>1, <2>2 DEF ReadUnlock, slotVars
<1>9. CASE WriteUnlock
  BY <1>9 DEF WriteUnlock, slotVars, LockBytes, UNLOCKED
<1>10. CASE FrameSet
  <2>1. Head(queue) \in Slots /\ queue' \in Seq(Slots)  BY <1>10 DEF FrameSet
  <2>2. main' \in MainStates
    BY <1>10, <2>1 DEF FrameSet, MainStates, Positions
  <2> QED  BY <1>10, <2>1, <2>2 DEF FrameSet
<1>11. CASE Derive
  <2>1. main.slot \in Slots /\ main.key \in Nat /\ main.write \in EidWrites
    BY DEF MainStates
  <2>2. ik' \in [Slots -> Nat]
    <3>1. PICK k \in {main.key, lockKey} :
              ik' = [ik EXCEPT ![main.slot] = Derived(k, main.write)]
      BY <1>11 DEF Derive
    <3>2. Derived(k, main.write) \in Nat  BY <2>1, DerivedType
    <3> QED  BY <3>1, <3>2
  <2>3. main' \in MainStates /\ isEid' \in [Slots -> BOOLEAN]
    BY <1>11 DEF Derive, MainStates, Positions
  <2> QED  BY <1>11, <2>2, <2>3 DEF Derive
<1>12. CASE Load
  BY <1>12 DEF Load, slotVars, MainStates, Positions
<1>13. CASE Encrypt
  <2>1. ecb' \in [clear : Nat, cipher : Blocks]
    BY <1>13, EncryptedType DEF Encrypt
  <2>2. main' \in MainStates  BY <1>13 DEF Encrypt, MainStates, Positions
  <2> QED  BY <1>13, <2>1, <2>2 DEF Encrypt, slotVars
<1>14. CASE Copy
  <2>1. exposed' \in [Slots -> Blocks]  BY <1>14 DEF Copy, MainStates
  <2>2. main' \in MainStates
    BY <1>14 DEF Copy, Idle, MainStates, Positions, Slots, NoWrite, NoBlock,
                 EidWrites, Blocks
  <2> QED  BY <1>14, <2>1, <2>2 DEF Copy
<1>15. CASE UNCHANGED vars  BY <1>15 DEF vars
<1> QED
  BY <1>1, <1>2, <1>3, <1>4, <1>5, <1>6, <1>7, <1>8, <1>9, <1>10, <1>11,
     <1>12, <1>13, <1>14, <1>15 DEF Next, Interrupt, MainLoop

\* Every variable has its type.
THEOREM TypeCorrect == Spec => []TypeOK
<1> QED  BY InitType, NextType, PTL DEF Spec

-----------------------------------------------------------------------------
(* The lock *)

\* A beacon whose client has left is locked, unless the client chose another
\* byte (on_ble_evt, BLE_GAP_EVT_DISCONNECTED).
THEOREM LeftLocked == Spec => []NobodyLeavesItOpen
<1> USE DEF NobodyLeavesItOpen
<1>1. Init => NobodyLeavesItOpen
  BY DEF Init, LOCKED, UNLOCKED
<1>2. NobodyLeavesItOpen /\ [Next]_vars => NobodyLeavesItOpen'
  <2> SUFFICES ASSUME NobodyLeavesItOpen, [Next]_vars PROVE NobodyLeavesItOpen'
    OBVIOUS
  <2>1. CASE Connect  BY <2>1 DEF Connect
  <2>2. CASE Disconnect  BY <2>2 DEF Disconnect, LOCKED, UNLOCKED
  <2>3. ASSUME NEW n, WriteActiveSlot(n) PROVE NobodyLeavesItOpen'
    BY <2>3 DEF WriteActiveSlot
  <2>4. ASSUME NEW b, WriteLockState(b) \/ WriteLockCode(b) PROVE NobodyLeavesItOpen'
    BY <2>4 DEF WriteLockState, WriteLockCode, Served
  <2>5. ASSUME NEW ecdh, WriteEid(ecdh) PROVE NobodyLeavesItOpen'
    BY <2>5 DEF WriteEid
  <2>6. CASE ClearSlot \/ ReadUnlock \/ WriteUnlock
    BY <2>6 DEF ClearSlot, ReadUnlock, WriteUnlock
  <2>7. CASE MainLoop
    BY <2>7 DEF MainLoop, FrameSet, Derive, Load, Encrypt, Copy
  <2>8. CASE UNCHANGED vars  BY <2>8 DEF vars
  <2> QED
    BY <2>1, <2>2, <2>3, <2>4, <2>5, <2>6, <2>7, <2>8 DEF Next, Interrupt
<1> QED  BY <1>1, <1>2, PTL DEF Spec

\* While the beacon is locked, only an exchange it had accepted changes a key.
LEMMA LockedStep ==
    ASSUME TypeOK, lockState = LOCKED, [Next]_vars
    PROVE  /\ lockKey' = lockKey /\ buffer' = buffer
           /\ \A s \in Slots : ik'[s] # ik[s] => Pending(s)
<1>1. CASE Connect  BY <1>1 DEF Connect, slotVars
<1>2. CASE Disconnect  BY <1>2 DEF Disconnect, slotVars
<1>3. ASSUME NEW n PROVE ~WriteActiveSlot(n)
  BY DEF WriteActiveSlot, Served, Unlocked
<1>4. ASSUME NEW b PROVE ~WriteLockState(b) /\ ~WriteLockCode(b)
  BY DEF WriteLockState, WriteLockCode, Served, Unlocked
<1>5. ASSUME NEW ecdh PROVE ~WriteEid(ecdh) /\ ~ClearSlot
  BY DEF WriteEid, ClearSlot, Served, Unlocked
<1>6. CASE ReadUnlock  BY <1>6 DEF ReadUnlock, slotVars
<1>7. CASE WriteUnlock  BY <1>7 DEF WriteUnlock, slotVars
<1>8. CASE Derive
  <2>1. \A s \in Slots : s # main.slot => ik'[s] = ik[s]
    BY <1>8 DEF Derive, TypeOK
  <2>2. Pending(main.slot)  BY <1>8 DEF Derive, Pending
  <2> QED  BY <1>8, <2>1, <2>2 DEF Derive
<1>9. CASE FrameSet \/ Load \/ Encrypt \/ Copy
  BY <1>9 DEF FrameSet, Load, Encrypt, Copy, slotVars
<1>10. CASE UNCHANGED vars  BY <1>10 DEF vars
<1> QED
  BY <1>1, <1>2, <1>3, <1>4, <1>5, <1>6, <1>7, <1>8, <1>9, <1>10
     DEF Next, Interrupt, MainLoop

\* The lock protects lock key and identity keys, whatever the interrupt hits
\* (ble_eddystone_is_unlocked and its uses).
THEOREM LockedKeysStay == Spec => LockedMeansFrozen
<1>1. TypeOK /\ [Next]_vars
      => [lockState = LOCKED =>
            /\ lockKey' = lockKey /\ buffer' = buffer
            /\ \A s \in Slots : ik'[s] # ik[s] => Pending(s)]_vars
  BY LockedStep
<1> QED  BY <1>1, TypeCorrect, PTL DEF Spec, LockedMeansFrozen

\* A client that holds a challenge faces a locked beacon, and one that is
\* patient an idle main loop: nobody else uses the key block.
ChallengeKept ==
    offered # 0 => /\ lockState = LOCKED /\ Quiet
                   /\ ecb.cipher = Encrypted(lockKey, offered)

LEMMA ChallengeStep ==
    ASSUME Patient, TypeOK, ChallengeKept, [Next]_vars PROVE ChallengeKept'
<1> USE DEF ChallengeKept, Quiet
<1>1. CASE Connect  BY <1>1 DEF Connect, slotVars
<1>2. CASE Disconnect  BY <1>2 DEF Disconnect
<1>3. ASSUME Served PROVE offered = 0
  BY <1>3 DEF Served, Unlocked
<1>4. ASSUME NEW n, WriteActiveSlot(n) PROVE ChallengeKept'
  BY <1>3, <1>4 DEF WriteActiveSlot
<1>5. ASSUME NEW b, WriteLockState(b) \/ WriteLockCode(b) PROVE ChallengeKept'
  BY <1>3, <1>5 DEF WriteLockState, WriteLockCode
<1>6. ASSUME NEW ecdh, WriteEid(ecdh) PROVE ChallengeKept'
  BY <1>3, <1>6 DEF WriteEid
<1>7. CASE ClearSlot  BY <1>3, <1>7 DEF ClearSlot
<1>8. CASE ReadUnlock
  <2>1. ecb'.cipher = Encrypted(lockKey, fresh')
    BY <1>8 DEF ReadUnlock, Prepared
  <2> QED
    BY <1>8, <2>1 DEF ReadUnlock, Waited, Unlocked, slotVars
<1>9. CASE WriteUnlock  BY <1>9 DEF WriteUnlock, slotVars
<1>10. CASE FrameSet  BY <1>10 DEF FrameSet
<1>11. CASE Derive \/ Load \/ Encrypt \/ Copy
  BY <1>11 DEF Derive, Load, Encrypt, Copy
<1>12. CASE UNCHANGED vars  BY <1>12 DEF vars
<1> QED
  BY <1>1, <1>2, <1>4, <1>5, <1>6, <1>7, <1>8, <1>9, <1>10, <1>11, <1>12
     DEF Next, Interrupt, MainLoop

\* A client that lets exchanges finish before it reads Unlock is unlocked by
\* the answer to its challenge (eddystone_security.h:46).
THEOREM ChallengesAreKept == Patient => (Spec => []OfferedTokenUnlocks)
<1> SUFFICES ASSUME Patient PROVE Spec => []OfferedTokenUnlocks OBVIOUS
<1>1. Init => ChallengeKept  BY DEF Init, ChallengeKept
<1>2. TypeOK /\ ChallengeKept /\ [Next]_vars => ChallengeKept'
  BY ChallengeStep
<1>3. ChallengeKept => OfferedTokenUnlocks
  BY DEF ChallengeKept, OfferedTokenUnlocks
<1> QED  BY <1>1, <1>2, <1>3, TypeCorrect, PTL DEF Spec

-----------------------------------------------------------------------------
(* The keys of the slots *)

\* The slots that an exchange will still be started for.
Queued(s) == In(s, queue)
Running(s) == main.at # "idle" /\ main.slot = s

LEMMA PendingIs == \A s : Pending(s) <=> Queued(s) \/ Running(s)
BY DEF Pending, Queued, Running, In

\* The exchange carries the key of its slot through the key block to the place
\* a client reads it from, unless the slot was cleared or is written anew.
Carried ==
    /\ \A s \in Slots : isEid[s] /\ ~Queued(s) /\ ~Running(s)
                        => exposed[s].text = ik[s]
    /\ main.at = "encrypt" /\ isEid[main.slot] /\ ~Queued(main.slot)
       => ecb.clear = ik[main.slot]
    /\ main.at = "copy" /\ isEid[main.slot] /\ ~Queued(main.slot)
       => ecb.cipher.text = ik[main.slot]

LEMMA CarriedStep ==
    ASSUME Patient \/ ~Preempt, TypeOK, Carried, [Next]_vars PROVE Carried'
<1> USE DEF Carried
<1>1. ASSUME UNCHANGED <<isEid, ik, exposed, queue, main, ecb>> PROVE Carried'
  BY <1>1 DEF Queued, Running
<1>2. ASSUME UNCHANGED <<slotVars, main, ecb>> PROVE Carried'
  BY <1>1, <1>2 DEF slotVars
<1>3. CASE Connect \/ Disconnect  BY <1>2, <1>3 DEF Connect, Disconnect
<1>4. ASSUME NEW n, WriteActiveSlot(n) PROVE Carried'
  BY <1>2, <1>4 DEF WriteActiveSlot
<1>5. ASSUME NEW b, WriteLockState(b) \/ WriteLockCode(b) PROVE Carried'
  BY <1>2, <1>5 DEF WriteLockState, WriteLockCode
<1>6. CASE WriteUnlock  BY <1>2, <1>6 DEF WriteUnlock
<1>7. ASSUME NEW ecdh, WriteEid(ecdh) PROVE Carried'
  <2>1. \A s : Queued(s)' <=> Queued(s) \/ s = activeSlot
    BY <1>7, AppendIn DEF WriteEid, TypeOK, Queued
  <2>2. UNCHANGED <<ik, exposed, main, ecb>>  BY <1>7 DEF WriteEid
  <2>3. \A s \in Slots : s # activeSlot => isEid'[s] = isEid[s]
    BY <1>7 DEF WriteEid, TypeOK
  <2>4. main.slot \in Slots  BY DEF TypeOK, MainStates
  <2> QED  BY <2>1, <2>2, <2>3, <2>4 DEF Running
<1>8. CASE ClearSlot
  <2>1. \A s \in Slots : isEid'[s] => isEid[s] /\ ik'[s] = ik[s]
    BY <1>8 DEF ClearSlot, TypeOK
  <2>2. UNCHANGED <<exposed, queue, main, ecb>>  BY <1>8 DEF ClearSlot
  <2>3. main.slot \in Slots  BY DEF TypeOK, MainStates
  <2> QED  BY <2>1, <2>2, <2>3 DEF Queued, Running
<1>9. CASE InterruptAllowed /\ ReadUnlock
  <2>1. main.at = "idle"
    BY <1>9 DEF ReadUnlock, InterruptAllowed, Waited, Quiet
  <2>2. UNCHANGED <<isEid, ik, exposed, queue, main>>
    BY <1>9 DEF ReadUnlock, slotVars
  <2> QED  BY <2>1, <2>2 DEF Queued, Running
<1>10. CASE FrameSet
  <2>1. Head(queue) \in Slots  BY <1>10 DEF FrameSet, TypeOK
  <2>2. \A s : Queued(s) => Queued(s)' \/ s = Head(queue)
    BY <1>10, TailIn DEF FrameSet, TypeOK, Queued
  <2>3. main.at = "idle" /\ UNCHANGED <<isEid, ik, exposed, ecb>>
    BY <1>10 DEF FrameSet
  <2>4. CASE isEid[Head(queue)]
    <3>1. main'.at = "derive" /\ main'.slot = Head(queue)
      BY <1>10, <2>4 DEF FrameSet
    <3> QED  BY <2>2, <2>3, <3>1 DEF Running
  <2>5. CASE ~isEid[Head(queue)]
    <3>1. main' = main  BY <1>10, <2>5 DEF FrameSet
    <3> QED  BY <2>2, <2>3, <2>5, <3>1 DEF Running
  <2> QED  BY <2>4, <2>5
<1>11. CASE Derive
  <2>1. main.slot \in Slots /\ main.at = "derive"
    BY <1>11 DEF Derive, TypeOK, MainStates
  <2>2. main'.at = "load" /\ main'.slot = main.slot
    BY <1>11 DEF Derive, TypeOK, MainStates
  <2>3. \A s \in Slots : s # main.slot => isEid'[s] = isEid[s] /\ ik'[s] = ik[s]
    BY <1>11 DEF Derive, TypeOK
  <2>4. UNCHANGED <<exposed, queue, ecb>>  BY <1>11 DEF Derive
  <2> QED  BY <2>1, <2>2, <2>3, <2>4 DEF Queued, Running
<1>12. CASE Load
  <2>1. main.at = "load" /\ main'.at = "encrypt" /\ main'.slot = main.slot
    BY <1>12 DEF Load, TypeOK, MainStates
  <2>2. ecb'.clear = ik[main.slot]  BY <1>12 DEF Load, TypeOK
  <2>3. UNCHANGED <<isEid, ik, exposed, queue>>  BY <1>12 DEF Load, slotVars
  <2> QED  BY <2>1, <2>2, <2>3 DEF Queued, Running
<1>13. CASE Encrypt
  <2>1. main.at = "encrypt" /\ main'.at = "copy" /\ main'.slot = main.slot
    BY <1>13 DEF Encrypt, TypeOK, MainStates
  <2>2. ecb'.cipher.text = ecb.clear  BY <1>13 DEF Encrypt, Encrypted, TypeOK
  <2>3. UNCHANGED <<isEid, ik, exposed, queue>>  BY <1>13 DEF Encrypt, slotVars
  <2> QED  BY <2>1, <2>2, <2>3 DEF Queued, Running
<1>14. CASE Copy
  <2>1. main.at = "copy" /\ main.slot \in Slots /\ main'.at = "idle"
    BY <1>14 DEF Copy, Idle, TypeOK, MainStates
  <2>2. /\ exposed'[main.slot] = ecb.cipher
        /\ \A s \in Slots : s # main.slot => exposed'[s] = exposed[s]
    BY <1>14, <2>1 DEF Copy, TypeOK
  <2>3. UNCHANGED <<isEid, ik, queue>>  BY <1>14 DEF Copy
  <2> QED  BY <2>1, <2>2, <2>3 DEF Queued, Running
<1>15. CASE UNCHANGED vars  BY <1>1, <1>15 DEF vars
<1> QED
  BY <1>3, <1>4, <1>5, <1>6, <1>7, <1>8, <1>9, <1>10, <1>11, <1>12, <1>13,
     <1>14, <1>15 DEF Next, Interrupt, MainLoop

\* Once its exchange is over, the key a client reads back from a slot is the
\* slot's, if clients let exchanges finish before they read Unlock, or no
\* interrupt hits one (eddystone_security.h:125).
THEOREM ExposedKeys == Patient \/ ~Preempt => (Spec => []ExposedKeyIsSlotsKey)
<1> SUFFICES ASSUME Patient \/ ~Preempt PROVE Spec => []ExposedKeyIsSlotsKey
  OBVIOUS
<1>1. Init => Carried
  BY DEF Init, Carried, Idle, Encrypted
<1>2. TypeOK /\ Carried /\ [Next]_vars => Carried'
  BY CarriedStep
<1>3. Carried => ExposedKeyIsSlotsKey
  BY PendingIs DEF Carried, ExposedKeyIsSlotsKey
<1> QED  BY <1>1, <1>2, <1>3, TypeCorrect, PTL DEF Spec

\* Of patient clients, every write that waits is encrypted under the lock key
\* the exchange will find, and what the exchange has derived is the write's.
Given ==
    /\ \A s \in Slots : Queued(s) => buffer[s].block.key = lockKey
    /\ main.at = "derive" =>
           /\ main.key = lockKey /\ main.write.block.key = lockKey
           /\ Queued(main.slot) \/ main.write = buffer[main.slot]
    /\ \A s \in Slots :
           /\ isEid[s] /\ ~Queued(s) /\ buffer[s] # NoWrite
           /\ ~(main.at = "derive" /\ main.slot = s)
           => ik[s] = buffer[s].block.text

LEMMA GivenStep == ASSUME Patient, TypeOK, Given, [Next]_vars PROVE Given'
<1> USE DEF Given
<1>1. ASSUME UNCHANGED <<lockKey, isEid, buffer, ik, queue, main>> PROVE Given'
  BY <1>1 DEF Queued
<1>2. ASSUME UNCHANGED <<lockKey, slotVars, main>> PROVE Given'
  BY <1>1, <1>2 DEF slotVars
<1>3. CASE Connect \/ Disconnect  BY <1>2, <1>3 DEF Connect, Disconnect
<1>4. ASSUME NEW n, WriteActiveSlot(n) PROVE Given'
  BY <1>2, <1>4 DEF WriteActiveSlot
<1>5. ASSUME NEW b, WriteLockState(b) PROVE Given'
  BY <1>2, <1>5 DEF WriteLockState
<1>6. ASSUME NEW b, WriteLockCode(b) PROVE Given'
  <2>1. queue = <<>> /\ main.at = "idle" /\ UNCHANGED <<slotVars, main>>
    BY <1>6 DEF WriteLockCode, Waited, Quiet
  <2>2. \A s : ~Queued(s) /\ ~Queued(s)'  BY <2>1 DEF Queued, In, slotVars
  <2> QED  BY <2>1, <2>2 DEF slotVars
<1>7. CASE ReadUnlock \/ WriteUnlock
  BY <1>2, <1>7 DEF ReadUnlock, WriteUnlock
<1>8. ASSUME NEW ecdh, WriteEid(ecdh) PROVE Given'
  <2>1. \A s : Queued(s)' <=> Queued(s) \/ s = activeSlot
    BY <1>8, AppendIn DEF WriteEid, TypeOK, Queued
  <2>2. UNCHANGED <<lockKey, ik, main>>  BY <1>8 DEF WriteEid
  <2>3. \A s \in Slots : s # activeSlot => isEid'[s] = isEid[s] /\ buffer'[s] = buffer[s]
    BY <1>8 DEF WriteEid, TypeOK
  <2>4. buffer'[activeSlot].block.key = lockKey
    BY <1>8 DEF WriteEid, TypeOK, Encrypted
  <2>5. main.slot \in Slots  BY DEF TypeOK, MainStates
  <2> QED  BY <2>1, <2>2, <2>3, <2>4, <2>5
<1>9. CASE ClearSlot
  <2>1. \A s \in Slots : isEid'[s] => isEid[s] /\ ik'[s] = ik[s]
    BY <1>9 DEF ClearSlot, TypeOK
  <2>2. UNCHANGED <<lockKey, buffer, queue, main>>  BY <1>9 DEF ClearSlot
  <2> QED  BY <2>1, <2>2 DEF Queued
<1>10. CASE FrameSet
  <2>1. Head(queue) \in Slots /\ Queued(Head(queue))
    BY <1>10, TailIn DEF FrameSet, TypeOK, Queued
  <2>2. \A s : /\ Queued(s)' => Queued(s)
               /\ Queued(s) => Queued(s)' \/ s = Head(queue)
    BY <1>10, TailIn DEF FrameSet, TypeOK, Queued
  <2>3. main.at = "idle" /\ UNCHANGED <<lockKey, isEid, buffer, ik>>
    BY <1>10 DEF FrameSet
  <2>4. CASE isEid[Head(queue)]
    <3>1. main' = [at |-> "derive", slot |-> Head(queue),
                   write |-> buffer[Head(queue)], key |-> lockKey]
      BY <1>10, <2>4 DEF FrameSet
    <3> QED  BY <2>1, <2>2, <2>3, <3>1
  <2>5. CASE ~isEid[Head(queue)]
    <3>1. main' = main  BY <1>10, <2>5 DEF FrameSet
    <3> QED  BY <2>1, <2>2, <2>3, <2>5, <3>1
  <2> QED  BY <2>4, <2>5
<1>11. CASE Derive
  <2>1. main.slot \in Slots /\ main.at = "derive"
    BY <1>11 DEF Derive, TypeOK, MainStates
  <2>2. main'.at = "load"  BY <1>11 DEF Derive, TypeOK, MainStates
  <2>3. \A s \in Slots : s # main.slot => isEid'[s] = isEid[s] /\ ik'[s] = ik[s]
    BY <1>11 DEF Derive, TypeOK
  <2>4. UNCHANGED <<lockKey, buffer, queue>>  BY <1>11 DEF Derive
  <2>5. Derived(lockKey, main.write) = main.write.block.text
    BY <2>1 DEF Derived, Decrypted
  <2>6. ik'[main.slot] = main.write.block.text
    <3>1. PICK k \in {main.key, lockKey} :
              ik' = [ik EXCEPT ![main.slot] = Derived(k, main.write)]
      BY <1>11 DEF Derive
    <3>2. k = lockKey  BY <2>1, <3>1
    <3> QED  BY <2>1, <2>5, <3>1, <3>2 DEF TypeOK
  <2> QED  BY <2>1, <2>2, <2>3, <2>4, <2>6 DEF Queued
<1>12. CASE Load \/ Encrypt
  <2>1. main.at # "derive" /\ main'.at # "derive"
    BY <1>12 DEF Load, Encrypt, TypeOK, MainStates
  <2>2. UNCHANGED <<lockKey, isEid, buffer, ik, queue>>
    BY <1>12 DEF Load, Encrypt, slotVars
  <2> QED  BY <2>1, <2>2 DEF Queued
<1>13. CASE Copy
  <2>1. main.at # "derive" /\ main'.at # "derive"
    BY <1>13 DEF Copy, Idle
  <2>2. UNCHANGED <<lockKey, isEid, buffer, ik, queue>>  BY <1>13 DEF Copy
  <2> QED  BY <2>1, <2>2 DEF Queued
<1>14. CASE UNCHANGED vars  BY <1>1, <1>14 DEF vars
<1> QED
  BY <1>3, <1>4, <1>5, <1>6, <1>7, <1>8, <1>9, <1>10, <1>11, <1>12, <1>13,
     <1>14 DEF Next, Interrupt, MainLoop

\* The identity key of a slot is the one its client had sent, if clients change
\* the lock key only when no exchange is under way (eddystone_security.h:73).
THEOREM KeysAsGiven == Patient => (Spec => []KeyAsGiven)
<1> SUFFICES ASSUME Patient PROVE Spec => []KeyAsGiven OBVIOUS
<1>1. Init => Given
  BY DEF Init, Given, Idle, Queued, In
<1>2. TypeOK /\ Given /\ [Next]_vars => Given'
  BY GivenStep
<1>3. Given => KeyAsGiven
  BY PendingIs DEF Given, KeyAsGiven, Running
<1> QED  BY <1>1, <1>2, <1>3, TypeCorrect, PTL DEF Spec
=============================================================================
