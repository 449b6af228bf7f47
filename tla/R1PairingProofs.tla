-------------------------- MODULE R1PairingProofs ---------------------------
(***************************************************************************)
(* Theorems about R1Pairing, for any number of devices, crashes, failing   *)
(* writes and lost hellos.                                                 *)
(***************************************************************************)
EXTENDS R1Pairing, TLAPS

\* What each stage of a handshake knows about the file and the tokens.
PairingInv ==
  /\ TypeOK
  /\ MemoryIsDisk
  /\ stage # "none" => up
  /\ stage = "storing" => disk = Nothing /\ pairing \in Records
  /\ stage = "stored" => disk = pairing /\ pairing \in Records /\ pairing.device = peer
  /\ stage = "storing" => pairing.device = peer
  /\ stage = "hello" => disk \in Records /\ disk = [device |-> peer, token |-> granted]
  /\ HeldTokensAreGood

(* The empty store is no device record: its token is 0. *)
LEMMA NothingIsNoRecord ==
  ASSUME NEW d, NEW n \in Nat, n # 0
  PROVE  Nothing # [device |-> d, token |-> n] /\ Nothing \notin Records
<1>1. Nothing.token = 0
  BY DEF Nothing
<1>2. [device |-> d, token |-> n].token = n
  OBVIOUS
<1>3. \A r \in Records : r.token # 0
  BY DEF Records
<1>. QED  BY <1>1, <1>2, <1>3

(* The gateway starts unpaired and idle. *)
LEMMA PairingInit == Init => PairingInv
<1>. SUFFICES ASSUME Init PROVE PairingInv
  OBVIOUS
<1>1. TypeOK
  BY ConstantsAssumption DEF Init, TypeOK, Stages
<1>2. MemoryIsDisk /\ HeldTokensAreGood /\ stage = "none" /\ up = TRUE
  BY DEF Init, MemoryIsDisk, HeldTokensAreGood
<1>. QED  BY <1>1, <1>2 DEF PairingInv

(* Every step of a handshake, a crash or a restart keeps PairingInv. *)
LEMMA PairingStep == PairingInv /\ [Next]_vars => PairingInv'
<1>. SUFFICES ASSUME PairingInv, [Next]_vars PROVE PairingInv'
  OBVIOUS
<1>. USE ConstantsAssumption
     DEF PairingInv, TypeOK, MemoryIsDisk, HeldTokensAreGood, Stages
<1>1. ASSUME NEW d \in Devices, Connect(d) PROVE PairingInv'
  BY <1>1 DEF Connect
<1>2. CASE HandshakeFails
  BY <1>2 DEF HandshakeFails
<1>3. CASE PresentDeviceToken
  <2>1. CASE Recognised(peer, held[peer])
    <3>1. disk = [device |-> peer, token |-> held[peer]] /\ disk \in Records
      BY <1>3 DEF PresentDeviceToken, Records
    <3>. QED  BY <1>3, <2>1, <3>1 DEF PresentDeviceToken
  <2>2. CASE ~Recognised(peer, held[peer])
    BY <1>3, <2>2 DEF PresentDeviceToken
  <2>. QED  BY <2>1, <2>2
<1>4. CASE PresentBootstrap
  <2>1. CASE CanPair /\ dev = Nothing
    <3>1. /\ stage' = "storing" /\ minted' = minted + 1
          /\ pairing' = [device |-> peer, token |-> minted + 1]
          /\ UNCHANGED <<disk, dev, up, peer, granted, held, faults>>
          /\ stage = "challenged"
      BY <1>4, <2>1 DEF PresentBootstrap
    <3>2. pairing' \in Records /\ pairing'.device = peer
      BY <3>1 DEF Records
    <3>3. disk = Nothing
      BY <2>1, <3>1
    <3>. QED  BY <3>1, <3>2, <3>3
  <2>2. CASE ~(CanPair /\ dev = Nothing)
    BY <1>4, <2>2 DEF PresentBootstrap
  <2>. QED  BY <2>1, <2>2
<1>5. CASE StoreDevice
  <2>1. \A d \in Devices : held[d] = 0
    BY <1>5, NothingIsNoRecord DEF StoreDevice
  <2>2. CASE disk' = pairing /\ stage' = "stored" /\ UNCHANGED <<pairing, faults>>
    BY <1>5, <2>1, <2>2 DEF StoreDevice
  <2>3. CASE pairing' = Nothing /\ stage' = "none" /\ Fault /\ UNCHANGED disk
    BY <1>5, <2>3 DEF StoreDevice, Fault
  <2>. QED  BY <1>5, <2>2, <2>3 DEF StoreDevice
<1>6. CASE Adopt
  <2>1. disk \in Records /\ disk = [device |-> peer, token |-> pairing.token]
    BY <1>6 DEF Adopt, Records
  <2>2. pairing.token \in Nat
    BY <1>6 DEF Adopt, Records
  <2>. QED  BY <1>6, <2>1, <2>2 DEF Adopt
<1>7. CASE SendHello
  <2>1. CASE held' = [held EXCEPT ![peer] = granted] /\ stage' = "connected" /\ UNCHANGED faults
    <3>1. /\ disk = [device |-> peer, token |-> granted] /\ disk \in Records
          /\ UNCHANGED <<disk, dev, up, peer, pairing, granted, minted>>
      BY <1>7 DEF SendHello
    <3>2. granted \in Nat \ {0}
      BY <3>1 DEF Records
    <3>3. held'[peer] = granted /\ \A d \in Devices : d # peer => held'[d] = held[d]
      BY <2>1
    <3>4. HeldTokensAreGood'
      BY <2>1, <3>1, <3>2, <3>3
    <3>5. TypeOK'
      BY <2>1, <3>1, <3>2
    <3>6. stage' = "connected" /\ up'
      BY <1>7, <2>1 DEF SendHello
    <3>7. MemoryIsDisk'
      BY <3>1, <3>6, <1>7 DEF SendHello
    <3>. QED  BY <3>4, <3>5, <3>6, <3>7
  <2>2. CASE stage' = "none" /\ Fault /\ UNCHANGED held
    BY <1>7, <2>2 DEF SendHello, Fault
  <2>. QED  BY <1>7, <2>1, <2>2 DEF SendHello
<1>8. CASE Disconnect
  BY <1>8 DEF Disconnect
<1>9. CASE Crash
  <2>1. /\ up' = FALSE /\ stage' = "none" /\ dev' = Nothing /\ pairing' = Nothing
        /\ UNCHANGED <<disk, peer, granted, held, minted>>
    BY <1>9 DEF Crash
  <2>2. faults' \in 0 .. MaxFaults
    BY <1>9 DEF Crash, Fault
  <2>3. TypeOK'
    BY <2>1, <2>2
  <2>4. HeldTokensAreGood'
    BY <2>1
  <2>. QED  BY <2>1, <2>3, <2>4
<1>10. CASE Restart
  BY <1>10 DEF Restart
<1>11. CASE UNCHANGED vars
  BY <1>11 DEF vars
<1>. QED  BY <1>1, <1>2, <1>3, <1>4, <1>5, <1>6, <1>7, <1>8, <1>9, <1>10, <1>11
          DEF Next, Serve

(* What PairingInv says holds of every behaviour. *)
LEMMA PairingSound == Spec => []PairingInv
BY PairingInit, PairingStep, PTL DEF Spec

(* Every variable keeps its type. *)
THEOREM PairingTyped == Spec => []TypeOK
<1>1. PairingInv => TypeOK
  BY DEF PairingInv
<1>. QED  BY <1>1, PairingSound, PTL

(* HeldTokensAreGood: whatever crashes and losses come between the steps of a *)
(* handshake, the token that a device holds is the one on disk.              *)
THEOREM TokensStayGood == Spec => []HeldTokensAreGood
<1>1. PairingInv => HeldTokensAreGood
  BY DEF PairingInv
<1>. QED  BY <1>1, PairingSound, PTL

(* MemoryIsDisk: memory and disk disagree only between the rename and the     *)
(* assignment that follows it.                                               *)
THEOREM MemoryFollowsDisk == Spec => []MemoryIsDisk
<1>1. PairingInv => MemoryIsDisk
  BY DEF PairingInv
<1>. QED  BY <1>1, PairingSound, PTL

(* No step takes a fault back. *)
LEMMA FaultsStay ==
  ASSUME PairingInv, [Next]_vars
  PROVE  faults \in Nat /\ faults' \in Nat /\ faults' >= faults
<1>1. faults \in Nat
  BY ConstantsAssumption DEF PairingInv, TypeOK
<1>2. UNCHANGED faults \/ Fault
  BY DEF Next, Serve, Connect, HandshakeFails, PresentDeviceToken, PresentBootstrap,
         StoreDevice, Adopt, SendHello, Disconnect, Crash, Restart, vars
<1>. QED  BY <1>1, <1>2 DEF Fault

(* LockoutNeedsFault: without a crash, a failed write or a lost hello, the    *)
(* paired device always gets its token.                                      *)
THEOREM NoLockoutByDesign == Spec => []LockoutNeedsFault
<1>. DEFINE Arriving == peer = disk.device /\ stage \in {"stored", "hello"}
<1>1. Init => LockoutNeedsFault
  BY DEF Init, LockoutNeedsFault, LockedOut
<1>2. ASSUME PairingInv, LockoutNeedsFault, [Next]_vars PROVE LockoutNeedsFault'
  <2>1. faults \in Nat /\ faults' \in Nat /\ faults' >= faults
    BY <1>2, FaultsStay
  <2>2. CASE faults > 0
    <3>1. faults' > 0
      BY <2>1, <2>2
    <3>. QED  BY <3>1 DEF LockoutNeedsFault
  <2>3. CASE ~(faults > 0) /\ ~Arriving
    <3>1. ~LockedOut
      BY <1>2, <2>3 DEF LockoutNeedsFault
    <3>2. CASE StoreDevice
      BY <1>2, <2>1, <3>1, <3>2 DEF StoreDevice, PairingInv, Fault, LockoutNeedsFault, LockedOut
    <3>3. CASE SendHello
      BY <1>2, <2>3, <3>3 DEF SendHello, PairingInv
    <3>4. CASE Crash
      BY <2>1, <3>4 DEF Crash, Fault, LockoutNeedsFault
    <3>5. CASE Adopt
      BY <1>2, <2>3, <3>5 DEF Adopt, PairingInv
    <3>6. CASE UNCHANGED <<disk, held>>
      BY <3>1, <3>6 DEF LockedOut, LockoutNeedsFault
    <3>. QED  BY <1>2, <3>2, <3>3, <3>4, <3>5, <3>6
              DEF Next, Serve, Connect, HandshakeFails, PresentDeviceToken, PresentBootstrap,
                  Disconnect, Restart, vars
  <2>4. CASE ~(faults > 0) /\ Arriving
    <3>1. CASE Adopt
      BY <2>4, <3>1 DEF Adopt, LockoutNeedsFault
    <3>2. CASE SendHello
      <4>1. disk' = [device |-> peer, token |-> granted] /\ peer \in Devices
        BY <1>2, <3>2 DEF SendHello, PairingInv, TypeOK
      <4>2. CASE held' = [held EXCEPT ![peer] = granted]
        BY <1>2, <4>1, <4>2 DEF PairingInv, TypeOK, LockoutNeedsFault, LockedOut
      <4>3. CASE Fault
        BY <2>1, <4>3 DEF Fault, LockoutNeedsFault
      <4>. QED  BY <3>2, <4>2, <4>3 DEF SendHello
    <3>3. CASE Crash
      BY <2>1, <3>3 DEF Crash, Fault, LockoutNeedsFault
    <3>4. CASE UNCHANGED <<disk, peer, stage>>
      BY <2>4, <3>4 DEF LockoutNeedsFault
    <3>5. ~Restart
      BY <1>2, <2>4 DEF Restart, PairingInv
    <3>. QED  BY <1>2, <2>4, <3>1, <3>2, <3>3, <3>4, <3>5
              DEF Next, Serve, Connect, HandshakeFails, PresentDeviceToken, PresentBootstrap,
                  StoreDevice, Disconnect, vars
  <2>. QED  BY <2>2, <2>3, <2>4
<1>. QED  BY <1>1, <1>2, PairingSound, PTL DEF Spec

(* PairedForEver: no step of any handshake, crash or restart ever replaces  *)
(* the paired device or its token.                                          *)
THEOREM PairingIsForEver == Spec => PairedForEver
<1>1. PairingInv /\ [Next]_vars => [disk # Nothing => disk' = disk]_vars
  BY DEF PairingInv, Next, Serve, Connect, HandshakeFails, PresentDeviceToken,
         PresentBootstrap, StoreDevice, Adopt, SendHello, Disconnect, Crash, Restart, vars
<1>. QED  BY <1>1, PairingSound, PTL DEF Spec, PairedForEver

(* A device that is locked out stays locked out: once its first handshake was   *)
(* cut short, no later connection, token, crash or restart gives it the token   *)
(* that its pairing is worth, because the bootstrap secret is refused and a     *)
(* device token is all that is left.  Only deleting the file helps.             *)
CutOff == LockedOut /\ ~(peer = disk.device /\ stage \in {"stored", "hello"})

THEOREM LockoutIsForEver == Spec => [][CutOff => CutOff']_vars
<1>1. ASSUME PairingInv, CutOff, [Next]_vars PROVE CutOff'
  <2>1. /\ disk # Nothing /\ held[disk.device] # disk.token
        /\ disk \in Records /\ disk' = disk
    <3>1. disk # Nothing /\ held[disk.device] # disk.token /\ disk \in Records
      BY <1>1 DEF CutOff, LockedOut, PairingInv, TypeOK
    <3>2. disk' = disk
      BY <1>1, <3>1 DEF PairingInv, Next, Serve, Connect, HandshakeFails, PresentDeviceToken,
             PresentBootstrap, StoreDevice, Adopt, SendHello, Disconnect, Crash, Restart, vars
    <3>. QED  BY <3>1, <3>2
  <2>2. stage \notin {"storing", "stored", "hello"}
    <3>1. stage # "storing"
      BY <1>1, <2>1 DEF PairingInv
    <3>2. stage # "stored"
      BY <1>1 DEF CutOff, PairingInv
    <3>3. stage # "hello"
      <4>. SUFFICES ASSUME stage = "hello" PROVE disk.device = peer
        BY <1>1 DEF CutOff
      <4>. QED  BY <1>1 DEF PairingInv
    <3>. QED  BY <3>1, <3>2, <3>3
  <2>3. held' = held
    BY <1>1, <2>2 DEF Next, Serve, Connect, HandshakeFails, PresentDeviceToken,
           PresentBootstrap, StoreDevice, Adopt, SendHello, Disconnect, Crash, Restart, vars
  <2>4. ~(peer' = disk.device /\ stage' \in {"stored", "hello"})
    <3>1. CASE PresentDeviceToken
      <4>1. peer' = peer /\ held[peer] # 0 /\ peer \in Devices
        BY <1>1, <3>1 DEF PresentDeviceToken, PairingInv, TypeOK
      <4>2. disk = [device |-> peer, token |-> held[peer]]
        BY <1>1, <4>1 DEF PairingInv, HeldTokensAreGood
      <4>. QED  BY <2>1, <4>2
    <3>2. CASE PresentBootstrap
      BY <3>2 DEF PresentBootstrap
    <3>3. CASE Connect(peer') \/ HandshakeFails \/ Disconnect \/ Crash \/ Restart \/ UNCHANGED vars
      BY <1>1, <2>2, <3>3 DEF Connect, HandshakeFails, Disconnect, Crash, Restart, vars
    <3>. QED  BY <1>1, <2>2, <3>1, <3>2, <3>3
              DEF Next, Serve, StoreDevice, Adopt, SendHello, Connect
  <2>. QED  BY <2>1, <2>3, <2>4 DEF CutOff, LockedOut
<1>. QED  BY <1>1, PairingSound, PTL DEF Spec

=============================================================================
