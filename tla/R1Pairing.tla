----------------------------- MODULE R1Pairing ------------------------------
(***************************************************************************)
(* internal/clients/r1/handshake.go and device.go, called by the first     *)
(* half of serveConnection in server.go: how a device is paired with the   *)
(* gateway, once and for all, and how it is recognised afterwards.         *)
(*                                                                         *)
(* DeviceStore keeps one device in memory and in a file.  A device proves  *)
(* itself with the bootstrap secret of the QR code, or with the device     *)
(* token it got in return.  server.go serves one connection at a time, so  *)
(* one handshake is under way at most.  Crashes, and connections that die  *)
(* before the device has read the hello, can come between any two steps.   *)
(***************************************************************************)
EXTENDS Integers

CONSTANTS
  Devices,    \* devices that connect, each with a key pair of its own
  MaxFaults,  \* bound on crashes, failing writes and lost hellos
  CanPair     \* is a bootstrap token configured?

ASSUME ConstantsAssumption ==
  /\ MaxFaults \in Nat /\ CanPair \in BOOLEAN

VARIABLES
  disk,    \* the state file: the paired device, or Nothing
  dev,     \* DeviceStore.dev
  up,      \* is the gateway running?
  stage,   \* of the connection being served
  peer,    \* the device at its other end
  pairing, \* the device record that Pair is about to write, or Nothing
  granted, \* the device token that the hello will carry
  held,    \* per device: the device token it holds; 0 is none
  minted,  \* number of the last token that was minted
  faults   \* crashes, failing writes and lost hellos so far

vars == <<disk, dev, up, stage, peer, pairing, granted, held, minted, faults>>

\* A paired device.  Its key pair and its id are one here; tokens are numbered
\* in the order in which mintDeviceToken draws them.
Records == [device : Devices, token : Nat \ {0}]
Nothing == [device |-> "no device", token |-> 0]

Stages == {"none", "challenged", "storing", "stored", "hello", "connected"}

Init ==
  /\ disk = Nothing /\ dev = Nothing /\ up = TRUE
  /\ stage = "none" /\ peer \in Devices
  /\ pairing = Nothing /\ granted = 0
  /\ held = [d \in Devices |-> 0]
  /\ minted = 0 /\ faults = 0

Fault == faults < MaxFaults /\ faults' = faults + 1
-----------------------------------------------------------------------------
(* serveConnection, up to the connected state.                             *)

Connect(d) ==
  /\ up /\ stage = "none"
  /\ stage' = "challenged" /\ peer' = d
  /\ UNCHANGED <<disk, dev, up, pairing, granted, held, minted, faults>>

\* The ten seconds pass, the first frame is no connect request, or Handle
\* finds a protocol, role, identity, nonce or signature it cannot accept.
HandshakeFails ==
  /\ stage = "challenged"
  /\ stage' = "none"
  /\ UNCHANGED <<disk, dev, up, peer, pairing, granted, held, minted, faults>>

\* DeviceStore.LookupByToken, and the key of the device it finds.
Recognised(d, token) == dev # Nothing /\ dev.token = token /\ dev.device = d

\* Handle, for a device token: the stored device reconnects, and keeps its
\* token; anybody else is refused.
PresentDeviceToken ==
  /\ stage = "challenged" /\ held[peer] # 0
  /\ IF Recognised(peer, held[peer])
     THEN stage' = "hello" /\ granted' = held[peer]
     ELSE stage' = "none" /\ UNCHANGED granted
  /\ UNCHANGED <<disk, dev, up, peer, pairing, held, minted, faults>>

\* Slip: the secret pairs again what is paired already.
PairAgain ==
  /\ stage = "challenged"
  /\ IF CanPair
     THEN /\ minted' = minted + 1
          /\ pairing' = [device |-> peer, token |-> minted + 1]
          /\ stage' = "storing"
     ELSE stage' = "none" /\ UNCHANGED <<minted, pairing>>
  /\ UNCHANGED <<disk, dev, up, peer, granted, held, faults>>

\* Slip: the record is made before its token is minted.
PairBeforeMint ==
  /\ stage = "challenged"
  /\ IF CanPair /\ dev = Nothing
     THEN /\ minted' = minted + 1
          /\ pairing' = [device |-> peer, token |-> minted]
          /\ stage' = "storing"
     ELSE stage' = "none" /\ UNCHANGED <<minted, pairing>>
  /\ UNCHANGED <<disk, dev, up, peer, granted, held, faults>>

\* Handle, for the bootstrap secret: refused once a device is paired;
\* otherwise Pair mints a token and begins to write the record.
PresentBootstrap ==
  /\ stage = "challenged"
  /\ IF CanPair /\ dev = Nothing
     THEN /\ minted' = minted + 1
          /\ pairing' = [device |-> peer, token |-> minted + 1]
          /\ stage' = "storing"
     ELSE stage' = "none" /\ UNCHANGED <<minted, pairing>>
  /\ UNCHANGED <<disk, dev, up, peer, granted, held, faults>>

\* Slip: an error of the write is ignored.
StoreUnchecked ==
  /\ stage = "storing" /\ stage' = "stored"
  /\ \/ disk' = pairing /\ UNCHANGED faults
     \/ Fault /\ UNCHANGED disk
  /\ UNCHANGED <<pairing, dev, up, peer, granted, held, minted>>

\* writeLocked: the rename replaces the file in one step; an error before it
\* leaves the file alone and is answered INTERNAL.
StoreDevice ==
  /\ stage = "storing"
  /\ \/ disk' = pairing /\ stage' = "stored" /\ UNCHANGED <<pairing, faults>>
     \/ pairing' = Nothing /\ stage' = "none" /\ Fault /\ UNCHANGED disk
  /\ UNCHANGED <<dev, up, peer, granted, held, minted>>

\* Slip: the hello carries the token that was presented.
AdoptWithoutToken ==
  /\ stage = "stored"
  /\ dev' = pairing /\ granted' = held[peer] /\ pairing' = Nothing
  /\ stage' = "hello"
  /\ UNCHANGED <<disk, up, peer, held, minted, faults>>

\* Slip: Pair waits for the mutex that it holds itself.
AdoptLocked == stage = "stored" /\ UNCHANGED vars

\* Pair sets s.dev and Handle returns the token for the hello.
Adopt ==
  /\ stage = "stored"
  /\ dev' = pairing /\ granted' = pairing.token /\ pairing' = Nothing
  /\ stage' = "hello"
  /\ UNCHANGED <<disk, up, peer, held, minted, faults>>

\* The hello is written: the device reads its token, or never does.
SendHello ==
  /\ stage = "hello"
  /\ \/ held' = [held EXCEPT ![peer] = granted] /\ stage' = "connected" /\ UNCHANGED faults
     \/ stage' = "none" /\ Fault /\ UNCHANGED held
  /\ UNCHANGED <<disk, dev, up, peer, pairing, granted, minted>>

Disconnect ==
  /\ stage = "connected"
  /\ stage' = "none"
  /\ UNCHANGED <<disk, dev, up, peer, pairing, granted, held, minted, faults>>

\* The process dies: the connection and DeviceStore.dev go, the file stays.
Crash ==
  /\ up /\ Fault
  /\ up' = FALSE /\ stage' = "none" /\ dev' = Nothing /\ pairing' = Nothing
  /\ UNCHANGED <<disk, peer, granted, held, minted>>

\* Slip: the file is not read again.
RestartEmpty ==
  /\ ~up
  /\ up' = TRUE /\ dev' = Nothing
  /\ UNCHANGED <<disk, stage, peer, pairing, granted, held, minted, faults>>

\* OpenDeviceStore.
Restart ==
  /\ ~up
  /\ up' = TRUE /\ dev' = disk
  /\ UNCHANGED <<disk, stage, peer, pairing, granted, held, minted, faults>>

Serve == \/ HandshakeFails \/ PresentDeviceToken \/ PresentBootstrap
         \/ StoreDevice \/ Adopt \/ SendHello

Next == (\E d \in Devices : Connect(d)) \/ Serve \/ Disconnect \/ Crash \/ Restart

Spec == Init /\ [][Next]_vars

\* A handshake goes on by itself: reads and writes end within ten seconds.
FairSpec == Spec /\ WF_vars(Serve)
-----------------------------------------------------------------------------
(* Properties.                                                             *)

\* Every variable has its type.
TypeOK ==
  /\ {disk, dev, pairing} \subseteq Records \cup {Nothing}
  /\ up \in BOOLEAN
  /\ stage \in Stages /\ peer \in Devices
  /\ granted \in Nat /\ minted \in Nat
  /\ held \in [Devices -> Nat]
  /\ faults \in 0 .. MaxFaults

\* A pairing is for ever: no later handshake, crash or restart replaces the
\* device on disk or its token ("single-device pairing policy").
PairedForEver == [][disk # Nothing => disk' = disk]_vars

\* The store in memory is the store on disk, except while Pair is between the
\* rename and its assignment.
MemoryIsDisk == up /\ stage # "stored" => dev = disk

\* No device ever holds a token that the gateway would refuse it, and a device
\* that is connected holds one, so it can reconnect after any crash.
HeldTokensAreGood ==
  /\ \A d \in Devices : held[d] # 0 => disk = [device |-> d, token |-> held[d]]
  /\ stage = "connected" => held[peer] # 0

\* The paired device lacks its token only while its first handshake is under
\* way, or after a fault cut that handshake short.  (Then it never gets one:
\* the bootstrap secret is refused from now on.)
LockedOut == disk # Nothing /\ held[disk.device] # disk.token
LockoutNeedsFault ==
  LockedOut => faults > 0 \/ (peer = disk.device /\ stage \in {"stored", "hello"})

\* "timeout to prevent hung connections from locking out the real R1": every
\* handshake ends, and the gateway is ready for the next one.
HandshakeEnds == stage \in Stages \ {"none", "connected"} ~> stage \in {"none", "connected"}

=============================================================================
