---------------------------- MODULE RcLink_proofs ----------------------------
(***************************************************************************)
(* Theorems about SrxlBus, for every set of packets and every size of the  *)
(* tables, and about RcLink, where the bus runs behind the frame parser:   *)
(* what is proved of either of them alone holds of the two together.       *)
(***************************************************************************)
EXTENDS RcLink, RcParser_proofs, SequenceTheorems, FiniteSetTheorems, WellFoundedInduction

\* A step of the bus, by itself or with the parser's: BusIdle is the parser's alone.
BusStep == BusNext \/ BusIdle \/ UNCHANGED busVars

\* A poll for this device is neither broadcast nor unprompted.
LEMMA Addresses ==
    /\ Self # Broadcast /\ Self # 0
    /\ \A p : PollsUs(p) => p.dest # Broadcast /\ ~Unprompted(p)
  BY BusAssumption DEF Broadcast, PollsUs, Unprompted

----------------------------------------------------------------------------
(* Speaking and answering.                                                 *)

\* Between packets a slave has no telemetry to send, and a handshake only after
\* a poll.  After a poll it ignored it has none.
SlaveInv ==
    /\ ignored \in {0, 1}
    /\ ~master =>
        /\ state # "sendTelemetry"
        /\ state = "sendHandshake" => polled /\ ignored = 0

\* So it is after every packet, as a slave and as a master.
LEMMA ReceiveSlave ==
    ASSUME SlaveInv, NEW p \in Packets, Receive(p)
    PROVE  SlaveInv'
<1> USE Addresses DEF SlaveInv, Run
<1>1. /\ polled' = PollsUs(p)
      /\ ignored' = IF master' \/ ~PollsUs(p) THEN ignored
                    ELSE IF out' = <<>> THEN ignored + 1 ELSE 0
  BY DEF Receive
<1>2. CASE ParseControl(p)
  BY <1>1, <1>2 DEF ParseControl, PollsUs, Bumped, BelowRunning
<1>3. CASE BecomeMaster(p)
  BY <1>1, <1>3 DEF BecomeMaster
<1>4. CASE HandshakeAsMaster(p)
  BY <1>1, <1>4 DEF HandshakeAsMaster
<1>5. CASE BroadcastHandshake(p)
  BY <1>1, <1>5 DEF BroadcastHandshake
<1>6. CASE Poll(p)
  <2>1. CASE PollsUs(p) /\ MayReply
    <3>1. state' = "sendHandshake" /\ Len(out') = 1
      BY <1>6, <2>1 DEF Poll, PollsUs
    <3>2. out' # <<>>
      BY <3>1
    <3>3. QED
      BY <1>1, <1>6, <2>1, <3>1, <3>2
  <2>2. CASE PollsUs(p) /\ ~MayReply
    BY <1>1, <1>6, <2>2 DEF Poll, PollsUs, MayReply
  <2>3. CASE ~PollsUs(p)
    BY <1>1, <1>6, <2>3 DEF Poll, PollsUs
  <2>4. QED
    BY <2>1, <2>2, <2>3
<1>7. CASE ParseTelemetry(p)
  BY <1>1, <1>7 DEF ParseTelemetry, PollsUs, Bumped, BelowRunning
<1>8. CASE ParseBind(p)
  BY <1>1, <1>8 DEF ParseBind, PollsUs, Bumped, BelowRunning
<1>9. QED
  BY <1>2, <1>3, <1>4, <1>5, <1>6, <1>7, <1>8 DEF Receive, ParsePacket

\* A bus that starts has nothing to say.
LEMMA InitSlave == BusInit => SlaveInv
  BY DEF BusInit, SlaveInv

\* Every step keeps it.
LEMMA NextSlave ==
    ASSUME SlaveInv, BusStep
    PROVE  SlaveInv'
<1>1. ASSUME NEW p \in Packets, Receive(p) PROVE SlaveInv'
  BY <1>1, ReceiveSlave
<1>2. CASE RunAfterByte
  BY <1>2 DEF RunAfterByte, SlaveInv, StartupOver, GivesUp, BelowRunning, busHistory
<1>3. CASE BusRestart
  BY <1>3 DEF BusRestart, SlaveInv
<1>4. CASE BusIdle
  BY <1>4 DEF BusIdle, busHistory, SlaveInv
<1>5. CASE UNCHANGED busVars
  BY <1>5 DEF busVars, busHistory, SlaveInv
<1>6. QED
  BY <1>1, <1>2, <1>3, <1>4, <1>5 DEF BusStep, BusNext

\* What a slave may have to say between packets.
THEOREM Waiting == BusSpec => []SlaveInv
<1>1. SlaveInv /\ [BusNext]_busVars => SlaveInv'
  BY NextSlave DEF BusStep
<1>2. QED
  BY <1>1, InitSlave, PTL DEF BusSpec

\* AnswersAPollOfTwo: a slave never leaves two polls in a row unanswered,
\* whatever comes in between.
THEOREM Answers == BusSpec => []AnswersAPollOfTwo
<1>1. SlaveInv => AnswersAPollOfTwo
  BY DEF SlaveInv, AnswersAPollOfTwo
<1>2. QED
  BY <1>1, Waiting, PTL

\* A packet is sent only in a step that answers one that asks, or after a poll.
LEMMA SpeaksStep ==
    ASSUME SlaveInv, BusNext \/ BusIdle, out' # <<>>
    PROVE  ~master /\ (polled \/ \E p \in Packets : Asks(p) /\ Receive(p))
<1>1. ASSUME NEW p \in Packets, Receive(p)
      PROVE  ~master /\ (polled \/ \E q \in Packets : Asks(q) /\ Receive(q))
  <2>1. ~master /\ (polled \/ Asks(p))
    <3> USE <1>1, Addresses DEF SlaveInv, Run
    <3>1. CASE ParseControl(p)
      BY <3>1 DEF ParseControl, PollsUs, Asks, Bumped, BelowRunning
    <3>2. CASE BecomeMaster(p)
      BY <3>2 DEF BecomeMaster, Asks
    <3>3. CASE HandshakeAsMaster(p)
      BY <3>3 DEF HandshakeAsMaster
    <3>4. CASE BroadcastHandshake(p)
      BY <3>4 DEF BroadcastHandshake
    <3>5. CASE Poll(p)
      BY <3>5 DEF Poll, PollsUs, Asks
    <3>6. CASE ParseTelemetry(p)
      BY <3>6 DEF ParseTelemetry, Bumped, BelowRunning
    <3>7. CASE ParseBind(p)
      BY <3>7 DEF ParseBind, Bumped, BelowRunning
    <3>8. QED
      BY <3>1, <3>2, <3>3, <3>4, <3>5, <3>6, <3>7 DEF Receive, ParsePacket
  <2>2. QED
    BY <1>1, <2>1
<1>2. CASE RunAfterByte
  BY <1>2 DEF RunAfterByte, SlaveInv
<1>3. CASE BusRestart
  BY <1>3 DEF BusRestart
<1>4. CASE BusIdle
  BY <1>4 DEF BusIdle
<1>5. QED
  BY <1>1, <1>2, <1>3, <1>4 DEF BusNext

\* SpeaksWhenAsked: this device sends only in answer to a packet that asks, or
\* while the last packet was a poll, and never as master.
THEOREM Speaks == BusSpec => SpeaksWhenAsked
<1>1. ASSUME SlaveInv, [BusNext]_busVars
      PROVE  [out' # <<>> => ~master /\ (polled \/ \E p \in Packets : Asks(p) /\ Receive(p))]_busVars
  <2>1. BusNext \/ UNCHANGED busVars
    BY <1>1
  <2>2. QED
    BY <1>1, <2>1, SpeaksStep
<1>2. QED
  BY <1>1, Waiting, PTL DEF BusSpec, SpeaksWhenAsked

----------------------------------------------------------------------------
(* The tables.                                                             *)

Entries == {[id |-> p.src, info |-> p.info] : p \in Packets}
Devices == {[id |-> p.src, priority |-> Least(p.priority, MaxPriority)] : p \in Packets}

Tables ==
    /\ rcvr \in Seq(Entries) /\ Len(rcvr) <= MaxRcvrs
    /\ rxDev \in Seq(Devices) /\ Len(rxDev) <= MaxDevices

Known(t, id) == \E i \in DOMAIN t : t[i].id = id

\* A receiver among the devices is among the receivers, if there was room.
ReceiversKnown ==
    \A i \in DOMAIN rxDev :
        rxDev[i].id \in 16 .. 47 => Known(rcvr, rxDev[i].id) \/ Len(rcvr) = MaxRcvrs

\* RemembersMaster, with an index that is one.
MasterKnown ==
    introduced # 0 /\ ~master =>
        \/ pMasterRcvr \in DOMAIN rcvr /\ rcvr[pMasterRcvr].id = introduced
        \/ /\ Len(rcvr) = MaxRcvrs \/ Len(rxDev) = MaxDevices
           /\ ~Known(rcvr, introduced)

MasterInv == Tables /\ ReceiversKnown /\ MasterKnown

\* srxlGetReceiverEntry finds an entry if there is one.
LEMMA EntryFound ==
    ASSUME NEW S, NEW t \in Seq(S), NEW id
    PROVE  /\ Known(t, id) => EntryOf(t, id) \in DOMAIN t /\ t[EntryOf(t, id)].id = id
           /\ EntryOf(t, id) = 0 <=> ~Known(t, id)
<1>1. CASE Known(t, id)
  <2> DEFINE e == CHOOSE i \in DOMAIN t : t[i].id = id
  <2>1. e \in DOMAIN t /\ t[e].id = id
    BY <1>1 DEF Known
  <2>2. EntryOf(t, id) = e
    BY <1>1 DEF Known, EntryOf
  <2>3. e # 0
    BY <2>1
  <2>4. QED
    BY <1>1, <2>1, <2>2, <2>3
<1>2. CASE ~Known(t, id)
  BY <1>2 DEF Known, EntryOf
<1>3. QED
  BY <1>1, <1>2

\* What the first lines for a handshake do to the tables.
Discovered(p) ==
    /\ Tables' /\ ReceiversKnown'
    /\ Len(rxDev') >= Len(rxDev)
    /\ Len(rcvr') >= Len(rcvr)
    /\ \A i \in DOMAIN rcvr : rcvr'[i] = rcvr[i]
    /\ rcvr' = rcvr \/ (Len(rcvr) < MaxRcvrs /\ IsReceiver(p))
    /\ IsReceiver(p) => Known(rcvr', p.src) \/ Len(rcvr') = MaxRcvrs

\* Discover does that and nothing else to the tables.
LEMMA DiscoverMoves ==
    ASSUME Tables, ReceiversKnown, NEW p \in Packets, Discover(p)
    PROVE  Discovered(p)
<1> DEFINE entry == [id |-> p.src, info |-> p.info]
           device == [id |-> p.src, priority |-> Least(p.priority, MaxPriority)]
<1>1. entry \in Entries /\ device \in Devices /\ MaxRcvrs \in Nat /\ MaxDevices \in Nat
  BY BusAssumption DEF Entries, Devices
<1>2. /\ rcvr' \in Seq(Entries) /\ Len(rcvr') <= MaxRcvrs
      /\ Len(rcvr') >= Len(rcvr) /\ \A i \in DOMAIN rcvr : rcvr'[i] = rcvr[i]
      /\ rcvr' = rcvr \/ (Len(rcvr) < MaxRcvrs /\ IsReceiver(p))
      /\ IsReceiver(p) => Known(rcvr', p.src) \/ Len(rcvr') = MaxRcvrs
  <2>1. CASE ~IsReceiver(p)
    BY <2>1 DEF Discover, Tables
  <2>2. CASE IsReceiver(p) /\ Known(rcvr, p.src)
    <3>1. rcvr' = rcvr
      BY <2>2, EntryFound DEF Discover, AddReceiver, Tables
    <3>2. QED
      BY <2>2, <3>1 DEF Tables
  <2>3. CASE IsReceiver(p) /\ ~Known(rcvr, p.src) /\ Len(rcvr) >= MaxRcvrs
    <3>1. rcvr' = rcvr
      BY <2>3, EntryFound DEF Discover, AddReceiver, Tables
    <3>2. QED
      BY <1>1, <2>3, <3>1 DEF Tables
  <2>4. CASE IsReceiver(p) /\ ~Known(rcvr, p.src) /\ Len(rcvr) < MaxRcvrs
    <3>1. rcvr' = Append(rcvr, entry)
      <4>1. EntryOf(rcvr, p.src) = 0 /\ ~(Len(rcvr) >= MaxRcvrs)
        BY <1>1, <2>4, EntryFound DEF Tables
      <4>2. QED
        BY <2>4, <4>1 DEF Discover, AddReceiver
    <3>2. Known(rcvr', p.src)
      <4>1. Len(rcvr) + 1 \in DOMAIN rcvr' /\ rcvr'[Len(rcvr) + 1] = entry
        BY <1>1, <3>1 DEF Tables
      <4>2. QED
        BY <4>1 DEF Known
    <3>3. QED
      BY <1>1, <2>4, <3>1, <3>2 DEF Tables
  <2>5. QED
    BY <1>1, <2>1, <2>2, <2>3, <2>4 DEF Tables
<1>3. \A id : Known(rcvr, id) => Known(rcvr', id)
  BY <1>2 DEF Known, Tables
<1>4. /\ rxDev' \in Seq(Devices) /\ Len(rxDev') <= MaxDevices /\ Len(rxDev') >= Len(rxDev)
      /\ \A i \in DOMAIN rxDev' :
            \/ i \in DOMAIN rxDev /\ rxDev'[i].id = rxDev[i].id
            \/ rxDev'[i].id = p.src /\ EntryOf(rxDev, p.src) = 0 /\ Addable(p)
  <2>1. CASE EntryOf(rxDev, p.src) # 0
    <3> DEFINE e == EntryOf(rxDev, p.src)
    <3>1. e \in DOMAIN rxDev /\ rxDev[e].id = p.src
      BY <2>1, EntryFound DEF Tables
    <3>2. rxDev' = [rxDev EXCEPT ![e] = device]
      BY <2>1 DEF Discover, AddDevice
    <3>3. QED
      BY <1>1, <3>1, <3>2 DEF Tables
  <2>2. CASE EntryOf(rxDev, p.src) = 0 /\ Addable(p)
    <3>1. rxDev' = Append(rxDev, device)
      BY <2>2 DEF Discover, AddDevice
    <3>2. QED
      BY <1>1, <2>2, <3>1 DEF Tables, Addable
  <2>3. CASE EntryOf(rxDev, p.src) = 0 /\ ~Addable(p)
    BY <2>3 DEF Discover, AddDevice, Tables
  <2>4. QED
    BY <2>1, <2>2, <2>3
<1>5. ReceiversKnown'
  <2> SUFFICES ASSUME NEW i \in DOMAIN rxDev', rxDev'[i].id \in 16 .. 47
               PROVE  Known(rcvr', rxDev'[i].id) \/ Len(rcvr') = MaxRcvrs
    BY DEF ReceiversKnown
  <2>1. CASE i \in DOMAIN rxDev /\ rxDev'[i].id = rxDev[i].id
    BY <1>1, <1>2, <1>3, <2>1 DEF ReceiversKnown, Tables
  <2>2. CASE rxDev'[i].id = p.src /\ EntryOf(rxDev, p.src) = 0 /\ Addable(p)
    BY <1>2, <2>2 DEF IsReceiver
  <2>3. QED
    BY <1>4, <2>1, <2>2
<1>6. QED
  BY <1>2, <1>4, <1>5 DEF Discovered, Tables

\* A handshake that introduces nobody keeps what is known of the master.
LEMMA KeepsMaster ==
    ASSUME MasterInv, NEW p \in Packets, Discovered(p),
           ~(p.dest = Broadcast /\ ~master), master' = master,
           pMasterRcvr' = pMasterRcvr, introduced' = introduced \/ master
    PROVE  MasterInv'
<1>1. CASE master
  BY <1>1 DEF MasterInv, MasterKnown, Discovered
<1>2. CASE ~master /\ introduced = 0
  BY <1>2 DEF MasterInv, MasterKnown, Discovered
<1>3. CASE ~master /\ introduced # 0 /\ pMasterRcvr \in DOMAIN rcvr
           /\ rcvr[pMasterRcvr].id = introduced
  <2>1. pMasterRcvr \in DOMAIN rcvr' /\ rcvr'[pMasterRcvr] = rcvr[pMasterRcvr]
    BY <1>3 DEF MasterInv, Tables, Discovered
  <2>2. QED
    BY <1>3, <2>1 DEF MasterInv, MasterKnown, Discovered
<1>4. CASE ~master /\ introduced # 0 /\ (Len(rcvr) = MaxRcvrs \/ Len(rxDev) = MaxDevices)
           /\ ~Known(rcvr, introduced)
  <2>1. rcvr' = rcvr
    <3>1. MaxDevices \in Nat /\ MaxRcvrs \in Nat
      BY BusAssumption
    <3>2. CASE Len(rcvr) = MaxRcvrs
      BY <3>1, <3>2 DEF Discovered
    <3>3. CASE Len(rxDev) = MaxDevices
      BY <1>4, <3>1, <3>3 DEF Discovered, IsReceiver, Addable
    <3>4. QED
      BY <1>4, <3>2, <3>3
  <2>2. Len(rcvr') = MaxRcvrs \/ Len(rxDev') = MaxDevices
    BY <1>4, <2>1, BusAssumption DEF Discovered, Tables, MasterInv
  <2>3. QED
    BY <1>4, <2>1, <2>2 DEF MasterInv, MasterKnown, Discovered
<1>5. QED
  BY <1>1, <1>2, <1>3, <1>4 DEF MasterInv, MasterKnown

\* Every packet keeps them: one that shakes no hands leaves the tables alone.
LEMMA ReceiveMaster ==
    ASSUME MasterInv, NEW p \in Packets, Receive(p)
    PROVE  MasterInv'
<1> USE DEF MasterInv, Broadcast
<1>1. introduced' = IF p.type = "handshake" /\ p.dest = Broadcast THEN p.src ELSE introduced
  BY DEF Receive
<1>2. ASSUME p.type # "handshake", UNCHANGED <<rcvr, rxDev, pMasterRcvr, master>>
      PROVE  MasterInv'
  BY <1>1, <1>2 DEF Tables, ReceiversKnown, MasterKnown
<1>3. CASE ParseControl(p)
  BY <1>2, <1>3 DEF ParseControl, found
<1>4. CASE BecomeMaster(p)
  <2>1. Discovered(p)
    BY <1>4, DiscoverMoves DEF BecomeMaster
  <2>2. QED
    BY <1>4, <2>1 DEF BecomeMaster, MasterKnown, Discovered
<1>5. CASE HandshakeAsMaster(p)
  <2>1. Discovered(p)
    BY <1>5, DiscoverMoves DEF HandshakeAsMaster
  <2>2. QED
    BY <1>1, <1>5, <2>1, KeepsMaster DEF HandshakeAsMaster
<1>6. CASE BroadcastHandshake(p)
  <2>1. Discovered(p) /\ introduced' = p.src /\ pMasterRcvr' = EntryOf(rcvr', p.src)
    BY <1>1, <1>6, DiscoverMoves DEF BroadcastHandshake, MasterEntry
  <2>2. Tables' /\ ReceiversKnown'
    BY <2>1 DEF Discovered
  <2>3. Known(rcvr', p.src) \/ Len(rcvr') = MaxRcvrs \/ Len(rxDev') = MaxDevices
    <3>1. p.src \in 16 .. 63
      BY <1>6, BusAssumption DEF BroadcastHandshake
    <3>2. CASE IsReceiver(p)
      BY <2>1, <3>2 DEF Discovered
    <3>3. CASE ~IsReceiver(p) /\ Known(rxDev, p.src)
      <4>1. PICK i \in DOMAIN rxDev : rxDev[i].id = p.src
        BY <3>3 DEF Known
      <4>2. p.src \in 16 .. 47
        BY <1>6, <3>1, <3>3 DEF BroadcastHandshake, IsReceiver
      <4>3. Known(rcvr, p.src) \/ Len(rcvr) = MaxRcvrs
        BY <4>1, <4>2 DEF ReceiversKnown
      <4>4. rcvr' = rcvr
        BY <2>1, <3>3 DEF Discovered
      <4>5. QED
        BY <4>3, <4>4
    <3>4. CASE ~IsReceiver(p) /\ ~Known(rxDev, p.src)
      <4>1. EntryOf(rxDev, p.src) = 0
        BY <3>4, EntryFound DEF Tables
      <4>2. ~(Len(rxDev) < MaxDevices)
        BY <1>6, <3>1, <3>4, <4>1 DEF BroadcastHandshake, IsReceiver, Addable
      <4>3. QED
        BY <2>1, <2>2, <4>2, BusAssumption DEF Tables, Discovered
    <3>5. QED
      BY <3>2, <3>3, <3>4
  <2>4. CASE Known(rcvr', p.src)
    BY <2>1, <2>2, <2>4, EntryFound DEF MasterKnown, Tables
  <2>5. CASE ~Known(rcvr', p.src)
    BY <2>1, <2>2, <2>3, <2>5 DEF MasterKnown
  <2>6. QED
    BY <2>4, <2>5
<1>7. CASE Poll(p)
  <2>1. Discovered(p)
    BY <1>7, DiscoverMoves DEF Poll
  <2>2. QED
    BY <1>1, <1>7, <2>1, KeepsMaster DEF Poll
<1>8. CASE ParseTelemetry(p)
  BY <1>2, <1>8 DEF ParseTelemetry, found
<1>9. CASE ParseBind(p)
  BY <1>2, <1>9 DEF ParseBind, found
<1>10. QED
  BY <1>3, <1>4, <1>5, <1>6, <1>7, <1>8, <1>9 DEF Receive, ParsePacket

\* The tables are empty at the start and after a restart.
LEMMA InitMaster == BusInit => MasterInv
  BY BusAssumption DEF BusInit, MasterInv, Tables, ReceiversKnown, MasterKnown

\* Every step keeps what is known.
LEMMA NextMaster ==
    ASSUME MasterInv, BusStep
    PROVE  MasterInv'
<1>1. ASSUME NEW p \in Packets, Receive(p) PROVE MasterInv'
  BY <1>1, ReceiveMaster
<1>2. CASE RunAfterByte
  BY <1>2 DEF RunAfterByte, MasterInv, Tables, ReceiversKnown, MasterKnown, found, busHistory
<1>3. CASE BusRestart
  BY <1>3, BusAssumption DEF BusRestart, MasterInv, Tables, ReceiversKnown, MasterKnown
<1>4. CASE BusIdle
  BY <1>4 DEF BusIdle, MasterInv, Tables, ReceiversKnown, MasterKnown, found, busHistory
<1>5. CASE UNCHANGED busVars
  BY <1>5 DEF busVars, found, busHistory, MasterInv, Tables, ReceiversKnown, MasterKnown
<1>6. QED
  BY <1>1, <1>2, <1>3, <1>4, <1>5 DEF BusStep, BusNext

\* What the tables hold of the receivers and of the master.
THEOREM TablesKnown == BusSpec => []MasterInv
<1>1. MasterInv /\ [BusNext]_busVars => MasterInv'
  BY NextMaster DEF BusStep
<1>2. QED
  BY <1>1, InitMaster, PTL DEF BusSpec

\* RemembersMaster: for every order of handshakes and every size of the tables,
\* the master is forgotten or never known only if a table was full.
THEOREM Remembers == BusSpec => []RemembersMaster
<1>1. MasterInv => RemembersMaster
  BY EntryFound DEF MasterInv, MasterKnown, Tables, RemembersMaster
<1>2. QED
  BY <1>1, TablesKnown, PTL

----------------------------------------------------------------------------
(* The order of the receivers.                                             *)

\* s lists 1 .. L, those in G first, of which there are n, and else by number.
Ordered(s, n, L, G) ==
    /\ s \in Seq(Nat) /\ Len(s) = L /\ n \in 0 .. L
    /\ \A k \in 1 .. L : s[k] \in 1 .. L
    /\ \A i \in 1 .. L : \E k \in 1 .. L : s[k] = i
    /\ \A k \in 1 .. L : s[k] \in G <=> k <= n
    /\ \A k, l \in 1 .. L : k < l /\ (k <= n <=> l <= n) => s[k] < s[l]

FullRange(t) == {i \in DOMAIN t : "fullRange" \in t[i].info}

SortInv ==
    /\ MasterInv
    /\ Ordered(rcvrSorted, rcvrSortInsert, Len(rcvr), FullRange(rcvr))

\* Where the elements are after one is inserted.
LEMMA Inserting ==
    ASSUME NEW s \in Seq(Nat), NEW n \in 0 .. Len(s), NEW i \in Nat
    PROVE  /\ InsertAt(s, n + 1, i) \in Seq(Nat)
           /\ Len(InsertAt(s, n + 1, i)) = Len(s) + 1
           /\ \A k \in 1 .. n : InsertAt(s, n + 1, i)[k] = s[k]
           /\ InsertAt(s, n + 1, i)[n + 1] = i
           /\ \A k \in n + 2 .. Len(s) + 1 : InsertAt(s, n + 1, i)[k] = s[k - 1]
<1> DEFINE a == SubSeq(s, 1, n)
           b == SubSeq(s, n + 1, Len(s))
<1>1. /\ a \in Seq(Nat) /\ Len(a) = n /\ \A k \in 1 .. n : a[k] = s[k]
  OBVIOUS
<1>2. /\ b \in Seq(Nat) /\ Len(b) = Len(s) - n
      /\ \A k \in 1 .. Len(s) - n : b[k] = s[n + k]
  OBVIOUS
<1>3. InsertAt(s, n + 1, i) = (a \o <<i>>) \o b
  <2>1. (n + 1) - 1 = n
    OBVIOUS
  <2>2. InsertAt(s, n + 1, i) = (SubSeq(s, 1, (n + 1) - 1) \o <<i>>) \o b
    BY Zenon DEF InsertAt, b
  <2>3. QED
    BY <2>1, <2>2
<1> HIDE DEF a, b
<1> DEFINE c == a \o <<i>>
<1>4. /\ c \in Seq(Nat) /\ Len(c) = n + 1
      /\ \A k \in 1 .. n : c[k] = s[k]
      /\ c[n + 1] = i
  BY <1>1
<1> HIDE DEF c
<1>5. /\ c \o b \in Seq(Nat) /\ Len(c \o b) = Len(c) + Len(b)
      /\ \A k \in 1 .. Len(c) + Len(b) :
            (c \o b)[k] = IF k <= Len(c) THEN c[k] ELSE b[k - Len(c)]
  BY <1>2, <1>4, ConcatProperties
<1>6. ASSUME NEW k \in n + 2 .. Len(s) + 1
      PROVE  (c \o b)[k] = s[k - 1]
  <2>1. /\ k \in 1 .. Len(c) + Len(b) /\ ~(k <= Len(c))
        /\ k - (n + 1) \in 1 .. Len(s) - n /\ n + (k - (n + 1)) = k - 1
    BY <1>2, <1>4
  <2>2. (c \o b)[k] = b[k - (n + 1)]
    BY <1>4, <1>5, <2>1
  <2>3. b[k - (n + 1)] = s[n + (k - (n + 1))]
    BY <1>2, <2>1
  <2>4. QED
    BY <2>1, <2>2, <2>3
<1>7. InsertAt(s, n + 1, i) = c \o b
  BY <1>3 DEF c
<1>8. /\ Len(c \o b) = Len(s) + 1
      /\ \A k \in 1 .. n + 1 : (c \o b)[k] = c[k]
  BY <1>2, <1>4, <1>5
<1>9. /\ \A k \in 1 .. n : (c \o b)[k] = s[k]
      /\ (c \o b)[n + 1] = i
  BY <1>4, <1>8
<1>10. QED
  BY <1>5, <1>6, <1>7, <1>8, <1>9

\* A new full-range receiver goes behind those that are known.
LEMMA OrderedFull ==
    ASSUME NEW L \in Nat, NEW n, NEW s, NEW G \in SUBSET (1 .. L), Ordered(s, n, L, G)
    PROVE  Ordered(InsertAt(s, n + 1, L + 1), n + 1, L + 1, G \cup {L + 1})
<1> DEFINE t == InsertAt(s, n + 1, L + 1)
<1>1. /\ s \in Seq(Nat) /\ Len(s) = L /\ n \in 0 .. Len(s) /\ L + 1 \in Nat
  BY DEF Ordered
<1>2. /\ t \in Seq(Nat) /\ Len(t) = Len(s) + 1
      /\ \A k \in 1 .. n : t[k] = s[k]
      /\ t[n + 1] = L + 1
      /\ \A k \in n + 2 .. Len(s) + 1 : t[k] = s[k - 1]
  BY <1>1, Inserting, ZenonT(30)
<1> HIDE DEF t
<1>3. \A k \in 1 .. L + 1 : k \in 1 .. n \/ k = n + 1 \/ k \in n + 2 .. L + 1
  BY <1>1
<1>4. /\ \A k \in 1 .. n : t[k] = s[k] /\ k \in 1 .. L
      /\ \A k \in n + 2 .. L + 1 : t[k] = s[k - 1] /\ k - 1 \in 1 .. L /\ ~(k - 1 <= n)
  BY <1>1, <1>2
<1>5. \A k \in 1 .. L + 1 :
        t[k] \in 1 .. L + 1 /\ (t[k] \in G \cup {L + 1} <=> k <= n + 1)
  <2> SUFFICES ASSUME NEW k \in 1 .. L + 1
               PROVE  t[k] \in 1 .. L + 1 /\ (t[k] \in G \cup {L + 1} <=> k <= n + 1)
    OBVIOUS
  <2>0. \A j \in 1 .. L : /\ s[j] \in 1 .. L /\ s[j] \in 1 .. L + 1 /\ s[j] # L + 1
                          /\ s[j] \in G <=> j <= n
    <3> SUFFICES ASSUME NEW j \in 1 .. L
                 PROVE  /\ s[j] \in 1 .. L /\ s[j] \in 1 .. L + 1 /\ s[j] # L + 1
                        /\ s[j] \in G <=> j <= n
      OBVIOUS
    <3>1. s[j] \in 1 .. L /\ (s[j] \in G <=> j <= n)
      BY DEF Ordered
    <3>2. QED
      BY <3>1
  <2>1. CASE k \in 1 .. n
    <3>1. t[k] = s[k] /\ k \in 1 .. L /\ k <= n /\ k <= n + 1
      BY <1>1, <1>4, <2>1
    <3>2. QED
      BY <2>0, <3>1
  <2>2. CASE k = n + 1
    BY <1>1, <1>2, <2>2
  <2>3. CASE k \in n + 2 .. L + 1
    <3>1. t[k] = s[k - 1] /\ k - 1 \in 1 .. L /\ ~(k - 1 <= n) /\ ~(k <= n + 1)
      BY <1>1, <1>4, <2>3
    <3>2. s[k - 1] \in 1 .. L + 1 /\ s[k - 1] # L + 1 /\ s[k - 1] \notin G
      BY <2>0, <3>1
    <3>3. QED
      BY <3>1, <3>2
  <2>4. QED
    BY <1>3, <2>1, <2>2, <2>3
<1>6. ASSUME NEW i \in 1 .. L + 1 PROVE \E k \in 1 .. L + 1 : t[k] = i
  <2>1. CASE i = L + 1
    BY <1>1, <1>2, <2>1
  <2>2. CASE i \in 1 .. L
    <3>1. PICK k \in 1 .. L : s[k] = i
      BY <2>2 DEF Ordered
    <3>2. CASE k \in 1 .. n
      BY <1>4, <3>1, <3>2
    <3>3. CASE k \in n + 1 .. L
      <4>1. k + 1 \in n + 2 .. L + 1 /\ (k + 1) - 1 = k /\ k + 1 \in 1 .. L + 1
        BY <1>1, <3>3
      <4>2. QED
        BY <1>4, <3>1, <4>1
    <3>4. QED
      BY <1>1, <3>2, <3>3
  <2>3. QED
    BY <2>1, <2>2
<1>7. ASSUME NEW k \in 1 .. L + 1, NEW l \in 1 .. L + 1, k < l, k <= n + 1 <=> l <= n + 1
      PROVE  t[k] < t[l]
  <2>1. CASE l \in 1 .. n
    <3>1. k \in 1 .. n /\ (k <= n <=> l <= n)
      BY <1>1, <1>7, <2>1
    <3>2. QED
      BY <1>4, <1>7, <2>1, <3>1 DEF Ordered
  <2>2. CASE l = n + 1
    <3>1. k \in 1 .. n
      BY <1>1, <1>7, <2>2
    <3>2. t[k] \in 1 .. L
      BY <1>4, <3>1 DEF Ordered
    <3>3. QED
      BY <1>2, <2>2, <3>2
  <2>3. CASE l \in n + 2 .. L + 1
    <3>1. k \in n + 2 .. L + 1 /\ k - 1 < l - 1
      BY <1>1, <1>7, <2>3
    <3>2. QED
      BY <1>1, <1>4, <2>3, <3>1 DEF Ordered
  <2>4. QED
    BY <1>3, <2>1, <2>2, <2>3
<1>8. t \in Seq(Nat) /\ Len(t) = L + 1 /\ n + 1 \in 0 .. L + 1
  BY <1>1, <1>2
<1>9. QED
  BY <1>5, <1>6, <1>7, <1>8 DEF Ordered, t

\* Any other new receiver goes to the end.
LEMMA OrderedRest ==
    ASSUME NEW L \in Nat, NEW n, NEW s, NEW G \in SUBSET (1 .. L), Ordered(s, n, L, G)
    PROVE  Ordered(Append(s, L + 1), n, L + 1, G)
<1> DEFINE t == Append(s, L + 1)
<1>1. n \in 0 .. L /\ s \in Seq(Nat) /\ Len(s) = L
  BY DEF Ordered
<1>2. /\ t \in Seq(Nat) /\ Len(t) = L + 1 /\ t[L + 1] = L + 1
      /\ \A k \in 1 .. L : t[k] = s[k]
  BY <1>1
<1> HIDE DEF t
<1>3. \A k \in 1 .. L + 1 : k \in 1 .. L \/ k = L + 1
  OBVIOUS
<1>4. ASSUME NEW k \in 1 .. L + 1
      PROVE  t[k] \in 1 .. L + 1 /\ (t[k] \in G <=> k <= n)
  <2>1. CASE k \in 1 .. L
    <3>1. s[k] \in 1 .. L /\ (s[k] \in G <=> k <= n)
      BY <2>1 DEF Ordered
    <3>2. QED
      BY <1>2, <2>1, <3>1
  <2>2. CASE k = L + 1
    <3>1. L + 1 \notin G /\ ~(L + 1 <= n)
      BY <1>1
    <3>2. QED
      BY <1>2, <2>2, <3>1
  <2>3. QED
    BY <1>3, <2>1, <2>2
<1>5. ASSUME NEW i \in 1 .. L + 1 PROVE \E k \in 1 .. L + 1 : t[k] = i
  <2>1. CASE i \in 1 .. L
    <3>1. PICK k \in 1 .. L : s[k] = i
      BY <2>1 DEF Ordered
    <3>2. QED
      BY <1>2, <3>1
  <2>2. CASE i = L + 1
    BY <1>2, <2>2
  <2>3. QED
    BY <1>3, <2>1, <2>2
<1>6. ASSUME NEW k \in 1 .. L + 1, NEW l \in 1 .. L + 1, k < l, k <= n <=> l <= n
      PROVE  t[k] < t[l]
  <2>0. k \in 1 .. L
    BY <1>6
  <2>1. k \in 1 .. L /\ t[k] = s[k] /\ s[k] \in 1 .. L
    BY <1>2, <2>0 DEF Ordered
  <2>2. CASE l \in 1 .. L
    BY <1>2, <1>6, <2>1, <2>2 DEF Ordered
  <2>3. CASE l = L + 1
    BY <1>2, <2>1, <2>3
  <2>4. QED
    BY <1>3, <2>2, <2>3
<1>7. n \in 0 .. L + 1
  BY <1>1
<1>8. QED
  BY <1>2, <1>4, <1>5, <1>6, <1>7 DEF Ordered, t

\* A handshake keeps the order.
LEMMA DiscoverSorts ==
    ASSUME SortInv, NEW p \in Packets, Discover(p), MasterInv'
    PROVE  SortInv'
<1> DEFINE e == [id |-> p.src, info |-> p.info]
           L == Len(rcvr)
<1>1. CASE UNCHANGED <<rcvr, rcvrSorted, rcvrSortInsert>>
  BY <1>1 DEF SortInv
<1>2. ASSUME ~UNCHANGED <<rcvr, rcvrSorted, rcvrSortInsert>>
      PROVE  SortInv'
  <2>1. AddReceiver(p) /\ EntryOf(rcvr, p.src) = 0
    BY <1>2 DEF Discover, AddReceiver
  <2>2. /\ rcvr' = Append(rcvr, e)
        /\ rcvrSorted' = Inserted(rcvrSorted, L + 1, e, "fullRange" \in p.info)
        /\ rcvrSortInsert' = rcvrSortInsert + (IF "fullRange" \in p.info THEN 1 ELSE 0)
    BY <1>2, <2>1 DEF AddReceiver
  <2>3. e \in Entries /\ rcvr \in Seq(Entries) /\ L \in Nat /\ FullRange(rcvr) \subseteq 1 .. L
    BY DEF Entries, SortInv, MasterInv, Tables, FullRange
  <2>4. /\ Len(rcvr') = L + 1 /\ DOMAIN rcvr' = 1 .. L + 1 /\ rcvr'[L + 1] = e
        /\ \A i \in 1 .. L : rcvr'[i] = rcvr[i]
    BY <2>2, <2>3
  <2>5. CASE "fullRange" \in p.info
    <3>1. FullRange(rcvr') = FullRange(rcvr) \cup {L + 1}
      BY <2>3, <2>4, <2>5 DEF FullRange
    <3>2. /\ rcvrSorted' = InsertAt(rcvrSorted, rcvrSortInsert + 1, L + 1)
          /\ rcvrSortInsert' = rcvrSortInsert + 1
      BY <2>2, <2>5 DEF Inserted
    <3>3. Ordered(rcvrSorted', rcvrSortInsert', L + 1, FullRange(rcvr'))
      BY <2>3, <3>1, <3>2, OrderedFull DEF SortInv
    <3>4. QED
      BY <2>4, <3>3 DEF SortInv
  <2>6. CASE "fullRange" \notin p.info
    <3>1. FullRange(rcvr') = FullRange(rcvr)
      BY <2>3, <2>4, <2>6 DEF FullRange
    <3>2. rcvrSorted' = Append(rcvrSorted, L + 1) /\ rcvrSortInsert' = rcvrSortInsert
      <4>1. rcvrSortInsert \in Nat
        BY DEF SortInv, Ordered
      <4>2. QED
        BY <2>2, <2>6, <4>1 DEF Inserted
    <3>3. Ordered(rcvrSorted', rcvrSortInsert', L + 1, FullRange(rcvr'))
      BY <2>3, <3>1, <3>2, OrderedRest DEF SortInv
    <3>4. QED
      BY <2>4, <3>3 DEF SortInv
  <2>7. QED
    BY <2>5, <2>6
<1>3. QED
  BY <1>1, <1>2

\* Nothing else touches the table.
LEMMA NextSort ==
    ASSUME SortInv, BusStep
    PROVE  SortInv'
<1>1. MasterInv'
  BY NextMaster DEF SortInv
<1>2. ASSUME UNCHANGED <<rcvr, rcvrSorted, rcvrSortInsert>> PROVE SortInv'
  BY <1>1, <1>2 DEF SortInv
<1>3. ASSUME NEW p \in Packets, Receive(p) PROVE SortInv'
  <2>1. Discover(p) \/ UNCHANGED <<rcvr, rcvrSorted, rcvrSortInsert>>
    BY <1>3 DEF Receive, ParsePacket, ParseControl, BecomeMaster, HandshakeAsMaster,
       BroadcastHandshake, Poll, ParseTelemetry, ParseBind, found
  <2>2. QED
    BY <1>1, <1>2, <2>1, DiscoverSorts
<1>4. CASE RunAfterByte
  BY <1>2, <1>4 DEF RunAfterByte, found
<1>5. CASE BusRestart
  BY <1>1, <1>5 DEF BusRestart, SortInv, Ordered, FullRange
<1>6. CASE BusIdle
  BY <1>2, <1>6 DEF BusIdle, found
<1>7. CASE UNCHANGED busVars
  BY <1>2, <1>7 DEF busVars, found
<1>8. QED
  BY <1>3, <1>4, <1>5, <1>6, <1>7 DEF BusStep, BusNext

\* The tables are empty at first.
LEMMA InitSort == BusInit => SortInv
  BY InitMaster DEF BusInit, SortInv, Ordered, FullRange

\* What the order of the indices says of the receivers.
LEMMA SortFollows == SortInv => SortedReceivers
<1> SUFFICES ASSUME SortInv PROVE SortedReceivers
  OBVIOUS
<1>1. DOMAIN rcvr = 1 .. Len(rcvr) /\ DOMAIN rcvrSorted = 1 .. Len(rcvr)
      /\ Len(rcvrSorted) = Len(rcvr)
  BY DEF SortInv, MasterInv, Tables, Ordered
<1>2. \A k \in DOMAIN rcvrSorted :
          "fullRange" \in rcvr[rcvrSorted[k]].info <=> k <= rcvrSortInsert
  BY <1>1 DEF SortInv, Ordered, FullRange
<1>3. QED
  BY <1>1, <1>2 DEF SortInv, Ordered, SortedReceivers

\* SortedReceivers: the list of receivers in sending order is what srxlAddReceiverEntry
\* means it to be, for every order in which they are found and every table size.
THEOREM Sorted == BusSpec => []SortedReceivers
<1>1. SortInv /\ [BusNext]_busVars => SortInv'
  BY NextSort DEF BusStep
<1>2. QED
  BY <1>1, InitSort, SortFollows, PTL DEF BusSpec

----------------------------------------------------------------------------
(* The sum of the priorities.                                              *)

\* A set with 0 that has the successor of each of its numbers has them all.
LEMMA NatInd ==
  ASSUME NEW S, 0 \in S, \A n \in Nat : n \in S => n + 1 \in S
  PROVE  \A n \in Nat : n \in S
<1> SUFFICES ASSUME NEW m \in Nat, m \notin S PROVE FALSE
  OBVIOUS
<1> DEFINE T == Nat \ S
<1>1. PICK x \in T : \A y \in T : ~(<<y, x>> \in OpToRel(<, Nat))
  <2>1. IsWellFoundedOn(OpToRel(<, Nat), Nat)
    BY NatLessThanWellFounded
  <2>2. T \subseteq Nat /\ T # {}
    OBVIOUS
  <2> HIDE DEF T
  <2>3. QED
    BY <2>1, <2>2, WFMin, Zenon
<1>2. x # 0 /\ x - 1 \in Nat /\ (x - 1) + 1 = x
  OBVIOUS
<1>3. x - 1 \in T
  BY <1>2
<1>4. <<x - 1, x>> \in OpToRel(<, Nat)
  BY <1>2 DEF OpToRel
<1>5. QED
  BY <1>1, <1>3, <1>4

\* The sum srxlAddDeviceEntry keeps, taken afresh.
PrioritySum(s) == FoldLeft(LAMBDA sum, d : sum + d.priority, 0, s)

\* How the fold goes through the first n entries of t: g[u] is the sum over u.
Folds(t, n, g) ==
    g = [u \in SUBSET (1 .. n) |->
            IF u = {} THEN 0 ELSE g[u \ {Max(u)}] + t[Max(u)].priority]

\* There is such a fold for every n: the one for n + 1 adds the last entry.
LEMMA FoldExists ==
    ASSUME NEW t
    PROVE  \A n \in Nat : \E g : Folds(t, n, g)
<1> DEFINE S == {n \in Nat : \E g : Folds(t, n, g)}
<1>1. 0 \in S
  <2> DEFINE g == [u \in {{}} |-> 0]
  <2>1. SUBSET (1 .. 0) = {{}}
    OBVIOUS
  <2>2. Folds(t, 0, g)
    BY <2>1 DEF Folds
  <2>3. QED
    BY <2>2
<1>2. ASSUME NEW n \in Nat, n \in S PROVE n + 1 \in S
  <2>1. PICK g : Folds(t, n, g)
    BY <1>2
  <2> DEFINE h == [u \in SUBSET (1 .. n + 1) |->
                      IF n + 1 \in u THEN g[u \ {n + 1}] + t[n + 1].priority ELSE g[u]]
  <2>2. ASSUME NEW u \in SUBSET (1 .. n + 1)
        PROVE  h[u] = IF u = {} THEN 0 ELSE h[u \ {Max(u)}] + t[Max(u)].priority
    <3>1. \A v \in SUBSET (1 .. n) :
            g[v] = IF v = {} THEN 0 ELSE g[v \ {Max(v)}] + t[Max(v)].priority
      BY <2>1 DEF Folds
    <3>2. CASE n + 1 \in u
      <4>1. Max(u) = n + 1
        <5>1. n + 1 \in u /\ \A y \in u : n + 1 >= y
          BY <3>2
        <5>2. \A x \in u : (\A y \in u : x >= y) => x = n + 1
          BY <3>2
        <5>3. QED
          BY <5>1, <5>2, Zenon DEF Max
      <4>2. u \ {n + 1} \in SUBSET (1 .. n + 1) /\ n + 1 \notin u \ {n + 1}
        OBVIOUS
      <4>3. h[u \ {n + 1}] = g[u \ {n + 1}]
        BY <4>2
      <4>4. h[u] = g[u \ {n + 1}] + t[n + 1].priority
        BY <3>2
      <4>5. QED
        BY <3>2, <4>1, <4>3, <4>4, Zenon
    <3>3. CASE n + 1 \notin u
      <4>1. u \in SUBSET (1 .. n)
        BY <3>3
      <4>2. u \ {Max(u)} \in SUBSET (1 .. n + 1) /\ n + 1 \notin u \ {Max(u)}
        BY <3>3
      <4>3. h[u] = g[u] /\ h[u \ {Max(u)}] = g[u \ {Max(u)}]
        BY <3>3, <4>2
      <4>4. QED
        BY <3>1, <4>1, <4>3, Zenon
    <3>4. QED
      BY <3>2, <3>3
  <2>3. Folds(t, n + 1, h)
    <3>1. DOMAIN h = SUBSET (1 .. n + 1) /\ h = [u \in DOMAIN h |-> h[u]]
      OBVIOUS
    <3> HIDE DEF h
    <3>2. QED
      BY <2>2, <3>1, Zenon DEF Folds
  <2> HIDE DEF h
  <2>4. \E f : Folds(t, n + 1, f)
    BY <2>3
  <2>5. QED
    BY <2>4
<1> HIDE DEF S
<1>3. \A n \in Nat : n \in S
  BY <1>1, <1>2, NatInd, Zenon
<1>4. QED
  BY <1>3 DEF S

\* P[k] is the sum of the first k priorities of t.
Sums(t, P) ==
    /\ P \in [0 .. Len(t) -> Nat] /\ P[0] = 0
    /\ \A k \in 1 .. Len(t) : P[k] = P[k - 1] + t[k].priority

Priced(t) == \A k \in 1 .. Len(t) : t[k].priority \in Nat

\* The sum of a table is the last of its partial sums.
LEMMA SumFound ==
    ASSUME NEW D, NEW t \in Seq(D), Priced(t)
    PROVE  \E P : Sums(t, P) /\ PrioritySum(t) = P[Len(t)]
<1> DEFINE g == CHOOSE f : Folds(t, Len(t), f)
           P == [k \in 0 .. Len(t) |-> g[1 .. k]]
<1>1. Len(t) \in Nat /\ DOMAIN t = 1 .. Len(t)
  OBVIOUS
<1>2. Folds(t, Len(t), g)
  <2>1. \E f : Folds(t, Len(t), f)
    BY <1>1, FoldExists
  <2>2. QED
    BY <2>1, Zenon
<1>3. PrioritySum(t) = g[1 .. Len(t)]
  <2>1. PrioritySum(t) =
            (CHOOSE f : f = [u \in SUBSET DOMAIN t |->
                IF u = {} THEN 0 ELSE f[u \ {Max(u)}] + t[Max(u)].priority])[DOMAIN t]
    BY Zenon DEF PrioritySum, FoldLeft, MapThenFoldSet
  <2>2. QED
    BY <1>1, <2>1, Zenon DEF Folds
<1> HIDE DEF g
<1>4. \A u \in SUBSET (1 .. Len(t)) :
        g[u] = IF u = {} THEN 0 ELSE g[u \ {Max(u)}] + t[Max(u)].priority
  BY <1>2 DEF Folds
<1>5. g[1 .. 0] = 0
  <2>1. 1 .. 0 = {} /\ 1 .. 0 \in SUBSET (1 .. Len(t))
    OBVIOUS
  <2>2. QED
    BY <1>4, <2>1, Zenon
<1>6. ASSUME NEW k \in 1 .. Len(t)
      PROVE  g[1 .. k] = g[1 .. k - 1] + t[k].priority
  <2>1. Max(1 .. k) = k
    <3>1. k \in 1 .. k /\ \A y \in 1 .. k : k >= y
      OBVIOUS
    <3>2. \A x \in 1 .. k : (\A y \in 1 .. k : x >= y) => x = k
      OBVIOUS
    <3>3. QED
      BY <3>1, <3>2, Zenon DEF Max
  <2>2. (1 .. k) \ {k} = 1 .. k - 1 /\ 1 .. k # {} /\ 1 .. k \in SUBSET (1 .. Len(t))
    <3>1. \A y : y \in (1 .. k) \ {k} <=> y \in 1 .. k - 1
      BY <1>1
    <3>2. k \in 1 .. k /\ \A y \in 1 .. k : y \in 1 .. Len(t)
      BY <1>1
    <3>3. QED
      BY <3>1, <3>2
  <2>3. QED
    BY <1>4, <2>1, <2>2, Zenon
<1>7. \A k \in 0 .. Len(t) : g[1 .. k] \in Nat
  <2> DEFINE S == {k \in Nat : k <= Len(t) => g[1 .. k] \in Nat}
  <2>1. 0 \in S
    BY <1>5
  <2>2. ASSUME NEW k \in Nat, k \in S PROVE k + 1 \in S
    <3>1. CASE k + 1 <= Len(t)
      <4>1. k + 1 \in 1 .. Len(t) /\ (k + 1) - 1 = k /\ k <= Len(t)
        BY <1>1, <3>1
      <4>2. g[1 .. k + 1] = g[1 .. k] + t[k + 1].priority
        BY <1>6, <4>1
      <4>3. g[1 .. k] \in Nat /\ t[k + 1].priority \in Nat
        BY <2>2, <4>1 DEF Priced
      <4>4. QED
        BY <4>2, <4>3
    <3>2. QED
      BY <1>1, <3>1
  <2> HIDE DEF S
  <2>3. \A k \in Nat : k \in S
    BY <2>1, <2>2, NatInd, Zenon
  <2>4. QED
    BY <1>1, <2>3 DEF S
<1>8. Sums(t, P)
  <2>1. P \in [0 .. Len(t) -> Nat] /\ P[0] = 0
    BY <1>1, <1>5, <1>7
  <2>2. ASSUME NEW k \in 1 .. Len(t) PROVE P[k] = P[k - 1] + t[k].priority
    <3>1. k \in 0 .. Len(t) /\ k - 1 \in 0 .. Len(t)
      BY <1>1
    <3>2. P[k] = g[1 .. k] /\ P[k - 1] = g[1 .. k - 1]
      BY <3>1
    <3>3. QED
      BY <1>6, <3>2
  <2> HIDE DEF P
  <2>3. QED
    BY <2>1, <2>2 DEF Sums
<1>9. P[Len(t)] = g[1 .. Len(t)]
  BY <1>1
<1> HIDE DEF P
<1>10. QED
  BY <1>3, <1>8, <1>9

\* Two tables that agree but for entry i have sums that differ by its priorities.
LEMMA SumsDiffer ==
    ASSUME NEW D, NEW s \in Seq(D), NEW t \in Seq(D), Priced(s), Priced(t), NEW P, NEW Q,
           Sums(s, P), Sums(t, Q), NEW i \in Nat, Len(s) <= Len(t),
           \A k \in 1 .. Len(s) : k # i => s[k].priority = t[k].priority
    PROVE  \A k \in 0 .. Len(s) :
              Q[k] = P[k] + (IF i \in 1 .. k THEN t[i].priority - s[i].priority ELSE 0)
<1> DEFINE d(k) == IF i \in 1 .. k THEN t[i].priority - s[i].priority ELSE 0
           S == {k \in Nat : k <= Len(s) => Q[k] = P[k] + d(k)}
<1>1. Len(s) \in Nat /\ Len(t) \in Nat
  OBVIOUS
<1>2. 0 \in S
  BY DEF Sums
<1>3. ASSUME NEW k \in Nat, k \in S PROVE k + 1 \in S
  <2> SUFFICES ASSUME k + 1 <= Len(s) PROVE Q[k + 1] = P[k + 1] + d(k + 1)
    OBVIOUS
  <2>1. /\ k + 1 \in 1 .. Len(s) /\ k + 1 \in 1 .. Len(t) /\ (k + 1) - 1 = k /\ k <= Len(s)
        /\ k \in 0 .. Len(s) /\ k \in 0 .. Len(t)
    BY <1>1
  <2>2. /\ P[k + 1] = P[k] + s[k + 1].priority /\ Q[k + 1] = Q[k] + t[k + 1].priority
        /\ P[k] \in Nat /\ s[k + 1].priority \in Nat /\ t[k + 1].priority \in Nat
    BY <2>1 DEF Sums, Priced
  <2>3. Q[k] = P[k] + d(k)
    BY <1>3, <2>1
  <2>4. CASE i = k + 1
    <3>1. d(k) = 0 /\ d(k + 1) = t[k + 1].priority - s[k + 1].priority
      BY <2>4
    <3>2. QED
      BY <2>2, <2>3, <3>1, SMTT(30)
  <2>5. CASE i # k + 1
    <3>1. d(k + 1) = d(k) /\ s[k + 1].priority = t[k + 1].priority
      BY <2>1, <2>5
    <3>2. d(k) \in Int
      <4>1. CASE i \in 1 .. k
        <5>1. i \in 1 .. Len(s) /\ i \in 1 .. Len(t)
          BY <1>1, <2>1, <4>1
        <5>2. s[i].priority \in Nat /\ t[i].priority \in Nat
          BY <5>1 DEF Priced
        <5>3. QED
          BY <4>1, <5>2
      <4>2. QED
        BY <4>1
    <3> HIDE DEF d
    <3>3. QED
      BY <2>2, <2>3, <3>1, <3>2
  <2>6. QED
    BY <2>4, <2>5
<1>4. \A k \in Nat : k \in S
  <2> HIDE DEF S
  <2>1. QED
    BY <1>2, <1>3, NatInd, Zenon
<1>5. QED
  BY <1>1, <1>4

\* Nothing sums up to 0.
LEMMA SumEmpty == PrioritySum(<<>>) = 0
<1>1. <<>> \in Seq({}) /\ Priced(<<>>) /\ Len(<<>>) = 0
  BY DEF Priced
<1>2. QED
  BY <1>1, SumFound DEF Sums

\* An entry more is its priority more.
LEMMA SumAppend ==
    ASSUME NEW D, NEW t \in Seq(D), NEW d \in D, Priced(t), d.priority \in Nat
    PROVE  PrioritySum(Append(t, d)) = PrioritySum(t) + d.priority
<1> DEFINE u == Append(t, d)
<1>1. u \in Seq(D) /\ Len(u) = Len(t) + 1 /\ u[Len(u)] = d /\ \A k \in 1 .. Len(t) : u[k] = t[k]
  OBVIOUS
<1> HIDE DEF u
<1>2. Priced(u)
  BY <1>1 DEF Priced
<1>3. PICK P : Sums(t, P) /\ PrioritySum(t) = P[Len(t)]
  BY SumFound
<1>4. PICK Q : Sums(u, Q) /\ PrioritySum(u) = Q[Len(u)]
  BY <1>1, <1>2, SumFound
<1>5. Q[Len(t)] = P[Len(t)]
  <2>1. \A k \in 0 .. Len(t) :
          Q[k] = P[k] + (IF 0 \in 1 .. k THEN u[0].priority - t[0].priority ELSE 0)
    <3>1. Len(t) <= Len(u)
      BY <1>1
    <3>2. \A k \in 1 .. Len(t) : k # 0 => t[k].priority = u[k].priority
      BY <1>1
    <3>3. QED
      BY <1>1, <1>2, <1>3, <1>4, <3>1, <3>2, SumsDiffer
  <2>2. P[Len(t)] \in Nat /\ Q[Len(t)] = P[Len(t)] + 0
    <3>1. Len(t) \in 0 .. Len(t) /\ \A k \in 0 .. Len(t) : 0 \notin 1 .. k
      OBVIOUS
    <3>2. P[Len(t)] \in Nat
      BY <1>3, <3>1 DEF Sums
    <3>3. QED
      BY <2>1, <3>1, <3>2
  <2>3. QED
    BY <2>2
<1>6. Q[Len(u)] = Q[Len(t)] + d.priority
  BY <1>1, <1>4 DEF Sums
<1>7. PrioritySum(u) = PrioritySum(t) + d.priority
  BY <1>3, <1>4, <1>5, <1>6
<1>8. QED
  BY <1>7 DEF u

\* An entry exchanged exchanges its priority.
LEMMA SumExcept ==
    ASSUME NEW D, NEW t \in Seq(D), NEW d \in D, NEW i \in DOMAIN t, Priced(t), d.priority \in Nat
    PROVE  PrioritySum([t EXCEPT ![i] = d]) = PrioritySum(t) - t[i].priority + d.priority
<1> DEFINE u == [t EXCEPT ![i] = d]
<1>1. u \in Seq(D) /\ Len(u) = Len(t) /\ u[i] = d /\ \A k \in 1 .. Len(t) : k # i => u[k] = t[k]
  OBVIOUS
<1> HIDE DEF u
<1>2. Priced(u)
  BY <1>1 DEF Priced
<1>3. PICK P : Sums(t, P) /\ PrioritySum(t) = P[Len(t)]
  BY SumFound
<1>4. PICK Q : Sums(u, Q) /\ PrioritySum(u) = Q[Len(u)]
  BY <1>1, <1>2, SumFound
<1>5. \A k \in 0 .. Len(t) :
        Q[k] = P[k] + (IF i \in 1 .. k THEN u[i].priority - t[i].priority ELSE 0)
  <2>1. Len(t) <= Len(u) /\ i \in Nat
    BY <1>1
  <2>2. \A k \in 1 .. Len(t) : k # i => t[k].priority = u[k].priority
    BY <1>1
  <2>3. u \in Seq(D) /\ Sums(t, P) /\ Sums(u, Q)
    BY <1>1, <1>3, <1>4
  <2>4. QED
    BY <1>2, <2>1, <2>2, <2>3, SumsDiffer, SMTT(30)
<1>6. i \in 1 .. Len(t) /\ Len(t) \in 0 .. Len(t) /\ t[i].priority \in Nat /\ P[Len(t)] \in Nat
  BY <1>3 DEF Priced, Sums
<1>7. Q[Len(t)] = P[Len(t)] + (d.priority - t[i].priority)
  BY <1>1, <1>5, <1>6
<1>8. PrioritySum(u) = PrioritySum(t) - t[i].priority + d.priority
  BY <1>1, <1>3, <1>4, <1>6, <1>7
<1>9. QED
  BY <1>8 DEF u

\* Priorities up to m sum up to no more than m for each entry.
LEMMA SumBounded ==
    ASSUME NEW D, NEW t \in Seq(D), NEW m \in Nat, \A k \in 1 .. Len(t) : t[k].priority \in 0 .. m
    PROVE  PrioritySum(t) \in 0 .. Len(t) * m
<1>1. Priced(t)
  BY DEF Priced
<1>2. PICK P : Sums(t, P) /\ PrioritySum(t) = P[Len(t)]
  BY <1>1, SumFound
<1> DEFINE S == {k \in Nat : k <= Len(t) => P[k] <= k * m}
<1>3. 0 \in S
  BY <1>2 DEF Sums
<1>4. ASSUME NEW k \in Nat, k \in S PROVE k + 1 \in S
  <2> SUFFICES ASSUME k + 1 <= Len(t) PROVE P[k + 1] <= (k + 1) * m
    OBVIOUS
  <2>1. k + 1 \in 1 .. Len(t) /\ (k + 1) - 1 = k /\ k <= Len(t) /\ k \in 0 .. Len(t)
    OBVIOUS
  <2>2. P[k + 1] = P[k] + t[k + 1].priority /\ P[k] \in Nat /\ t[k + 1].priority \in 0 .. m
    BY <1>2, <2>1 DEF Sums
  <2>3. (k + 1) * m = k * m + m /\ k * m \in Nat
    OBVIOUS
  <2>4. QED
    BY <1>4, <2>1, <2>2, <2>3
<1>5. \A k \in Nat : k \in S
  <2> HIDE DEF S
  <2>1. QED
    BY <1>3, <1>4, NatInd, Zenon
<1>6. QED
  BY <1>2, <1>5 DEF Sums
SumInv ==
    /\ MasterInv
    /\ rxDevPrioritySum = PrioritySum(rxDev)
    /\ \A k \in 1 .. Len(rxDev) : rxDev[k].priority \in 0 .. MaxPriority
    /\ \A k, l \in 1 .. Len(rxDev) : rxDev[k].id = rxDev[l].id => k = l

\* A handshake adds a device at most once and keeps the sum.
LEMMA DiscoverSums ==
    ASSUME SumInv, NEW p \in Packets, p.type = "handshake", Discover(p), MasterInv'
    PROVE  SumInv'
<1> DEFINE L == Len(rxDev)
           device == [id |-> p.src, priority |-> Least(p.priority, MaxPriority)]
<1>1. /\ rxDev \in Seq(Devices) /\ L \in Nat /\ DOMAIN rxDev = 1 .. L
      /\ device \in Devices /\ device.id = p.src /\ device.priority \in 0 .. MaxPriority
  <2>1. p.priority \in Nat /\ MaxPriority \in Nat
    BY BusAssumption
  <2>2. device \in Devices
    BY DEF Devices
  <2>3. QED
    BY <2>1, <2>2 DEF SumInv, MasterInv, Tables, Least
<1>2. Priced(rxDev)
  BY DEF SumInv, Priced
<1> HIDE DEF device
<1>3. CASE EntryOf(rxDev, p.src) # 0
  <2> DEFINE i == EntryOf(rxDev, p.src)
  <2>1. i \in 1 .. L /\ rxDev[i].id = p.src
    BY <1>1, <1>3, EntryFound
  <2>2. /\ rxDev' = [rxDev EXCEPT ![i] = device]
        /\ rxDevPrioritySum' = rxDevPrioritySum - rxDev[i].priority + device.priority
    BY <1>3 DEF Discover, AddDevice, Replaced, device
  <2> HIDE DEF i
  <2>3. rxDevPrioritySum' = PrioritySum(rxDev')
    <3>1. /\ device.priority \in Nat /\ i \in DOMAIN rxDev
          /\ rxDevPrioritySum = PrioritySum(rxDev)
      BY <1>1, <2>1 DEF SumInv
    <3>2. PrioritySum([rxDev EXCEPT ![i] = device])
            = PrioritySum(rxDev) - rxDev[i].priority + device.priority
      BY <1>1, <1>2, <3>1, SumExcept, Zenon
    <3>3. QED
      BY <2>2, <3>1, <3>2, Zenon
  <2>4. /\ Len(rxDev') = L /\ rxDev'[i] = device
        /\ \A k \in 1 .. L : k # i => rxDev'[k] = rxDev[k]
    BY <1>1, <2>1, <2>2
  <2>5. \A k \in 1 .. L : rxDev'[k].priority \in 0 .. MaxPriority /\ rxDev'[k].id = rxDev[k].id
    BY <1>1, <2>1, <2>4 DEF SumInv
  <2>6. QED
    BY <2>3, <2>4, <2>5 DEF SumInv
<1>4. CASE EntryOf(rxDev, p.src) = 0 /\ Addable(p)
  <2>1. rxDev' = Append(rxDev, device) /\ rxDevPrioritySum' = rxDevPrioritySum + device.priority
    BY <1>4 DEF Discover, AddDevice, device
  <2>2. rxDevPrioritySum' = PrioritySum(rxDev')
    BY <1>1, <1>2, <2>1, SumAppend DEF SumInv
  <2>3. /\ Len(rxDev') = L + 1 /\ rxDev'[L + 1] = device
        /\ \A k \in 1 .. L : rxDev'[k] = rxDev[k]
    BY <1>1, <2>1
  <2>4. \A k \in 1 .. L : rxDev[k].id # p.src
    BY <1>1, <1>4, EntryFound DEF Known
  <2>5. \A k \in 1 .. L + 1 : k \in 1 .. L \/ k = L + 1
    BY <1>1
  <2>6. \A k \in 1 .. L + 1 : rxDev'[k].priority \in 0 .. MaxPriority
    BY <1>1, <2>3, <2>5 DEF SumInv
  <2>7. \A k, l \in 1 .. L + 1 : rxDev'[k].id = rxDev'[l].id => k = l
    BY <1>1, <2>3, <2>4, <2>5 DEF SumInv
  <2>8. QED
    BY <2>2, <2>3, <2>6, <2>7 DEF SumInv
<1>5. CASE EntryOf(rxDev, p.src) = 0 /\ ~Addable(p)
  <2>1. UNCHANGED <<rxDev, rxDevPrioritySum>>
    BY <1>5 DEF Discover, AddDevice
  <2>2. QED
    BY <2>1 DEF SumInv
<1>6. QED
  BY <1>3, <1>4, <1>5

\* Nothing else touches the table.
LEMMA NextSum ==
    ASSUME SumInv, BusStep
    PROVE  SumInv'
<1>1. MasterInv'
  BY NextMaster DEF SumInv
<1>2. ASSUME UNCHANGED <<rxDev, rxDevPrioritySum>> PROVE SumInv'
  BY <1>1, <1>2 DEF SumInv
<1>3. ASSUME NEW p \in Packets, Receive(p) PROVE SumInv'
  <2>1. \/ p.type = "handshake" /\ Discover(p)
        \/ UNCHANGED <<rxDev, rxDevPrioritySum>>
    BY <1>3 DEF Receive, ParsePacket, ParseControl, BecomeMaster, HandshakeAsMaster,
       BroadcastHandshake, Poll, ParseTelemetry, ParseBind, found
  <2>2. QED
    BY <1>1, <1>2, <2>1, DiscoverSums
<1>4. CASE RunAfterByte
  BY <1>2, <1>4 DEF RunAfterByte, found
<1>5. CASE BusRestart
  <2>1. rxDev' = <<>> /\ rxDevPrioritySum' = 0
    BY <1>5 DEF BusRestart
  <2>2. QED
    BY <1>1, <2>1, SumEmpty DEF SumInv
<1>6. CASE BusIdle
  BY <1>2, <1>6 DEF BusIdle, found
<1>7. CASE UNCHANGED busVars
  BY <1>2, <1>7 DEF busVars, found
<1>8. QED
  BY <1>3, <1>4, <1>5, <1>6, <1>7 DEF BusStep, BusNext

\* The empty table has the sum 0.
LEMMA InitSum == BusInit => SumInv
  BY InitMaster, SumEmpty DEF BusInit, SumInv

\* What the two invariants of the tables say of the property.
LEMMA TablesFollow == SortInv /\ SumInv => TablesAgree
<1>1. SumInv => PrioritySumAgrees
  <2> SUFFICES ASSUME SumInv PROVE PrioritySumAgrees
    OBVIOUS
  <2>1. DOMAIN rxDev = 1 .. Len(rxDev)
    BY DEF SumInv, MasterInv, Tables
  <2>2. \A i, j \in DOMAIN rxDev : rxDev[i].id = rxDev[j].id => i = j
    BY <2>1, Zenon DEF SumInv
  <2>3. rxDevPrioritySum = PrioritySum(rxDev)
    BY DEF SumInv
  <2>4. QED
    BY <2>2, <2>3, Zenon DEF PrioritySumAgrees, PrioritySum
<1>2. QED
  BY <1>1, SortFollows DEF TablesAgree

\* TablesAgree: the sum srxlAddDeviceEntry keeps up, exchanging the priority of
\* a device it knows, is that of the table, in which no device is twice, and the
\* receivers are in order: for every order of handshakes and every table size.
THEOREM TablesAgreed == BusSpec => []TablesAgree
<1>1. SortInv /\ SumInv /\ [BusNext]_busVars => SortInv' /\ SumInv'
  BY NextSort, NextSum DEF BusStep
<1>2. QED
  BY <1>1, InitSort, InitSum, TablesFollow, PTL DEF BusSpec

----------------------------------------------------------------------------
(* The channels.                                                           *)

\* How many of D come up to c.
Rank(D, c) == Cardinality({d \in D : d <= c})

\* s lists D in increasing order.
Increasing(s, D, n) ==
    /\ s \in [1 .. n -> D]
    /\ \A i, j \in 1 .. n : i < j => s[i] < s[j]

\* The element of rank i is the i-th of the list.
LEMMA IncreasingRanks ==
    ASSUME NEW D \in SUBSET Nat, IsFiniteSet(D), NEW n, n = Cardinality(D),
           NEW s, Increasing(s, D, n), NEW c \in D
    PROVE  Rank(D, c) \in 1 .. n /\ s[Rank(D, c)] = c
<1>1. n \in Nat /\ IsFiniteSet(1 .. n) /\ Cardinality(1 .. n) = n
  BY FS_CardinalityType, FS_Interval
<1>2. \A i, j \in 1 .. n : s[i] \in Nat /\ (s[i] <= s[j] <=> i <= j)
  <2> SUFFICES ASSUME NEW i \in 1 .. n, NEW j \in 1 .. n
               PROVE  s[i] \in Nat /\ (s[i] <= s[j] <=> i <= j)
    OBVIOUS
  <2>1. s[i] \in Nat /\ s[j] \in Nat /\ i \in Nat /\ j \in Nat
    <3>1. s[i] \in D /\ s[j] \in D
      BY DEF Increasing
    <3>2. n \in Nat
      BY <1>1
    <3>3. i \in Nat /\ j \in Nat
      BY <3>2
    <3>4. QED
      BY <3>1, <3>3
  <2>2. (i < j => s[i] < s[j]) /\ (j < i => s[j] < s[i])
    BY DEF Increasing
  <2>3. i = j => s[i] = s[j]
    OBVIOUS
  <2>4. QED
    BY <2>1, <2>2, <2>3
<1>3. s \in Surjection(1 .. n, D)
  <2>1. s \in Injection(1 .. n, D)
    <3>1. \A i, j \in 1 .. n : s[i] = s[j] => i = j
      BY <1>1, <1>2
    <3>2. QED
      BY <3>1 DEF Increasing, Injection, IsInjective
  <2>2. QED
    BY <1>1, <2>1, FS_Injection
<1>4. PICK i \in 1 .. n : s[i] = c
  BY <1>3 DEF Surjection
<1> DEFINE U == {d \in D : d <= c}
           f == [j \in 1 .. i |-> s[j]]
<1>5. Cardinality(U) = i
  <2>1. f \in [1 .. i -> U]
    BY <1>1, <1>2, <1>4 DEF Increasing
  <2>2. f \in Injection(1 .. i, U)
    <3>1. \A j, k \in 1 .. i : f[j] = f[k] => j = k
      BY <1>1, <1>2
    <3>2. QED
      BY <2>1, <3>1 DEF Injection, IsInjective
  <2>3. f \in Surjection(1 .. i, U)
    <3>1. ASSUME NEW d \in U PROVE \E j \in 1 .. i : f[j] = d
      <4>1. PICK j \in 1 .. n : s[j] = d
        BY <1>3 DEF Surjection
      <4>2. j \in 1 .. i
        BY <1>1, <1>2, <1>4, <4>1
      <4>3. QED
        BY <4>1, <4>2
    <3>2. QED
      BY <2>1, <3>1 DEF Surjection
  <2>4. ExistsBijection(1 .. i, U)
    BY <2>2, <2>3 DEF ExistsBijection, Bijection
  <2>5. QED
    BY <1>4, <2>4, FS_CountingElements
<1>6. QED
  BY <1>4, <1>5 DEF Rank

\* There is such a list: the one in which each is at its rank.
LEMMA IncreasingExists ==
    ASSUME NEW D \in SUBSET Nat, IsFiniteSet(D), NEW n, n = Cardinality(D)
    PROVE  \E s : Increasing(s, D, n)
<1> DEFINE r == [c \in D |-> Rank(D, c)]
<1>1. n \in Nat /\ IsFiniteSet(1 .. n) /\ Cardinality(1 .. n) = n
  BY FS_CardinalityType, FS_Interval
<1>2. \A c \in D : Rank(D, c) \in 1 .. n
  <2> SUFFICES ASSUME NEW c \in D PROVE Rank(D, c) \in 1 .. n
    OBVIOUS
  <2> DEFINE U == {d \in D : d <= c}
  <2>1. U \in SUBSET D /\ c \in U
    OBVIOUS
  <2>2. IsFiniteSet(U) /\ Cardinality(U) <= n
    BY <2>1, FS_Subset
  <2>3. Cardinality(U) \in Nat /\ Cardinality(U) # 0
    BY <2>1, <2>2, FS_CardinalityType, FS_EmptySet
  <2>4. QED
    BY <1>1, <2>2, <2>3 DEF Rank
<1>3. \A c, d \in D : c < d => Rank(D, c) < Rank(D, d)
  <2> SUFFICES ASSUME NEW c \in D, NEW d \in D, c < d PROVE Rank(D, c) < Rank(D, d)
    OBVIOUS
  <2> DEFINE U == {e \in D : e <= c}
             V == {e \in D : e <= d}
  <2>1. V \in SUBSET D /\ U \in SUBSET V /\ U # V
    <3>1. d \in V /\ d \notin U
      OBVIOUS
    <3>2. \A e \in U : e \in V
      OBVIOUS
    <3>3. QED
      BY <3>1, <3>2
  <2>2. IsFiniteSet(V)
    BY <2>1, FS_Subset
  <2>3. Cardinality(U) <= Cardinality(V) /\ Cardinality(U) # Cardinality(V)
    BY <2>1, <2>2, FS_Subset
  <2>4. QED
    BY <1>1, <1>2, <2>3 DEF Rank
<1>4. r \in Surjection(D, 1 .. n)
  <2>1. \A c, d \in D : r[c] = r[d] => c = d
    BY <1>1, <1>2, <1>3
  <2>2. r \in Injection(D, 1 .. n)
    BY <1>2, <2>1 DEF Injection, IsInjective
  <2>3. QED
    BY <1>1, <2>2, FS_Injection
<1> DEFINE s == [i \in 1 .. n |-> CHOOSE c \in D : r[c] = i]
<1>5. \A i \in 1 .. n : s[i] \in D /\ Rank(D, s[i]) = i
  BY <1>4 DEF Surjection
<1>6. ASSUME NEW i \in 1 .. n, NEW j \in 1 .. n, i < j PROVE s[i] < s[j]
  <2> HIDE DEF s
  <2>1. s[i] \in Nat /\ s[j] \in Nat
    BY <1>5
  <2>2. CASE s[j] < s[i]
    <3>1. Rank(D, s[j]) < Rank(D, s[i])
      BY <1>3, <1>5, <2>2
    <3>2. QED
      BY <1>1, <1>5, <1>6, <3>1
  <2>3. CASE s[j] = s[i]
    BY <1>1, <1>5, <1>6, <2>3
  <2>4. QED
    BY <2>1, <2>2, <2>3
<1>7. s \in [1 .. n -> D]
  BY <1>5
<1> HIDE DEF s
<1>8. Increasing(s, D, n)
  BY <1>6, <1>7 DEF Increasing
<1>9. QED
  BY <1>8

\* What a master packs is found where the channels of the mask are counted.
LEMMA PackedAt ==
    ASSUME NEW ch, DOMAIN ch \subseteq Nat, IsFiniteSet(DOMAIN ch), NEW c \in DOMAIN ch
    PROVE  Packed(ch)[Cardinality({d \in DOMAIN ch : d <= c})] = ch[c]
<1> DEFINE n == Cardinality(DOMAIN ch)
           s == CHOOSE t \in [1 .. n -> DOMAIN ch] : \A i, j \in 1 .. n : i < j => t[i] < t[j]
<1>1. Increasing(s, DOMAIN ch, n)
  <2>1. PICK t : Increasing(t, DOMAIN ch, n)
    BY IncreasingExists
  <2>2. QED
    BY <2>1, Zenon DEF Increasing
<1>2. Packed(ch) = [i \in 1 .. n |-> ch[s[i]]]
  BY Zenon DEF Packed
<1> HIDE DEF s
<1>3. Rank(DOMAIN ch, c) \in 1 .. n /\ s[Rank(DOMAIN ch, c)] = c
  BY <1>1, IncreasingRanks
<1>4. QED
  BY <1>2, <1>3 DEF Rank

\* A packet with channels gives each of them the value its master gave it.
LEMMA ReceiveChannels ==
    ASSUME ChannelsAsSent, NEW p \in Packets, Receive(p)
    PROVE  ChannelsAsSent'
<1> DEFINE at(c) == Cardinality({d \in p.mask : d <= c})
<1>1. CASE "channels" \in DOMAIN p
  <2>1. /\ p.type = "control" /\ p.cmd # "vtx"
        /\ p.mask \subseteq Channels /\ DOMAIN p.channels = p.mask
        /\ p.values = Packed(p.channels)
        /\ Channels \subseteq Nat /\ IsFiniteSet(Channels)
    BY <1>1, BusAssumption
  <2>2. p.mask \subseteq Nat /\ IsFiniteSet(p.mask)
    BY <2>1, FS_Subset
  <2>3. \A c \in p.mask : p.values[at(c)] = p.channels[c]
    BY <2>1, <2>2, PackedAt
  <2>4. ParseControl(p)
    BY <2>1 DEF Receive, ParsePacket, BecomeMaster, HandshakeAsMaster, BroadcastHandshake,
       Poll, ParseTelemetry, ParseBind
  <2>5. values' = [c \in Channels |-> IF c \in p.mask THEN p.values[at(c)] ELSE values[c]]
    BY <2>1, <2>4 DEF ParseControl, Unpacked
  <2>6. told' = [c \in Channels |-> IF c \in p.mask THEN p.channels[c] ELSE told[c]]
    BY <1>1, <2>1 DEF Receive
  <2>7. values = told
    BY DEF ChannelsAsSent
  <2> HIDE DEF at
  <2>8. QED
    BY <2>3, <2>5, <2>6, <2>7 DEF ChannelsAsSent
<1>2. CASE "channels" \notin DOMAIN p
  <2>1. ~(p.type = "control" /\ p.cmd # "vtx") /\ told' = told
    BY <1>2, BusAssumption DEF Receive
  <2>2. values' = values
    BY <2>1 DEF Receive, ParsePacket, ParseControl, BecomeMaster, HandshakeAsMaster,
       BroadcastHandshake, Poll, ParseTelemetry, ParseBind
  <2>3. QED
    BY <2>1, <2>2 DEF ChannelsAsSent
<1>3. QED
  BY <1>1, <1>2

\* Every step keeps the channels as they were sent.
LEMMA NextChannels ==
    ASSUME ChannelsAsSent, BusStep
    PROVE  ChannelsAsSent'
<1>1. ASSUME NEW p \in Packets, Receive(p) PROVE ChannelsAsSent'
  BY <1>1, ReceiveChannels
<1>2. CASE RunAfterByte
  BY <1>2 DEF RunAfterByte, ChannelsAsSent, busHistory
<1>3. CASE BusRestart
  BY <1>3 DEF BusRestart, ChannelsAsSent
<1>4. CASE BusIdle
  BY <1>4 DEF BusIdle, ChannelsAsSent, busHistory
<1>5. CASE UNCHANGED busVars
  BY <1>5 DEF busVars, ChannelsAsSent, busHistory
<1>6. QED
  BY <1>1, <1>2, <1>3, <1>4, <1>5 DEF BusStep, BusNext

\* ChannelsAsSent: for every mask, what the loop of srxlParsePacket unpacks under
\* the index of a channel is what the master packed for that channel.
THEOREM Unpacking == BusSpec => []ChannelsAsSent
<1>1. BusInit => ChannelsAsSent
  BY DEF BusInit, ChannelsAsSent
<1>2. ChannelsAsSent /\ [BusNext]_busVars => ChannelsAsSent'
  BY NextChannels DEF BusStep
<1>3. QED
  BY <1>1, <1>2, PTL DEF BusSpec

----------------------------------------------------------------------------
(* The types of the bus.                                                   *)

\* A sum of at most MaxDevices priorities.
LEMMA SumFits ==
    ASSUME NEW t \in Seq(Devices), Len(t) <= MaxDevices,
           \A k \in 1 .. Len(t) : t[k].priority \in 0 .. MaxPriority
    PROVE  PrioritySum(t) \in 0 .. MaxDevices * MaxPriority
<1>1. Len(t) \in 0 .. MaxDevices /\ MaxDevices \in Nat /\ MaxPriority \in Nat
  BY BusAssumption
<1>2. PrioritySum(t) \in 0 .. Len(t) * MaxPriority
  BY <1>1, SumBounded
<1>3. \A n \in 0 .. MaxDevices :
        n * MaxPriority \in Nat /\ n * MaxPriority <= MaxDevices * MaxPriority
  <2> SUFFICES ASSUME NEW n \in 0 .. MaxDevices
               PROVE  n * MaxPriority \in Nat /\ n * MaxPriority <= MaxDevices * MaxPriority
    OBVIOUS
  <2>1. MaxDevices - n \in Nat /\ n \in Nat
    BY <1>1
  <2>2. (MaxDevices - n) * MaxPriority \in Nat /\ n * MaxPriority \in Nat
    BY <1>1, <2>1
  <2>3. MaxDevices * MaxPriority = n * MaxPriority + (MaxDevices - n) * MaxPriority
    BY <1>1, <2>1
  <2>4. QED
    BY <2>2, <2>3
<1>4. \A m, n \in Nat : m <= n => 0 .. m \subseteq 0 .. n
  OBVIOUS
<1>5. Len(t) * MaxPriority <= MaxDevices * MaxPriority /\ Len(t) * MaxPriority \in Nat
  BY <1>1, <1>3
<1>6. MaxDevices * MaxPriority \in Nat
  BY <1>1
<1>7. QED
  BY <1>2, <1>4, <1>5, <1>6, Zenon

BusInv == SlaveInv /\ SortInv /\ SumInv /\ ChannelsAsSent /\ BusTypeOK

\* What a packet leaves is of its type, in the tables that were found to be.
LEMMA ReceiveTypes ==
    ASSUME BusInv, NEW p \in Packets, Receive(p), Tables'
    PROVE  /\ state' \in BusStates /\ requestID' \in 0 .. 255 /\ master' \in BOOLEAN
           /\ pMasterRcvr' \in 0 .. MaxRcvrs /\ pTelemRcvr' \in 0 .. Len(rcvr')
           /\ Len(out') <= 1
<1>1. /\ state \in BusStates /\ requestID \in 0 .. 255 /\ master \in BOOLEAN
      /\ pMasterRcvr \in 0 .. MaxRcvrs /\ pTelemRcvr \in 0 .. Len(rcvr)
      /\ Self \in 0 .. 255 /\ Broadcast \in 0 .. 255 /\ MaxRcvrs \in Nat \ {0}
  BY BusAssumption DEF BusInv, BusTypeOK, Broadcast
<1>2. /\ rcvr \in Seq(Entries) /\ Len(rcvr) \in Nat
      /\ rcvr' \in Seq(Entries) /\ Len(rcvr') \in 0 .. MaxRcvrs
  BY <1>1 DEF BusInv, SumInv, MasterInv, Tables
<1>3. \A id : EntryOf(rcvr, id) \in 0 .. Len(rcvr)
  <2> SUFFICES ASSUME NEW id PROVE EntryOf(rcvr, id) \in 0 .. Len(rcvr)
    OBVIOUS
  <2>1. EntryOf(rcvr, id) = 0 \/ EntryOf(rcvr, id) \in DOMAIN rcvr
    BY <1>2, EntryFound
  <2>2. QED
    BY <1>2, <2>1
<1>4. \A id : EntryOf(rcvr', id) \in 0 .. MaxRcvrs
  <2> SUFFICES ASSUME NEW id PROVE EntryOf(rcvr', id) \in 0 .. MaxRcvrs
    OBVIOUS
  <2>1. EntryOf(rcvr', id) = 0 \/ EntryOf(rcvr', id) \in DOMAIN rcvr'
    BY <1>2, EntryFound
  <2>2. QED
    BY <1>1, <1>2, <2>1
<1>5. ASSUME NEW s \in BusStates, NEW id, Run(s, id)
      PROVE  state' \in BusStates /\ Len(out') <= 1
  <2>1. state' \in BusStates
    BY <1>5 DEF Run, BusStates
  <2>2. out' = <<>> \/ out' = <<Handshake(id)>> \/ out' = <<TelemetryReply>>
    BY <1>5 DEF Run
  <2>3. \A x : Len(<<x>>) = 1 /\ Len(<<>>) = 0
    OBVIOUS
  <2>4. Len(out') = 0 \/ Len(out') = 1
    BY <2>2, <2>3, Zenon
  <2>5. \A n : n = 0 \/ n = 1 => n <= 1
    OBVIOUS
  <2>6. QED
    BY <2>1, <2>4, <2>5, Zenon
<1>6. Bumped \in BusStates /\ {"running", "sendTelemetry", "sendHandshake", "listenForHandshake"} \subseteq BusStates
  BY <1>1 DEF Bumped, BusStates, BelowRunning
<1>7. ASSUME Discover(p) PROVE pTelemRcvr' \in 0 .. Len(rcvr')
  <2>1. CASE UNCHANGED <<rcvr, pTelemRcvr>>
    BY <1>1, <2>1
  <2>2. CASE ~UNCHANGED <<rcvr, pTelemRcvr>>
    <3> DEFINE i == EntryOf(rcvr, p.src)
               e == [id |-> p.src, info |-> p.info]
    <3>1. AddReceiver(p)
      BY <1>7, <2>2 DEF Discover
    <3>2. CASE i # 0
      <4>1. rcvr' = rcvr /\ (pTelemRcvr' = i \/ pTelemRcvr' = pTelemRcvr)
        BY <2>2, <3>1, <3>2 DEF AddReceiver
      <4>2. QED
        BY <1>1, <1>3, <4>1
    <3>3. CASE i = 0
      <4>1. /\ rcvr' = Append(rcvr, e)
            /\ pTelemRcvr' = Len(rcvr) + 1 \/ pTelemRcvr' = pTelemRcvr
        BY <2>2, <3>1, <3>3 DEF AddReceiver
      <4>2. Len(rcvr') = Len(rcvr) + 1
        BY <1>2, <4>1 DEF Entries
      <4>3. QED
        BY <1>1, <1>2, <4>1, <4>2
    <3>4. QED
      BY <3>2, <3>3
  <2>3. QED
    BY <2>1, <2>2
<1>8. p.type = "handshake" => p.src \in 0 .. 255
  BY BusAssumption
<1>9. CASE ParseControl(p)
  BY <1>1, <1>5, <1>6, <1>9 DEF ParseControl, found
<1>10. CASE BecomeMaster(p)
  <2>1. Len(out') <= 1
    BY <1>10 DEF BecomeMaster
  <2>2. QED
    BY <1>1, <1>6, <1>7, <1>10, <2>1 DEF BecomeMaster
<1>11. CASE HandshakeAsMaster(p)
  BY <1>1, <1>6, <1>7, <1>11 DEF HandshakeAsMaster
<1>12. CASE BroadcastHandshake(p)
  BY <1>1, <1>4, <1>5, <1>6, <1>7, <1>12 DEF BroadcastHandshake, MasterEntry
<1>13. CASE Poll(p)
  BY <1>1, <1>5, <1>6, <1>7, <1>8, <1>13 DEF Poll
<1>14. CASE ParseTelemetry(p)
  <2>1. CASE master /\ p.dest = Broadcast
    <3>1. state' = "sendHandshake" /\ Len(out') = 0 /\ requestID' \in {Self, Broadcast}
      BY <1>14, <2>1 DEF ParseTelemetry
    <3>2. UNCHANGED <<master, pMasterRcvr, rcvr, pTelemRcvr>>
      BY <1>14, <2>1 DEF ParseTelemetry, found
    <3>3. QED
      BY <1>1, <1>6, <3>1, <3>2
  <2>2. CASE ~(master /\ p.dest = Broadcast)
    <3>1. /\ pTelemRcvr' = 0 /\ requestID' = requestID /\ Run(Bumped, requestID)
          /\ UNCHANGED <<master, pMasterRcvr, rcvr>>
      BY <1>14, <2>2 DEF ParseTelemetry, found
    <3>2. pTelemRcvr' \in 0 .. Len(rcvr')
      BY <1>2, <3>1
    <3>3. state' \in BusStates /\ Len(out') <= 1
      BY <1>5, <1>6, <3>1
    <3>4. QED
      BY <1>1, <3>1, <3>2, <3>3
  <2>3. QED
    BY <2>1, <2>2
<1>15. CASE ParseBind(p)
  BY <1>1, <1>3, <1>5, <1>6, <1>15 DEF ParseBind, found
<1>16. QED
  BY <1>9, <1>10, <1>11, <1>12, <1>13, <1>14, <1>15 DEF Receive, ParsePacket

\* The values stay natural numbers: they are those a master sent.
LEMMA ReceiveValues ==
    ASSUME BusInv, NEW p \in Packets, Receive(p)
    PROVE  told' \in [Channels -> Nat]
<1>1. told \in [Channels -> Nat]
  BY DEF BusInv, BusTypeOK
<1>2. CASE "channels" \in DOMAIN p
  <2>1. DOMAIN p.channels = p.mask /\ \A c \in p.mask : p.channels[c] \in Nat
    BY <1>2, BusAssumption
  <2>2. told' = [c \in Channels |-> IF c \in p.mask THEN p.channels[c] ELSE told[c]]
    BY <1>2, <2>1 DEF Receive
  <2>3. QED
    BY <1>1, <2>1, <2>2
<1>3. CASE "channels" \notin DOMAIN p
  BY <1>1, <1>3 DEF Receive
<1>4. QED
  BY <1>2, <1>3

\* The count of calls stays in its bounds.
LEMMA AgedType == timeout \in 0 .. Limit => Aged \in 0 .. Limit /\ 0 \in 0 .. Limit
  BY BusAssumption DEF Aged, Least

\* Every step keeps all of them.
LEMMA NextBus ==
    ASSUME BusInv, BusStep
    PROVE  BusInv'
<1>1. /\ SlaveInv' /\ SortInv' /\ SumInv' /\ ChannelsAsSent' /\ MasterInv' /\ Tables'
      /\ SlaveInv /\ BusTypeOK /\ values = told
  BY NextSlave, NextSort, NextSum, NextChannels DEF BusInv, SumInv, MasterInv, ChannelsAsSent
<1>2. /\ Len(rxDev') <= MaxDevices /\ Len(rcvr') <= MaxRcvrs
      /\ rxDevPrioritySum' \in 0 .. MaxDevices * MaxPriority
      /\ ignored' \in Nat
  BY <1>1, SumFits DEF SumInv, MasterInv, Tables, SlaveInv
<1>3. ASSUME /\ state' \in BusStates /\ requestID' \in 0 .. 255 /\ timeout' \in 0 .. Limit
             /\ master' \in BOOLEAN /\ pMasterRcvr' \in 0 .. MaxRcvrs
             /\ pTelemRcvr' \in 0 .. Len(rcvr') /\ Len(out') <= 1
             /\ introduced' \in 0 .. 255 /\ polled' \in BOOLEAN /\ told' \in [Channels -> Nat]
      PROVE  BusInv'
  BY <1>1, <1>2, <1>3 DEF BusInv, BusTypeOK, ChannelsAsSent
<1>4. ASSUME NEW p \in Packets, Receive(p) PROVE BusInv'
  <2>1. timeout' \in 0 .. Limit
    BY <1>4, BusAssumption DEF Receive, ParsePacket
  <2>2. introduced' \in 0 .. 255
    BY <1>1, <1>4, BusAssumption DEF Receive, BusTypeOK
  <2>3. polled' \in BOOLEAN
    BY <1>4 DEF Receive, PollsUs
  <2>4. QED
    BY <1>1, <1>3, <1>4, <2>1, <2>2, <2>3, ReceiveTypes, ReceiveValues
<1>5. CASE RunAfterByte
  <2>1. state' \in BusStates
    BY <1>1, <1>5 DEF RunAfterByte, BusTypeOK, BusStates, BelowRunning
  <2>2. timeout' \in 0 .. Limit /\ requestID' \in 0 .. 255
    BY <1>1, <1>5, AgedType DEF RunAfterByte, BusTypeOK
  <2>3. Len(out') <= 1
    BY <1>5 DEF RunAfterByte
  <2>4. UNCHANGED <<master, pMasterRcvr, rcvr, pTelemRcvr, introduced, polled, told>>
    BY <1>5 DEF RunAfterByte, found, busHistory
  <2>5. QED
    BY <1>1, <1>3, <2>1, <2>2, <2>3, <2>4 DEF BusTypeOK
<1>6. CASE BusRestart
  <2>1. told' \in [Channels -> Nat]
    BY <1>6 DEF BusRestart
  <2>2. Len(out') <= 1 /\ Len(rcvr') = 0
    BY <1>6 DEF BusRestart
  <2>3. 0 \in 0 .. 255 /\ 0 \in 0 .. Limit /\ 0 \in 0 .. MaxRcvrs /\ 0 \in 0 .. Len(rcvr')
    BY <2>2, BusAssumption
  <2>4. /\ state' = "listenOnStartup" /\ requestID' = 0 /\ timeout' = 0 /\ master' = FALSE
        /\ pMasterRcvr' = 0 /\ pTelemRcvr' = 0 /\ introduced' = 0 /\ polled' = FALSE
    BY <1>6 DEF BusRestart
  <2>5. state' \in BusStates
    BY <2>4 DEF BusStates, BelowRunning
  <2>6. QED
    BY <1>3, <2>1, <2>2, <2>3, <2>4, <2>5
<1>7. CASE BusIdle
  <2>1. Len(out') <= 1
    BY <1>7 DEF BusIdle
  <2>2. UNCHANGED <<state, requestID, timeout, master, pMasterRcvr, rcvr, pTelemRcvr,
                    introduced, polled, told>>
    BY <1>7 DEF BusIdle, found, busHistory
  <2>3. QED
    BY <1>1, <1>3, <2>1, <2>2 DEF BusTypeOK
<1>8. CASE UNCHANGED busVars
  BY <1>1, <1>3, <1>8 DEF BusTypeOK, busVars, found, busHistory
<1>9. QED
  BY <1>4, <1>5, <1>6, <1>7, <1>8 DEF BusStep, BusNext

\* They hold at the start.
LEMMA InitBus == BusInit => BusInv
<1> SUFFICES ASSUME BusInit PROVE BusInv
  OBVIOUS
<1>1. SlaveInv /\ SortInv /\ SumInv
  BY InitSlave, InitSort, InitSum
<1>2. ChannelsAsSent /\ told \in [Channels -> Nat]
  BY DEF BusInit, ChannelsAsSent
<1>3. Len(rcvr) = 0 /\ Len(rxDev) = 0 /\ Len(out) = 0
  BY DEF BusInit
<1>4. rxDevPrioritySum \in 0 .. MaxDevices * MaxPriority
  BY <1>1, SumFits DEF SumInv, MasterInv, Tables
<1>5. 0 \in 0 .. 255 /\ 0 \in 0 .. Limit /\ 0 \in 0 .. MaxRcvrs /\ 0 \in 0 .. Len(rcvr)
  BY <1>3, BusAssumption
<1>6. /\ state = "listenOnStartup" /\ requestID = 0 /\ timeout = 0 /\ master = FALSE
      /\ pMasterRcvr = 0 /\ pTelemRcvr = 0
      /\ introduced = 0 /\ polled = FALSE /\ ignored = 0 /\ values = told
  BY DEF BusInit
<1>7. state \in BusStates /\ Len(rxDev) <= MaxDevices /\ Len(rcvr) <= MaxRcvrs
  BY <1>3, <1>6, BusAssumption DEF BusStates, BelowRunning
<1>8. Len(out) <= 1 /\ ignored \in Nat /\ values \in [Channels -> Nat]
  BY <1>2, <1>3, <1>6
<1>9. master \in BOOLEAN /\ polled \in BOOLEAN
  BY <1>6
<1>10. BusTypeOK
  BY <1>2, <1>4, <1>5, <1>6, <1>7, <1>8, <1>9, Zenon DEF BusTypeOK
<1>11. QED
  BY <1>1, <1>2, <1>10 DEF BusInv

\* BusTypeOK, with all the rest: the tables never outgrow their arrays, the
\* indices kept of them are into them, and no step sends more than one packet.
THEOREM BusTypes == BusSpec => []BusTypeOK
<1>1. BusInv /\ [BusNext]_busVars => BusInv'
  BY NextBus DEF BusStep
<1>2. BusInv => BusTypeOK
  BY DEF BusInv
<1>3. QED
  BY <1>1, <1>2, InitBus, PTL DEF BusSpec

----------------------------------------------------------------------------
(* The bus behind the parser.                                              *)

\* A step of the two is one of the parser's, or none of it, and a step of the bus.
LEMMA LinkStep ==
    ASSUME [Next]_vars
    PROVE  [ParserNext]_parserVars /\ BusStep
<1>1. ASSUME NEW f \in Frames, Begin(f) PROVE ParserNext /\ BusIdle
  BY <1>1 DEF Begin, ParserNext
<1>2. ASSUME NEW f \in Frames, Parse(f) PROVE ParserNext /\ BusNext
  BY <1>2, FramesArePackets DEF Parse, ParserNext, Parser, BusNext
<1>3. CASE Send
  BY <1>3 DEF Send, ParserNext, BusStep
<1>4. CASE Noise
  BY <1>4 DEF Noise, ParserNext, BusStep
<1>5. CASE Collect
  BY <1>5 DEF Collect, ParserNext, Parser, BusStep
<1>6. CASE Skip
  BY <1>6 DEF Skip, ParserNext, Parser, BusStep, BusNext
<1>7. CASE Restart
  BY <1>7 DEF Restart, ParserNext, BusStep, BusNext
<1>8. CASE UNCHANGED vars
  BY <1>8 DEF vars, BusStep
<1>9. QED
  BY <1>1, <1>2, <1>3, <1>4, <1>5, <1>6, <1>7, <1>8 DEF Next, BusStep

\* The parser does not notice the bus behind it.
THEOREM LinkParses == Spec => ParserSpec
<1>1. Init => ParserInit
  BY DEF Init
<1>2. [Next]_vars => [ParserNext]_parserVars
  BY LinkStep
<1>3. QED
  BY <1>1, <1>2, PTL DEF Spec, ParserSpec

\* ImplementsReceiver, of the two together: the bus is given only frames that
\* crossed the line undisturbed, each once.
THEOREM LinkReceives == Spec => ImplementsReceiver
  BY LinkParses, Refinement, PTL

\* OverrunOnlyByNoise, of the two together.
THEOREM LinkOverrun == Spec => []OverrunOnlyByNoise
  BY LinkParses, OverrunCause, PTL

\* What holds of the bus by itself holds of it between the parser's steps.
THEOREM LinkBus == Spec => []BusInv
<1>1. Init => BusInv
  BY InitBus DEF Init
<1>2. BusInv /\ [Next]_vars => BusInv'
  BY NextBus, LinkStep
<1>3. QED
  BY <1>1, <1>2, PTL DEF Spec

\* TypeOK of the two together.
THEOREM LinkTypes == Spec => []TypeOK
<1>1. BusInv /\ ParserTypeOK => TypeOK
  BY DEF BusInv, TypeOK
<1>2. QED
  BY <1>1, LinkBus, LinkParses, TypeCorrect, PTL

\* The tables, the polls and the channels of a bus whose packets come as bytes
\* on a line with noise, and that is restarted with the parser.
THEOREM LinkKeeps ==
    Spec => [](TablesAgree /\ AnswersAPollOfTwo /\ RemembersMaster /\ ChannelsAsSent)
<1>1. BusInv => TablesAgree /\ AnswersAPollOfTwo /\ RemembersMaster /\ ChannelsAsSent
  <2> SUFFICES ASSUME BusInv
               PROVE  TablesAgree /\ AnswersAPollOfTwo /\ RemembersMaster /\ ChannelsAsSent
    OBVIOUS
  <2>1. TablesAgree /\ ChannelsAsSent
    BY TablesFollow DEF BusInv
  <2>2. AnswersAPollOfTwo
    BY DEF BusInv, SlaveInv, AnswersAPollOfTwo
  <2>3. RemembersMaster
    BY EntryFound DEF BusInv, SumInv, MasterInv, MasterKnown, Tables, RemembersMaster
  <2>4. QED
    BY <2>1, <2>2, <2>3
<1>2. QED
  BY <1>1, LinkBus, PTL

\* SpeaksWhenAsked, of the two together: no byte of a frame makes this device
\* speak, other than the last one of one that asks for it.
THEOREM LinkSpeaks == Spec => SpeaksWhenAsked
<1>1. ASSUME SlaveInv, [Next]_vars
      PROVE  [out' # <<>> => ~master /\ (polled \/ \E p \in Packets : Asks(p) /\ Receive(p))]_busVars
  BY <1>1, LinkStep, SpeaksStep DEF BusStep
<1>2. BusInv => SlaveInv
  BY DEF BusInv
<1>3. QED
  BY <1>1, <1>2, LinkBus, PTL DEF Spec, SpeaksWhenAsked
=============================================================================
