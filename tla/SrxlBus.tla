------------------------------ MODULE SrxlBus ------------------------------
(***************************************************************************)
(* The SRXL2 slave (lib/io/protocols/srxl2/spm_srxl.c) as this firmware    *)
(* builds it: one bus, no master code, no forward programming, no hub.     *)
(* It is driven by whole packets (Receive, for srxlParsePacket) and by the *)
(* bytes between them (RunAfterByte, for srxlRun(0, 4)).  The packets are  *)
(* those of the other devices, in any order: a master may start over at    *)
(* any time, and so may this device.                                       *)
(*                                                                         *)
(* A packet is a record with its fields by name.  Left out are the signal  *)
(* statistics, which only a hub reads, the bind and vtx data, which only a *)
(* master sends on, and the baud rate, which userProvidedSetBaud does not  *)
(* set.  txFlags are never set in this configuration.                      *)
(***************************************************************************)
EXTENDS Integers, Sequences, FiniteSets, SequencesExt

CONSTANTS
    Self,        \* SRXL_DEVICE_ID
    MaxDevices,  \* SRXL_MAX_DEVICES
    MaxRcvrs,    \* SRXL_MAX_RCVRS
    MaxPriority, \* the 100 of srxlAddDeviceEntry
    Channels,    \* indices of srxlChData.values
    Limit,       \* calls of srxlRun(0, 4) that make 50 ms
    Packets      \* the packets of the other devices

\* How a master packs the values of the channels it sends.
Packed(channels) ==
    LET n == Cardinality(DOMAIN channels)
        ordered == CHOOSE s \in [1 .. n -> DOMAIN channels] :
                       \A i, j \in 1 .. n : i < j => s[i] < s[j]
    IN  [i \in 1 .. n |-> channels[ordered[i]]]

ASSUME BusAssumption ==
    /\ Self \in 48 .. 63 /\ Self % 16 # 0
    /\ MaxDevices \in Nat /\ MaxRcvrs \in Nat \ {0} /\ MaxPriority \in Nat
    /\ Channels \subseteq Nat /\ IsFiniteSet(Channels)
    /\ Limit \in Nat \ {0}
    /\ \A p \in Packets :
        /\ p.type = "handshake" =>
            /\ p.src \in 0 .. 255 /\ p.dest \in 0 .. 255 /\ p.priority \in Nat
            /\ p.dest = 255 => p.src \in 16 .. 63
        /\ "channels" \in DOMAIN p <=> p.type = "control" /\ p.cmd # "vtx"
        /\ "channels" \in DOMAIN p =>
            /\ p.mask \subseteq Channels /\ p.channels \in [p.mask -> Nat]
            /\ p.values = Packed(p.channels)

VARIABLES
    state, requestID, timeout, master,  \* of srxlBus[0]; timeout counts calls
    pMasterRcvr,                        \* index into rcvr, 0 for NULL
    rxDev, rxDevPrioritySum,            \* the devices found, of srxlBus[0]
    rcvr, rcvrSorted, rcvrSortInsert,   \* the receivers found, of srxlRx
    pTelemRcvr,                         \* index into rcvr, 0 for NULL
    values,                             \* srxlChData.values
    out,                                \* the packets sent in the last step
    introduced, \* history: the sender of the last broadcast handshake, or 0
    polled,     \* history: the last packet received was a poll for us
    ignored,    \* history: polls for us left unanswered in a row
    told        \* history: the channels as the master sent them

found == <<rxDev, rxDevPrioritySum, rcvr, rcvrSorted, rcvrSortInsert>>
busHistory == <<introduced, polled, ignored, told>>
busVars ==
    <<state, requestID, timeout, master, pMasterRcvr, found, pTelemRcvr, values, out, busHistory>>

Broadcast == 255
BelowRunning == {"listenOnStartup", "sendHandshake", "listenForHandshake"}
BusStates == BelowRunning \union {"running", "sendTelemetry"}

----------------------------------------------------------------------------
(* Mutants: forms a plausible bug would give the definitions below.        *)

InsertedLast(s, i, r, full) == Append(s, i)
BumpedNot == state
MayReplyAtStartup == state = "listenOnStartup"
UnpackedByIndex(p) ==
    [c \in Channels |->
        IF c \in p.mask /\ c \in DOMAIN p.values THEN p.values[c] ELSE values[c]]
MasterEntryBefore(p) == IF \E i \in DOMAIN rcvr : rcvr[i].id = p.src
                        THEN CHOOSE i \in DOMAIN rcvr : rcvr[i].id = p.src ELSE 0

----------------------------------------------------------------------------
(* The tables.                                                             *)

Least(a, b) == IF a < b THEN a ELSE b

\* srxlGetReceiverEntry over the table t: 0 if there is none.
EntryOf(t, id) ==
    IF \E i \in DOMAIN t : t[i].id = id THEN CHOOSE i \in DOMAIN t : t[i].id = id ELSE 0

\* rcvrSorted with entry i of the receiver r put in its place.
Inserted(s, i, r, full) == IF full THEN InsertAt(s, rcvrSortInsert + 1, i) ELSE Append(s, i)

\* The sum with the priority of a known device exchanged.
Replaced(old, new) == rxDevPrioritySum - old + new

\* srxlAddReceiverEntry for the sender of p.
AddReceiver(p) ==
    LET i == EntryOf(rcvr, p.src)
        full == "fullRange" \in p.info
        entry == [id |-> p.src, info |-> p.info]
        at == IF i # 0 THEN i ELSE Len(rcvr) + 1
        info == IF i # 0 THEN rcvr[i].info ELSE p.info
        preferred == p.src \in 32 .. 47 /\ "telemetry" \in info
    IN  IF i = 0 /\ Len(rcvr) >= MaxRcvrs
        THEN UNCHANGED <<rcvr, rcvrSorted, rcvrSortInsert, pTelemRcvr>>
        ELSE /\ IF i # 0
                THEN UNCHANGED <<rcvr, rcvrSorted, rcvrSortInsert>>
                ELSE /\ rcvr' = Append(rcvr, entry)
                     /\ rcvrSorted' = Inserted(rcvrSorted, at, entry, full)
                     /\ rcvrSortInsert' = rcvrSortInsert + (IF full THEN 1 ELSE 0)
             /\ pTelemRcvr' = IF pTelemRcvr = 0 \/ preferred THEN at ELSE pTelemRcvr

\* Ids of broadcasts and of unknown types are never added, so never found either.
Addable(p) == p.src \in 16 .. 239 /\ Len(rxDev) < MaxDevices

\* srxlAddDeviceEntry for the sender of p, without its last lines.
AddDevice(p) ==
    LET i == EntryOf(rxDev, p.src)
        entry == [id |-> p.src, priority |-> Least(p.priority, MaxPriority)]
    IN  IF i # 0
        THEN /\ rxDev' = [rxDev EXCEPT ![i] = entry]
             /\ rxDevPrioritySum' = Replaced(rxDev[i].priority, entry.priority)
        ELSE IF Addable(p)
        THEN /\ rxDev' = Append(rxDev, entry)
             /\ rxDevPrioritySum' = rxDevPrioritySum + entry.priority
        ELSE UNCHANGED <<rxDev, rxDevPrioritySum>>

\* The senders of handshakes that are receivers to srxlAddReceiverEntry: a
\* receiver that is new among the devices, and a flight controller as master.
IsReceiver(p) ==
    \/ p.src \in 16 .. 47 /\ EntryOf(rxDev, p.src) = 0 /\ Addable(p)
    \/ p.src \in 48 .. 63 /\ p.dest = Broadcast /\ ~master

----------------------------------------------------------------------------
(* Sending.                                                                *)

Handshake(id) == [type |-> "handshake", dest |-> id]
TelemetryReply ==
    [type |-> "telemetry",
     dest |-> IF pMasterRcvr = 0 THEN Broadcast
              ELSE IF pTelemRcvr = 0 THEN 0 ELSE rcvr[pTelemRcvr].id]

\* srxlRun(0, 0) after a packet that leaves the bus in state s.  There is no
\* code to run as master.
Run(s, id) ==
    IF master
    THEN state' = s /\ out' = <<>>
    ELSE /\ state' = IF s = "sendTelemetry" THEN "running" ELSE s
         /\ out' = CASE s = "sendHandshake" -> <<Handshake(id)>>
                     [] s = "sendTelemetry" -> <<TelemetryReply>>
                     [] OTHER -> <<>>

\* A poll is answered unless the last one was just answered.
MayReply == state # "sendHandshake"

----------------------------------------------------------------------------
(* srxlParsePacket, by packet type.                                        *)

BusInit ==
    /\ state = "listenOnStartup" /\ requestID = 0 /\ timeout = 0 /\ master = FALSE
    /\ pMasterRcvr = 0
    /\ rxDev = <<>> /\ rxDevPrioritySum = 0
    /\ rcvr = <<>> /\ rcvrSorted = <<>> /\ rcvrSortInsert = 0
    /\ pTelemRcvr = 0
    /\ values = [c \in Channels |-> 0]
    /\ out = <<>>
    /\ introduced = 0 /\ polled = FALSE /\ ignored = 0 /\ told = values

\* Ongoing communication after a restart: bump to run state.
Bumped == IF state \in BelowRunning THEN "running" ELSE state

\* The values of the packet are packed: one for each channel of its mask.
Unpacked(p) ==
    [c \in Channels |->
        IF c \in p.mask THEN p.values[Cardinality({d \in p.mask : d <= c})] ELSE values[c]]

\* Failsafe values are stored too, since lossCountdown is always 0, and so is
\* the content of forward programming, for which there is no code.
ParseControl(p) ==
    /\ p.type = "control"
    /\ Run(IF p.cmd # "vtx" /\ p.reply = Self THEN "sendTelemetry" ELSE Bumped, requestID)
    /\ values' = IF p.cmd = "vtx" THEN values ELSE Unpacked(p)
    /\ UNCHANGED <<requestID, master, pMasterRcvr, found, pTelemRcvr>>

\* What every handshake does first: its sender is a device, or known as one.
Discover(p) ==
    /\ AddDevice(p)
    /\ IF IsReceiver(p) THEN AddReceiver(p)
       ELSE UNCHANGED <<rcvr, rcvrSorted, rcvrSortInsert, pTelemRcvr>>

Unprompted(p) == p.dest = 0 /\ p.src > Self

\* An unprompted handshake of a higher id: reply at once, be the master.
BecomeMaster(p) ==
    /\ p.type = "handshake" /\ Unprompted(p)
    /\ Discover(p)
    /\ out' = IF master THEN <<>> ELSE <<Handshake(p.src)>>
    /\ state' = "sendHandshake" /\ requestID' = Self /\ master' = TRUE
    /\ pMasterRcvr' = 1
    /\ UNCHANGED values

HandshakeAsMaster(p) ==
    /\ p.type = "handshake" /\ ~Unprompted(p)
    /\ master
    /\ Discover(p)
    /\ state' = "sendHandshake" /\ out' = <<>>
    /\ UNCHANGED <<requestID, master, pMasterRcvr, values>>

\* The entry of the master that sent p, after Discover(p).
MasterEntry(p) == EntryOf(rcvr', p.src)

BroadcastHandshake(p) ==
    /\ p.type = "handshake" /\ p.dest = Broadcast
    /\ ~master
    /\ Discover(p)
    /\ pMasterRcvr' = MasterEntry(p)
    /\ Run("running", requestID)
    /\ UNCHANGED <<requestID, master, values>>

\* A poll: one for somebody else, or unanswered, leaves us listening.
Poll(p) ==
    /\ p.type = "handshake" /\ p.dest # Broadcast /\ ~Unprompted(p)
    /\ ~master
    /\ Discover(p)
    /\ IF p.dest = Self /\ MayReply
       THEN requestID' = p.src /\ Run("sendHandshake", p.src)
       ELSE requestID' = requestID /\ Run("listenForHandshake", requestID)
    /\ UNCHANGED <<master, pMasterRcvr, values>>

\* Telemetry of another device: as master, perhaps a wish to shake hands
\* again; else nobody is to send ours, pRcvr of this device being NULL.
ParseTelemetry(p) ==
    /\ p.type = "telemetry"
    /\ IF master /\ p.dest = Broadcast
       THEN /\ requestID' = IF Len(rxDev) > 1 THEN Self ELSE Broadcast
            /\ state' = "sendHandshake" /\ out' = <<>>
            /\ UNCHANGED pTelemRcvr
       ELSE pTelemRcvr' = 0 /\ requestID' = requestID /\ Run(Bumped, requestID)
    /\ UNCHANGED <<master, pMasterRcvr, found, values>>

\* A bound data report that enables telemetry; other requests change nothing.
ParseBind(p) ==
    /\ p.type = "bind"
    /\ pTelemRcvr' = IF p.request = "boundData" /\ p.telemetry /\ EntryOf(rcvr, p.id) # 0
                     THEN EntryOf(rcvr, p.id) ELSE pTelemRcvr
    /\ Run(Bumped, requestID)
    /\ UNCHANGED <<requestID, master, pMasterRcvr, found, values>>

ParsePacket(p) ==
    /\ timeout' = 0
    /\ \/ ParseControl(p)
       \/ BecomeMaster(p) \/ HandshakeAsMaster(p) \/ BroadcastHandshake(p) \/ Poll(p)
       \/ ParseTelemetry(p)
       \/ ParseBind(p)

PollsUs(p) == p.type = "handshake" /\ p.dest = Self

Receive(p) ==
    /\ ParsePacket(p)
    /\ introduced' = IF p.type = "handshake" /\ p.dest = Broadcast THEN p.src ELSE introduced
    /\ polled' = PollsUs(p)
    /\ ignored' = IF master' \/ ~PollsUs(p) THEN ignored ELSE IF out' = <<>> THEN ignored + 1 ELSE 0
    /\ told' = IF "channels" \in DOMAIN p
               THEN [c \in Channels |->
                        IF c \in DOMAIN p.channels THEN p.channels[c] ELSE told[c]]
               ELSE told

----------------------------------------------------------------------------
(* srxlRun(0, 4), once for each byte outside a frame.  The count stops at  *)
(* Limit: it is only ever compared with it.                                *)

Aged == Least(timeout + 1, Limit)

\* 50 ms after startup, and with no communications while running.
StartupOver == Aged = Limit /\ state = "listenOnStartup"
GivesUp == Aged = Limit /\ ~master /\ state \notin BelowRunning

RunAfterByte ==
    /\ timeout' = IF GivesUp THEN 0 ELSE Aged
    /\ state' = CASE StartupOver -> "listenForHandshake"
                  [] GivesUp -> "listenOnStartup"
                  [] OTHER -> state
    /\ requestID' = IF GivesUp THEN 0 ELSE requestID
    /\ out' = IF ~master /\ state = "sendHandshake" THEN <<Handshake(requestID)>> ELSE <<>>
    /\ UNCHANGED <<master, pMasterRcvr, found, pTelemRcvr, values, busHistory>>

\* The firmware is reset: io_rc_protocol_init finds the bus as BusInit has it.
BusRestart ==
    /\ state' = "listenOnStartup" /\ requestID' = 0 /\ timeout' = 0 /\ master' = FALSE
    /\ pMasterRcvr' = 0
    /\ rxDev' = <<>> /\ rxDevPrioritySum' = 0
    /\ rcvr' = <<>> /\ rcvrSorted' = <<>> /\ rcvrSortInsert' = 0
    /\ pTelemRcvr' = 0
    /\ values' = [c \in Channels |-> 0]
    /\ out' = <<>>
    /\ introduced' = 0 /\ polled' = FALSE /\ ignored' = 0 /\ told' = values'

BusNext == (\E p \in Packets : Receive(p)) \/ RunAfterByte \/ BusRestart

BusSpec == BusInit /\ [][BusNext]_busVars

----------------------------------------------------------------------------
(* Properties.                                                             *)

BusTypeOK ==
    /\ state \in BusStates /\ requestID \in 0 .. 255 /\ timeout \in 0 .. Limit
    /\ master \in BOOLEAN
    /\ pMasterRcvr \in 0 .. MaxRcvrs /\ pTelemRcvr \in 0 .. Len(rcvr)
    /\ Len(rxDev) <= MaxDevices /\ Len(rcvr) <= MaxRcvrs
    /\ rxDevPrioritySum \in 0 .. MaxDevices * MaxPriority
    /\ values \in [Channels -> Nat]
    /\ Len(out) <= 1
    /\ introduced \in 0 .. 255 /\ polled \in BOOLEAN /\ ignored \in Nat /\ told \in [Channels -> Nat]

\* The sum kept by srxlAddDeviceEntry is that of the table, in which a device
\* that shakes hands again, perhaps with another priority, is found once.
PrioritySumAgrees ==
    /\ rxDevPrioritySum = FoldLeft(LAMBDA sum, d : sum + d.priority, 0, rxDev)
    /\ \A i, j \in DOMAIN rxDev : rxDev[i].id = rxDev[j].id => i = j

\* rcvrSorted holds every receiver once, the full-range ones first and in the
\* order they were found, and rcvrSortInsert is where the next one goes.
SortedReceivers ==
    LET full(k) == "fullRange" \in rcvr[rcvrSorted[k]].info
    IN  /\ Len(rcvrSorted) = Len(rcvr)
        /\ \A i \in DOMAIN rcvr : \E k \in DOMAIN rcvrSorted : rcvrSorted[k] = i
        /\ \A k \in DOMAIN rcvrSorted : full(k) <=> k <= rcvrSortInsert
        /\ \A k, l \in DOMAIN rcvrSorted :
            k < l /\ (full(k) <=> full(l)) => rcvrSorted[k] < rcvrSorted[l]

\* The tables of devices and receivers and what is kept of them agree, however
\* often and in whatever order the devices shake hands.
TablesAgree == PrioritySumAgrees /\ SortedReceivers

\* A poll may find us with the handshake of the last one still to be taken up
\* and be ignored (srxlParsePacket, `state != SrxlState_SendHandshake'), but
\* the next one is answered: a slave never goes silent at its master.
AnswersAPollOfTwo == ignored <= 1

\* Who speaks unasked on the one wire disturbs the others.  A packet is sent
\* in answer to one that asks for it, or at a byte outside a frame, and that
\* only while the last packet received was a poll for us.  A device that made
\* us master by an unprompted handshake has silenced us: this firmware has no
\* code to run a bus.
Asks(p) == PollsUs(p) \/ (IF p.type = "handshake" THEN Unprompted(p)
                          ELSE p.type = "control" /\ p.reply = Self)
SpeaksWhenAsked ==
    [][out' # <<>> => ~master /\ (polled \/ \E p \in Packets : Asks(p) /\ Receive(p))]_busVars

\* After its first broadcast handshake the master is known, and a telemetry
\* reply does not ask to shake hands again, unless a table was full before the
\* master was found: of the receivers, or of the devices.
RemembersMaster ==
    introduced # 0 /\ ~master =>
        \/ pMasterRcvr # 0 /\ rcvr[pMasterRcvr].id = introduced
        \/ /\ Len(rcvr) = MaxRcvrs \/ Len(rxDev) = MaxDevices
           /\ EntryOf(rcvr, introduced) = 0

\* The channels the control loop sees are the ones the master sent, each under
\* its own index, however many a packet carries.
ChannelsAsSent == values = told
=============================================================================
