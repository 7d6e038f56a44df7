------------------------------ MODULE Reliable ------------------------------
(***************************************************************************)
(* The reliability layer of openvpn's control channel (reliable.c, driven  *)
(* by tls_process and tls_pre_decrypt in ssl.c): the ciphertext of the TLS *)
(* handshake, over a network that loses, repeats and reorders packets.     *)
(*                                                                         *)
(* Each end keeps what it sent until it is acknowledged, what it received  *)
(* until it is its turn, and the ids it still has to acknowledge.  The     *)
(* n-th packet of an end carries the id n % IdSpace; the numbers never     *)
(* wrap in the model, but the code below compares ids only.                *)
(***************************************************************************)
EXTENDS Integers, Sequences, FiniteSets, SequencesExt

CONSTANTS
    Ends,               \* the two ends, of which one at a time is p
    NSend, NRec,        \* TLS_RELIABLE_N_SEND_BUFFERS, TLS_RELIABLE_N_REC_BUFFERS
    AckSize,            \* RELIABLE_ACK_SIZE
    AckMax,             \* CONTROL_SEND_ACK_MAX
    IdSpace,            \* 2^32: the ids of packets
    Holds,              \* the ends that send nothing before they are spoken to
    MaxPackets,         \* bound: what each end writes
    MaxNet              \* bound: packets in the network at once

\* There are two ends, and what one may have under way together with what the
\* other holds is within half of the ids (4 and 8 packets, 2^32 ids).
ASSUME ReliableAssumption ==
    /\ \E p, q \in Ends : p # q /\ Ends = {p, q}
    /\ Holds \subseteq Ends /\ Holds # Ends
    /\ NSend \in Nat \ {0} /\ NRec \in Nat /\ NSend <= NRec
    /\ IdSpace \in Nat /\ IdSpace % 2 = 0 /\ 2 * NRec <= IdSpace
    /\ NSend <= 2 \/ 2 * (NSend + NRec - 1) <= IdSpace
    /\ AckMax \in Nat \ {0} /\ AckSize \in Nat /\ AckMax <= AckSize
    /\ MaxPackets \in [Ends -> Nat \ {0}] /\ MaxNet \in Nat \ {0}

VARIABLES
    sendBuf,    \* packets sent or to send, until they are acknowledged
    nextOut,    \* packet_id of the send structure
    recBuf,     \* packets received, until the TLS object has read them
    nextIn,     \* packet_id of the receive structure
    ackList,    \* rec_ack
    started,    \* the state is S_START or later
    heard,      \* the peer's reset has come: its session id is known, hold is over
    net,        \* packets in the network
    sent, got   \* history: how many were written, and which was read last

vars == <<sendBuf, nextOut, recBuf, nextIn, ackList, started, heard, net, sent, got>>

Other(p) == CHOOSE q \in Ends : q # p
NoData == -1
Packet(p, data, acks) == [from |-> p, data |-> data, acks |-> acks]

-----------------------------------------------------------------------------
\* Ids, with the wrap-around of unsigned arithmetic.

Half == IdSpace \div 2
Id(n) == n % IdSpace
Wrapped(a) == a % IdSpace

\* test is one of the extent ids that start at base.
InRange1(test, base, extent) == Wrapped(test - base) < extent

\* test is before base + extent, replays included; as in the code, a test from
\* before the wrap is refused while base is just behind it.
InRange2(test, base, extent) ==
    IF Wrapped(base + extent) >= base
    THEN test < base + extent
    ELSE Wrapped(test + Half) < Wrapped(base + Half + extent)

PidMin(p1, p2) == ~InRange1(p1, p2, Half)

-----------------------------------------------------------------------------
\* The structures.

CanGet(p) == Cardinality(recBuf[p]) < NRec

\* Mutant: only what is in the buffer is taken for a replay.
NotBuffered(p, id) == \A n \in recBuf[p] : Id(n) # id

NotReplay(p, id) == ~PidMin(id, nextIn[p]) /\ \A n \in recBuf[p] : Id(n) # id

\* Mutant: any packet that is not a replay is taken.
AnySequence(p, id) == TRUE

WontBreakSequentiality(p, id) == InRange2(id, nextIn[p], NRec)

Acks(p, id) == \E i \in DOMAIN ackList[p] : Id(ackList[p][i]) = id

\* A free buffer for output, and all ids within NSend of the oldest unacknowledged.
OutputSequenced(p) ==
    /\ Cardinality(sendBuf[p]) < NSend
    /\ \A n \in sendBuf[p] :
          (\A m \in sendBuf[p] : m # n => PidMin(Id(n), Id(m)))
              => InRange1(nextOut[p], Id(n), NSend)

\* reliable_can_send, but for the times: hold is over once heard from the peer.
CanSend(p) == sendBuf[p] # {} /\ (p \in Holds => heard[p])

\* Mutant: every packet with an id up to the acknowledged one is dropped.
PurgeUpTo(buf, acks) ==
    {n \in buf : ~ \E i \in DOMAIN acks : ~PidMin(Id(acks[i]), Id(n))}

Purge(buf, acks) == {n \in buf : \A i \in DOMAIN acks : Id(acks[i]) # Id(n)}

\* reliable_ack_write: up to max of the ids to acknowledge leave the list.
Written(p, max) == SubSeq(ackList[p], 1, IF Len(ackList[p]) < max THEN Len(ackList[p]) ELSE max)
Unwritten(p, max) == SubSeq(ackList[p], Len(Written(p, max)) + 1, Len(ackList[p]))

-----------------------------------------------------------------------------

ReliableInit ==
    /\ sendBuf = [p \in Ends |-> {}]
    /\ nextOut = [p \in Ends |-> 0]
    /\ recBuf = [p \in Ends |-> {}]
    /\ nextIn = [p \in Ends |-> 0]
    /\ ackList = [p \in Ends |-> <<>>]
    /\ started = [p \in Ends |-> FALSE]
    /\ heard = [p \in Ends |-> FALSE]
    /\ net = {}
    /\ sent = [p \in Ends |-> 0]
    /\ got = [p \in Ends |-> 0]

\* A packet does not live in the network while its sender goes through half of
\* the ids.
Fresh(pkts, p) ==
    {k \in pkts :
        /\ k.from = p => k.data + Half > sent[p]
        /\ k.from # p => \A i \in DOMAIN k.acks : k.acks[i] + Half > sent[p]}

\* Mutant: the id of the next packet is counted without a width.
NextIdUnwrapped(p) ==
    /\ sent[p] < MaxPackets[p]
    /\ OutputSequenced(p)
    /\ sendBuf' = [sendBuf EXCEPT ![p] = @ \cup {sent[p]}]
    /\ nextOut' = [nextOut EXCEPT ![p] = @ + 1]
    /\ sent' = [sent EXCEPT ![p] = @ + 1]
    /\ UNCHANGED <<recBuf, nextIn, ackList, started, heard, net, got>>

\* S_START comes when the reset has been acknowledged and nothing is to be; from
\* then on nobody asks again.  Bound: only of an end that has more to write.
FullSync(p) == sendBuf[p] = {} /\ ackList[p] = <<>>

Start(p) ==
    /\ sent[p] = 1 /\ sent[p] < MaxPackets[p]
    /\ ~started[p]
    /\ FullSync(p)
    /\ started' = [started EXCEPT ![p] = TRUE]
    /\ UNCHANGED <<sendBuf, nextOut, recBuf, nextIn, ackList, heard, net, sent, got>>

\* To the reliable buffer: the reset of S_INITIAL, then the outgoing ciphertext.
WriteCiphertext(p) ==
    /\ sent[p] < MaxPackets[p]
    /\ sent[p] > 0 => started[p]
    /\ OutputSequenced(p)
    /\ sendBuf' = [sendBuf EXCEPT ![p] = @ \cup {sent[p]}]
    /\ nextOut' = [nextOut EXCEPT ![p] = Wrapped(@ + 1)]
    /\ sent' = [sent EXCEPT ![p] = @ + 1]
    /\ net' = Fresh(net, p)
    /\ UNCHANGED <<recBuf, nextIn, ackList, started, heard, got>>

\* Reliable buffer to outgoing TCP/UDP, with acknowledgements in front: the first
\* of the packets whose next_try has come, which may be any of them.
SendReliable(p, n) ==
    /\ CanSend(p)
    /\ n \in sendBuf[p]
    /\ Cardinality(net) < MaxNet
    /\ net' = net \cup {Packet(p, n, Written(p, AckMax))}
    /\ ackList' = [ackList EXCEPT ![p] = Unwritten(p, AckMax)]
    /\ UNCHANGED <<sendBuf, nextOut, recBuf, nextIn, started, heard, sent, got>>

\* TLS_AGGREGATE_ACK: a packet of acknowledgements when no other is due.
SendAck(p) ==
    /\ ackList[p] # <<>>
    /\ Cardinality(net) < MaxNet
    /\ net' = net \cup {Packet(p, NoData, Written(p, AckSize))}
    /\ ackList' = [ackList EXCEPT ![p] = Unwritten(p, AckSize)]
    /\ UNCHANGED <<sendBuf, nextOut, recBuf, nextIn, started, heard, sent, got>>

\* Mutant: a replay is not acknowledged again.
AcksNewOnly(p, n) ==
    IF NotReplay(p, Id(n)) /\ Len(ackList[p]) < AckSize
    THEN [ackList EXCEPT ![p] = Append(@, n)] ELSE ackList

\* reliable_ack_acknowledge_packet_id, for replays as well.
AckReceived(p, n) ==
    IF ~Acks(p, Id(n)) /\ Len(ackList[p]) < AckSize
    THEN [ackList EXCEPT ![p] = Append(@, n)] ELSE ackList

\* A packet for p arrives; the network may deliver it once more.  The first
\* packet of an end is its reset: without it the others are of no known session.
Receive(p, k) ==
    LET n == k.data
        known == heard[p] \/ n = 0
        kept == IF known THEN Purge(sendBuf[p], k.acks) ELSE sendBuf[p]
        taken == known /\ n # NoData /\ CanGet(p) /\ WontBreakSequentiality(p, Id(n))
    IN  /\ k.from = Other(p)
        /\ net' \in {net, net \ {k}}
        /\ sendBuf' = [sendBuf EXCEPT ![p] = kept]
        /\ heard' = [heard EXCEPT ![p] = known]
        /\ ackList' = IF taken THEN AckReceived(p, n) ELSE ackList
        /\ recBuf' = [recBuf EXCEPT ![p] =
                         IF taken /\ NotReplay(p, Id(n)) THEN @ \cup {n} ELSE @]
        /\ UNCHANGED <<nextOut, nextIn, started, sent, got>>

\* Incoming ciphertext to the TLS object: the packet whose turn it is.
ReadCiphertext(p) ==
    /\ \E n \in recBuf[p] :
          /\ Id(n) = nextIn[p]
          /\ recBuf' = [recBuf EXCEPT ![p] = @ \ {n}]
          /\ nextIn' = [nextIn EXCEPT ![p] = Wrapped(Id(n) + 1)]
          /\ got' = [got EXCEPT ![p] = n + 1]
    /\ UNCHANGED <<sendBuf, nextOut, ackList, started, heard, net, sent>>

Lose(k) ==
    /\ net' = net \ {k}
    /\ UNCHANGED <<sendBuf, nextOut, recBuf, nextIn, ackList, started, heard, sent, got>>

ReliableNext ==
    \/ \E p \in Ends :
          \/ Start(p) \/ WriteCiphertext(p) \/ SendAck(p) \/ ReadCiphertext(p)
          \/ \E n \in sendBuf[p] : SendReliable(p, n)
          \/ \E k \in net : Receive(p, k)
    \/ \E k \in net : Lose(k)

ReliableSpec == ReliableInit /\ [][ReliableNext]_vars

\* Each end writes its reset, the event loop runs, timers come, no packet stays in
\* the network, and the oldest packet that waits for an acknowledgement, sent again
\* and again, gets through again and again; and so does its acknowledgement.
Delivered(p, k) == Receive(p, k) /\ net' = net \ {k}
Leaves(k) == Lose(k) \/ \E p \in Ends : Delivered(p, k)
Oldest(p, n) == n \in sendBuf[p] /\ \A m \in sendBuf[p] : n <= m

ReliableFairness ==
    /\ WF_vars(\E k \in net : Leaves(k))
    /\ \A p \in Ends :
        /\ WF_vars(sent[p] = 0 /\ WriteCiphertext(p))
        /\ SF_vars(SendAck(p))
        /\ WF_vars(ReadCiphertext(p))
        /\ SF_vars(\E n \in sendBuf[p] : Oldest(p, n) /\ SendReliable(p, n))
        /\ SF_vars(\E k \in net : Oldest(p, k.data) /\ Delivered(Other(p), k))
        /\ SF_vars(\E k \in net :
                      (\E n \in ToSet(k.acks) : Oldest(p, n)) /\ Delivered(p, k))

FairReliableSpec == ReliableSpec /\ ReliableFairness

-----------------------------------------------------------------------------
\* Properties.

\* Ids and the three structures have their types, and no structure is fuller
\* than its array (reliable.h:91-101).
ReliableTypeOK ==
    /\ sendBuf \in [Ends -> SUBSET Nat]
    /\ recBuf \in [Ends -> SUBSET Nat]
    /\ \A p \in Ends :
          /\ Cardinality(sendBuf[p]) <= NSend /\ Cardinality(recBuf[p]) <= NRec
          /\ Len(ackList[p]) <= AckSize
    /\ ackList \in [Ends -> Seq(Nat)]
    /\ nextOut \in [Ends -> 0..(IdSpace - 1)] /\ nextIn \in [Ends -> 0..(IdSpace - 1)]
    /\ started \in [Ends -> BOOLEAN] /\ heard \in [Ends -> BOOLEAN]
    /\ \A k \in net : k.from \in Ends /\ k.data \in Nat \cup {NoData} /\ k.acks \in Seq(Nat)
    /\ sent \in [Ends -> Nat] /\ got \in [Ends -> Nat]

\* A packet leaves the send buffer only when the other end has it: no stale,
\* repeated or reordered acknowledgement drops one that was lost
\* (reliable_send_purge, reliable.c:320-352).
PurgedWasReceived ==
    \A p \in Ends : \A n \in 0..(sent[p] - 1) :
        n \notin sendBuf[p] => n < got[Other(p)] \/ n \in recBuf[Other(p)]

\* A receiver that waits for a packet has room for it, and refuses none of those
\* that are still to come for its id (reliable.c:410-428, "won't deadlock the
\* receive buffer").
BufferNeverBlocks ==
    \A p \in Ends : (\A n \in recBuf[p] : Id(n) # nextIn[p]) =>
        /\ CanGet(p)
        /\ \A n \in sendBuf[Other(p)] : n >= got[p] /\ n \notin recBuf[p] =>
              WontBreakSequentiality(p, Id(n)) /\ NotReplay(p, Id(n))

\* An end that writes no more has everything acknowledged in the end: no lost
\* packet and no lost acknowledgement stops it.  Except that a receiver whose
\* window has wrapped around refuses the replay of a packet from before the wrap,
\* and never acknowledges it again (reliable.c:68-89).
EveryPacketAcked ==
    []<>(\A p \in Ends :
            \/ sendBuf[p] = {}
            \/ \E n \in sendBuf[p] : n \div IdSpace < (got[Other(p)] + NRec) \div IdSpace)

\* Each direction is a Fifo, whatever the network does.
InTransit ==
    [p \in Ends |-> [i \in 1..(sent[p] - got[Other(p)]) |-> got[Other(p)] + i]]

Channel == INSTANCE Fifo WITH count <- sent, queue <- InTransit

ChannelIsFifo == Channel!FifoSpec
=============================================================================
