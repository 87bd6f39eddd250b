------------------------ MODULE RingConsensusProofs -------------------------
(***************************************************************************)
(* NoStaleApply and RingsAgree for every number of nodes, of proposing     *)
(* threads and of proposals.                                               *)
(***************************************************************************)
EXTENDS RingConsensus, FiniteSetTheorems, TLAPS

USE SMTT(20), ZenonT(20)

\* A thread sends only to other nodes, and only with peers_mu_ of its own.
Sending ==
    \A t \in RcThreads :
        /\ rcTh[t].todo \subseteq RcPeers(Home[t])
        /\ rcTh[t].pc \in {"send", "ack"} => peers_mu[Home[t]] = t
        /\ rcTh[t].pc = "ack" => rcTh[t].peer \in RcPeers(Home[t])

\* An update in the hands of a peer is the one its sender waits for, if no connection broke.
Waiting ==
    /\ \A m \in rpc : m.to \in RcPeers(Home[m.from])
    /\ ~rcSetup.lost_acks =>
         /\ \A m \in rpc : rcTh[m.from].pc = "ack" /\ m \in Current(m.from)
            /\ m.snap = rcTh[m.from].snap
         /\ \A m, k \in rpc : m.from = k.from => m = k

\* FencingToken of a peer: what it validated last, and what its ring was rebuilt to.
Fenced ==
    /\ \A n \in Nodes : applied[n] <= last_seen[n]
    /\ \A m \in rpc : m.pc = "apply" => m.epoch <= last_seen[m.to]
    /\ ~rcSetup.lost_acks =>
         \A m \in rpc : m.pc = "apply" /\ OneSender(m.to) => last_seen[m.to] = m.epoch

RingInv == RcTypeOK /\ Sending /\ Waiting /\ Fenced

-----------------------------------------------------------------------------
\* The conditions of RingsAgree.
Sole ==
    /\ \A c, d \in Coordinators : c = d
    /\ rcSetup.restarts = 0 /\ ~rcSetup.lost_acks /\ ~rcSetup.local_edits

\* The thread's broadcast has its epoch, and has not returned.
Numbered(t) == rcTh[t].pc \in {"snapshot", "lock", "send", "ack"}
\* It is the one with the highest epoch.
Top(t) == Numbered(t) /\ rcTh[t].epoch = rcEpoch[Home[t]]
\* Every edit of the coordinator's ring has its epoch.
NoneUnnumbered == \A t \in RcThreads : rcTh[t].pc # "advance"

Epochs ==
    /\ \A t \in RcThreads : Numbered(t) =>
         rcTh[t].epoch \in 1..rcEpoch[Home[t]] /\ rcTh[t].epoch # result[Home[t]].epoch
    /\ \A t, u \in RcThreads : Numbered(t) /\ Numbered(u) /\ rcTh[t].epoch = rcTh[u].epoch => t = u
    /\ \A c \in Coordinators :
         /\ result[c].epoch <= rcEpoch[c]
         /\ result[c].epoch = rcEpoch[c] \/ \E t \in RcThreads : Top(t)
         /\ \A p \in Nodes : last_seen[p] <= rcEpoch[c]

\* The snapshot of the highest epoch has every numbered edit.
Whole ==
    \A t \in RcThreads :
        Top(t) /\ rcTh[t].pc # "snapshot" /\ NoneUnnumbered => rcTh[t].snap = rcRing[Home[t]]

\* Peer p has the snapshot of t's broadcast.
Has(t, p) == last_seen[p] = rcTh[t].epoch /\ rcRing[p] = rcTh[t].snap

\* The peers it reached have it.
Delivered ==
    \A t \in RcThreads : Top(t) /\ rcTh[t].pc \in {"send", "ack"} /\ rcTh[t].ok =>
        \A p \in RcPeers(Home[t]) \ rcTh[t].todo :
            \/ Has(t, p)
            \/ rcTh[t].pc = "ack" /\ rcTh[t].peer = p /\ \A m \in rpc : m.from = t => m.pc # "reply"

\* And when it has returned true, they all have it.
Agreed ==
    \A c \in Coordinators : result[c].epoch = rcEpoch[c] /\ result[c].ok =>
        \A p \in RcPeers(c) : last_seen[p] = rcEpoch[c] /\ (NoneUnnumbered => rcRing[p] = rcRing[c])

AgreeInv == Sole => Epochs /\ Whole /\ Delivered /\ Agreed

-----------------------------------------------------------------------------
LEMMA HomeType ==
  ASSUME RcTypeOK
  PROVE  /\ rcSetup.nodes \subseteq Nodes /\ \A t \in RcThreads : Home[t] \in Nodes
            /\ Home[t] \in Coordinators
         /\ rcSetup.proposals \in Nat /\ rcSetup.restarts \in Nat
         /\ \A t \in RcThreads : RcPeers(Home[t]) \subseteq Nodes
BY RingAssumption DEF RcTypeOK, RcSetupType, Home, Coordinators, RcPeers

LEMMA ConfiguredType == Configured \in Rings
BY RingAssumption DEF Configured, NoPins, Rings

LEMMA EditType ==
  ASSUME NEW r \in Rings, NEW m \in Members
  PROVE  RingAdd(r, m) \in Rings /\ RingRemove(r, m) \in Rings
         /\ \A s \in Symbols : RingPin(r, s, m) \in Rings
<1>1. RingAdd(r, m) \in Rings /\ RingRemove(r, m) \in Rings BY DEF RingAdd, RingRemove, Rings
<1>2. ASSUME NEW s \in Symbols PROVE RingPin(r, s, m) \in Rings
  <2>1. [r.pins EXCEPT ![s] = m] \in [Symbols -> Members \cup {NoNode}] BY DEF Rings
  <2>2. RingPin(r, s, m) = [r EXCEPT !.pins = [r.pins EXCEPT ![s] = m]] BY DEF RingPin
  <2> QED BY <2>1, <2>2 DEF Rings
<1> QED BY <1>1, <1>2

ThreadType == [pc : {"idle", "advance", "snapshot", "lock", "send", "ack"}, epoch : Nat,
               snap : Rings, todo : SUBSET Nodes, peer : Nodes \cup {NoNode}, ok : BOOLEAN]
RpcType == [from : RcThreads, to : Nodes, epoch : Nat, snap : Rings, pc : {"validate", "apply",
"reply"}]

LEMMA InitRing == RcInit => RingInv
<1> SUFFICES ASSUME RcInit PROVE RingInv
  OBVIOUS
<1>1. RcIdle \in ThreadType BY ConfiguredType DEF RcIdle, ThreadType
<1>2. rcSetup \in RcSetupType BY RingAssumption DEF RcInit
<1>3. RcTypeOK
  <2>1. rcRing \in [Nodes -> Rings] /\ rcTh \in [RcThreads -> ThreadType]
    BY <1>1, ConfiguredType DEF RcInit
  <2> QED BY <2>1, <1>2 DEF RcInit, RcTypeOK, ThreadType, RcSetupType
<1>4. Sending BY DEF RcInit, Sending, RcIdle
<1>5. Waiting BY DEF RcInit, Waiting
<1>6. Fenced BY DEF RcInit, Fenced
<1> QED BY <1>3, <1>4, <1>5, <1>6 DEF RingInv

LEMMA ProposeRing == ASSUME RingInv, NEW t \in RcThreads, Propose(t) PROVE RingInv'
<1> USE DEF RingInv
<1>1. PICK r \in Rings : rcRing' = [rcRing EXCEPT ![Home[t]] = r]
  <2>1. rcRing[Home[t]] \in Rings BY HomeType DEF RcTypeOK
  <2> QED BY <2>1, EditType DEF Propose, Edit
<1> DEFINE new == [RcIdle EXCEPT !.pc = "advance"]
<1>2. new \in ThreadType /\ new.pc = "advance" /\ new.todo = {} BY ConfiguredType, Zenon DEF RcIdle, ThreadType
<1>3. rcTh' = [rcTh EXCEPT ![t] = new] BY DEF Propose
<1> HIDE DEF new
<1>4. RcTypeOK'
  <2>1. proposals' \in 0..rcSetup.proposals BY HomeType DEF Propose, RcTypeOK
  <2>2. rcRing' \in [Nodes -> Rings] BY <1>1, Zenon DEF RcTypeOK
  <2>3. rcTh' \in [RcThreads -> ThreadType] BY <1>2, <1>3 DEF RcTypeOK, ThreadType
  <2> QED BY <2>1, <2>2, <2>3 DEF RcTypeOK, Propose, ThreadType
<1>5. \A u \in RcThreads : rcTh'[u] = IF u = t THEN new ELSE rcTh[u] BY <1>3 DEF RcTypeOK
<1>6. Sending' BY <1>2, <1>5, ZenonT(30) DEF Sending, Propose, RcPeers, Home
<1>7. Waiting' BY <1>2, <1>5 DEF Waiting, Propose, Current, RcTypeOK, RcPeers, Home
<1>8. Fenced' BY DEF Fenced, Propose, OneSender, Coordinators, Home
<1> QED BY <1>4, <1>6, <1>7, <1>8

LEMMA AdvanceRing == ASSUME RingInv, NEW t \in RcThreads, Advance(t) PROVE RingInv'
<1> USE DEF RingInv
<1> DEFINE new == [rcTh[t] EXCEPT !.pc = "snapshot", !.epoch = rcEpoch[Home[t]] + 1]
<1>1. rcTh[t] \in ThreadType /\ rcTh \in [RcThreads -> ThreadType] BY DEF RcTypeOK, ThreadType
<1>0. rcEpoch[Home[t]] + 1 \in Nat BY HomeType DEF RcTypeOK
<1>2. new \in ThreadType /\ new.pc = "snapshot" /\ new.todo = rcTh[t].todo BY <1>0, <1>1, Zenon DEF ThreadType
<1>3. rcTh' = [rcTh EXCEPT ![t] = new] BY <1>1, Zenon DEF Advance
<1> HIDE DEF new
<1>4. rcTh' \in [RcThreads -> ThreadType]
      /\ \A u \in RcThreads : rcTh'[u] = IF u = t THEN new ELSE rcTh[u]
  BY <1>1, <1>2, <1>3
<1>5. RcTypeOK' BY <1>4, HomeType DEF RcTypeOK, Advance, ThreadType
<1>6. Sending' BY <1>2, <1>4, HomeType DEF Sending, Advance, RcPeers, Home, RcTypeOK
<1>7. Waiting' BY <1>2, <1>4 DEF Waiting, Advance, Current, RcTypeOK, RcPeers, Home, Sending
<1>8. Fenced' BY DEF Fenced, Advance, OneSender, Coordinators, Home
<1> QED BY <1>5, <1>6, <1>7, <1>8

LEMMA TakeSnapshotRing == ASSUME RingInv, NEW t \in RcThreads, TakeSnapshot(t) PROVE RingInv'
<1> USE DEF RingInv
<1> DEFINE new == [rcTh[t] EXCEPT !.pc = "lock", !.snap = rcRing[Home[t]]]
<1>1. rcTh[t] \in ThreadType /\ rcTh \in [RcThreads -> ThreadType] BY DEF RcTypeOK, ThreadType
<1>2. new \in ThreadType /\ new.pc = "lock" /\ new.todo = rcTh[t].todo
  BY <1>1, HomeType, Zenon DEF ThreadType, RcTypeOK
<1>3. rcTh' = [rcTh EXCEPT ![t] = new] BY <1>1, Zenon DEF TakeSnapshot
<1> HIDE DEF new
<1>4. rcTh' \in [RcThreads -> ThreadType]
      /\ \A u \in RcThreads : rcTh'[u] = IF u = t THEN new ELSE rcTh[u]
  BY <1>1, <1>2, <1>3
<1>5. RcTypeOK' BY <1>4, HomeType DEF RcTypeOK, TakeSnapshot, ThreadType
<1>6. Sending' BY <1>2, <1>4, HomeType DEF Sending, TakeSnapshot, RcPeers, Home, RcTypeOK
<1>7. Waiting' BY <1>2, <1>4 DEF Waiting, TakeSnapshot, Current, RcTypeOK, RcPeers, Home, Sending
<1>8. Fenced' BY DEF Fenced, TakeSnapshot, OneSender, Coordinators, Home
<1> QED BY <1>5, <1>6, <1>7, <1>8

LEMMA LockPeersRing == ASSUME RingInv, NEW t \in RcThreads, LockPeers(t) PROVE RingInv'
<1> USE DEF RingInv
<1> DEFINE new == [rcTh[t] EXCEPT !.pc = "send", !.todo = RcPeers(Home[t])]
<1>1. rcTh[t] \in ThreadType /\ rcTh \in [RcThreads -> ThreadType] BY DEF RcTypeOK, ThreadType
<1>2. new \in ThreadType /\ new.pc = "send" /\ new.todo = RcPeers(Home[t])
  BY <1>1, HomeType, Zenon DEF ThreadType, RcTypeOK
<1>3. rcTh' = [rcTh EXCEPT ![t] = new] BY <1>1, Zenon DEF LockPeers
<1> HIDE DEF new
<1>4. rcTh' \in [RcThreads -> ThreadType]
      /\ \A u \in RcThreads : rcTh'[u] = IF u = t THEN new ELSE rcTh[u]
  BY <1>1, <1>2, <1>3
<1>5. RcTypeOK' BY <1>4, HomeType DEF RcTypeOK, LockPeers, ThreadType
<1>6. Sending' BY <1>2, <1>4, HomeType, RingAssumption DEF Sending, LockPeers, RcPeers, Home, RcTypeOK
<1>7. Waiting' BY <1>2, <1>4 DEF Waiting, LockPeers, Current, RcTypeOK, RcPeers, Home, Sending
<1>8. Fenced' BY DEF Fenced, LockPeers, OneSender, Coordinators, Home
<1> QED BY <1>5, <1>6, <1>7, <1>8

LEMMA SendFailsRing ==
  ASSUME RingInv, NEW t \in RcThreads, NEW p \in Nodes, SendFails(t, p)
  PROVE RingInv'
<1> USE DEF RingInv
<1> DEFINE new == [rcTh[t] EXCEPT !.todo = @ \ {p}, !.ok = FALSE]
<1>1. rcTh[t] \in ThreadType /\ rcTh \in [RcThreads -> ThreadType] BY DEF RcTypeOK, ThreadType
<1>2. new \in ThreadType /\ new.pc = "send" /\ new.todo \subseteq rcTh[t].todo
  BY <1>1, HomeType, Zenon DEF ThreadType, RcTypeOK, SendFails
<1>3. rcTh' = [rcTh EXCEPT ![t] = new] BY <1>1, Zenon DEF SendFails
<1> HIDE DEF new
<1>4. rcTh' \in [RcThreads -> ThreadType]
      /\ \A u \in RcThreads : rcTh'[u] = IF u = t THEN new ELSE rcTh[u]
  BY <1>1, <1>2, <1>3
<1>5. RcTypeOK' BY <1>4, HomeType DEF RcTypeOK, SendFails, ThreadType
<1>6. Sending' BY <1>2, <1>4, HomeType DEF Sending, SendFails, RcPeers, Home, RcTypeOK
<1>7. Waiting' BY <1>2, <1>4 DEF Waiting, SendFails, Current, RcTypeOK, RcPeers, Home, Sending
<1>8. Fenced' BY DEF Fenced, SendFails, OneSender, Coordinators, Home
<1> QED BY <1>5, <1>6, <1>7, <1>8

LEMMA AckFailsRing == ASSUME RingInv, NEW t \in RcThreads, AckFails(t) PROVE RingInv'
<1> USE DEF RingInv
<1> DEFINE new == [rcTh[t] EXCEPT !.pc = "send", !.ok = FALSE]
<1>1. rcTh[t] \in ThreadType /\ rcTh \in [RcThreads -> ThreadType] BY DEF RcTypeOK, ThreadType
<1>2. new \in ThreadType /\ new.pc = "send" /\ new.todo = rcTh[t].todo
  BY <1>1, HomeType, Zenon DEF ThreadType, RcTypeOK
<1>3. rcTh' = [rcTh EXCEPT ![t] = new] BY <1>1, Zenon DEF AckFails
<1> HIDE DEF new
<1>4. rcTh' \in [RcThreads -> ThreadType]
      /\ \A u \in RcThreads : rcTh'[u] = IF u = t THEN new ELSE rcTh[u]
  BY <1>1, <1>2, <1>3
<1>5. RcTypeOK' BY <1>4, HomeType DEF RcTypeOK, AckFails, ThreadType
<1>6. Sending' BY <1>2, <1>4, HomeType DEF Sending, AckFails, RcPeers, Home, RcTypeOK
<1>7. Waiting' BY <1>2, <1>4 DEF Waiting, AckFails, Current, RcTypeOK, RcPeers, Home, Sending
<1>8. Fenced' BY DEF Fenced, AckFails, OneSender, Coordinators, Home
<1> QED BY <1>5, <1>6, <1>7, <1>8

LEMMA ReturnRing == ASSUME RingInv, NEW t \in RcThreads, Return(t) PROVE RingInv'
<1> USE DEF RingInv
<1> DEFINE new == RcIdle
<1>1. rcTh[t] \in ThreadType /\ rcTh \in [RcThreads -> ThreadType] BY DEF RcTypeOK, ThreadType
<1>2. new \in ThreadType /\ new.pc = "idle" /\ new.todo = {} BY ConfiguredType DEF ThreadType, RcIdle
<1>3. rcTh' = [rcTh EXCEPT ![t] = new] BY <1>1 DEF Return
<1> HIDE DEF new
<1>4. rcTh' \in [RcThreads -> ThreadType]
      /\ \A u \in RcThreads : rcTh'[u] = IF u = t THEN new ELSE rcTh[u]
  BY <1>1, <1>2, <1>3
<1>5. RcTypeOK' BY <1>4, HomeType DEF RcTypeOK, Return, ThreadType
<1>6. Sending' BY <1>2, <1>4, HomeType DEF Sending, Return, RcPeers, Home, RcTypeOK
<1>7. Waiting' BY <1>2, <1>4 DEF Waiting, Return, Current, RcTypeOK, RcPeers, Home, Sending
<1>8. Fenced' BY DEF Fenced, Return, OneSender, Coordinators, Home
<1> QED BY <1>5, <1>6, <1>7, <1>8

LEMMA SendRing == ASSUME RingInv, NEW t \in RcThreads, NEW p \in Nodes, Send(t, p) PROVE RingInv'
<1> USE DEF RingInv
<1> DEFINE new == [rcTh[t] EXCEPT !.pc = "ack", !.peer = p, !.todo = @ \ {p}]
           msg == [from |-> t, to |-> p, epoch |-> rcTh[t].epoch, snap |-> rcTh[t].snap,
           pc |-> "validate"]
<1>1. rcTh[t] \in ThreadType /\ rcTh \in [RcThreads -> ThreadType] /\ rpc \subseteq RpcType
  BY DEF RcTypeOK, ThreadType, RpcType
<1>2. /\ new \in ThreadType /\ new.pc = "ack" /\ new.peer = p /\ new.todo \subseteq rcTh[t].todo
      /\ new.epoch = rcTh[t].epoch /\ new.snap = rcTh[t].snap
  BY <1>1, Zenon DEF ThreadType
<1>3. /\ msg \in RpcType /\ msg.from = t /\ msg.to = p /\ msg.pc = "validate"
      /\ msg.epoch = rcTh[t].epoch /\ msg.snap = rcTh[t].snap
  BY <1>1 DEF ThreadType, RpcType
<1>4. rcTh' = [rcTh EXCEPT ![t] = new] /\ rpc' = rpc \cup {msg} BY <1>1, Zenon DEF Send
<1> HIDE DEF new, msg
<1>5. rcTh' \in [RcThreads -> ThreadType]
      /\ \A u \in RcThreads : rcTh'[u] = IF u = t THEN new ELSE rcTh[u]
  BY <1>1, <1>2, <1>4
<1>6. RcTypeOK' BY <1>1, <1>3, <1>4, <1>5 DEF RcTypeOK, Send, ThreadType, RpcType
<1>7. p \in RcPeers(Home[t]) BY DEF Send, Sending
<1>8. Sending' BY <1>2, <1>5, <1>7 DEF Sending, Send, RcPeers, Home
<1>9. Waiting'
  <2>1. \A m \in rpc' : m.to \in RcPeers(Home[m.from])'
    BY <1>3, <1>4, <1>7 DEF Waiting, Send, RcPeers, Home
  <2>2. ASSUME ~rcSetup.lost_acks PROVE \A m \in rpc : m.from # t BY <2>2 DEF Waiting, Send
  <2>3. ASSUME ~rcSetup.lost_acks, NEW m \in rpc'
        PROVE  rcTh'[m.from].pc = "ack" /\ m \in Current(m.from)' /\ m.snap = rcTh'[m.from].snap
    <3>1. CASE m = msg BY <3>1, <1>2, <1>3, <1>4, <1>5 DEF Current
    <3>2. CASE m \in rpc
      <4>1. m.from # t /\ m.from \in RcThreads BY <2>2, <2>3, <3>2, <1>1 DEF RpcType
      <4> QED BY <4>1, <2>3, <3>2, <1>4, <1>5 DEF Waiting, Current
    <3> QED BY <3>1, <3>2, <2>3, <1>4
  <2>4. ASSUME ~rcSetup.lost_acks PROVE \A m, k \in rpc' : m.from = k.from => m = k
    BY <2>2, <2>4, <1>3, <1>4 DEF Waiting
  <2>5. rcSetup' = rcSetup BY DEF Send
  <2> QED BY <2>1, <2>3, <2>4, <2>5 DEF Waiting
<1>10. Fenced' BY <1>3, <1>4 DEF Fenced, Send, OneSender, Coordinators, Home
<1> QED BY <1>6, <1>8, <1>9, <1>10

LEMMA AckRing == ASSUME RingInv, NEW t \in RcThreads, Ack(t) PROVE RingInv'
<1> USE DEF RingInv
<1> DEFINE new == [rcTh[t] EXCEPT !.pc = "send"]
<1>1. rcTh[t] \in ThreadType /\ rcTh \in [RcThreads -> ThreadType] /\ rpc \subseteq RpcType
  BY DEF RcTypeOK, ThreadType, RpcType
<1>2. new \in ThreadType /\ new.pc = "send" /\ new.todo = rcTh[t].todo BY <1>1 DEF ThreadType
<1>3. rcTh' = [rcTh EXCEPT ![t] = new] BY <1>1 DEF Ack
<1> HIDE DEF new
<1>4. PICK m \in rpc : m \in Current(t) /\ rpc' = rpc \ {m} BY DEF Ack, Current
<1>5. rcTh' \in [RcThreads -> ThreadType]
      /\ \A u \in RcThreads : rcTh'[u] = IF u = t THEN new ELSE rcTh[u]
  BY <1>1, <1>2, <1>3
<1>6. RcTypeOK' BY <1>1, <1>4, <1>5 DEF RcTypeOK, Ack, ThreadType, RpcType
<1>7. Sending' BY <1>2, <1>5 DEF Sending, Ack, RcPeers, Home
<1>8. Waiting'
  <2>1. m.from = t BY <1>4 DEF Current
  <2>2. ASSUME ~rcSetup.lost_acks, NEW k \in rpc' PROVE k.from # t /\ k \in rpc /\ k.from \in RcThreads
    BY <2>1, <2>2, <1>1, <1>4 DEF Waiting, RpcType
  <2> QED BY <2>2, <1>4, <1>5 DEF Waiting, Ack, Current, RcPeers, Home
<1>9. Fenced' BY <1>4 DEF Fenced, Ack, OneSender, Coordinators, Home
<1> QED BY <1>6, <1>7, <1>8, <1>9

(* A worker thread moves one update one step on.                           *)
LEMMA StepRing ==
  ASSUME RingInv, NEW m \in rpc, NEW pc \in {"apply", "reply"}, Step(m, pc), UNCHANGED <<rcSetup, rcTh,
         peers_mu>>
  PROVE  /\ rpc' \subseteq RpcType /\ Sending' /\ Waiting'
         /\ \A k \in rpc' : k \in rpc \ {m} \/ (k = [m EXCEPT !.pc = pc] /\ k.pc = pc
            /\ k.epoch = m.epoch /\ k.to = m.to /\ k.from = m.from)
<1> USE DEF RingInv
<1> DEFINE new == [m EXCEPT !.pc = pc]
<1>1. rpc \subseteq RpcType /\ m \in RpcType BY DEF RcTypeOK, RpcType
<1>2. new \in RpcType /\ new.pc = pc /\ new.epoch = m.epoch /\ new.to = m.to /\ new.from = m.from
      /\ new.snap = m.snap
  BY <1>1 DEF RpcType
<1>3. rpc' = (rpc \ {m}) \cup {new} BY DEF Step
<1> HIDE DEF new
<1>4. Sending' BY DEF Sending, RcPeers, Home
<1>5. Waiting'
  <2>1. \A k \in rpc' : k.to \in RcPeers(Home[k.from])' BY <1>2, <1>3 DEF Waiting, RcPeers, Home
  <2>2. ASSUME ~rcSetup.lost_acks, NEW k \in rpc'
        PROVE  rcTh'[k.from].pc = "ack" /\ k \in Current(k.from)' /\ k.snap = rcTh'[k.from].snap
    <3>1. PICK j \in rpc : j.from = k.from /\ j.to = k.to /\ j.epoch = k.epoch /\ j.snap = k.snap
      BY <1>2, <1>3
    <3>2. rcTh[j.from].pc = "ack" /\ j \in Current(j.from) /\ j.snap = rcTh[j.from].snap
      BY <2>2 DEF Waiting
    <3> QED BY <3>1, <3>2 DEF Current
  <2>3. ASSUME ~rcSetup.lost_acks PROVE \A j, k \in rpc' : j.from = k.from => j = k
    BY <2>3, <1>2, <1>3 DEF Waiting
  <2> QED BY <2>1, <2>2, <2>3 DEF Waiting
<1>6. \A k \in rpc' : k \in rpc \ {m} \/ (k = new /\ k.pc = pc /\ k.epoch = m.epoch /\ k.to = m.to
      /\ k.from = m.from)
  BY <1>2, <1>3
<1> QED BY <1>1, <1>2, <1>3, <1>4, <1>5, <1>6 DEF new

(* Without broken connections at most one update is with a node to which   *)
(* only one other node sends.                                              *)
LEMMA OneUpdate ==
  ASSUME RingInv, ~rcSetup.lost_acks, NEW m \in rpc, NEW k \in rpc, m.to = k.to, OneSender(m.to)
  PROVE  m = k
<1>1. m \in RpcType /\ k \in RpcType BY DEF RingInv, RcTypeOK, RpcType
<1>2. Home[m.from] = Home[k.from] BY <1>1, HomeType DEF RingInv, Waiting, RcPeers, OneSender, RpcType
<1>3. peers_mu[Home[m.from]] = m.from /\ peers_mu[Home[k.from]] = k.from
  BY <1>1 DEF RingInv, Waiting, Sending, RpcType
<1> QED BY <1>2, <1>3 DEF RingInv, Waiting

LEMMA ValidateRing == ASSUME RingInv, NEW m \in rpc, Validate(m) PROVE RingInv'
<1>1. PICK pc \in {"apply", "reply"} : Step(m, pc) /\ (pc = "apply" => m.epoch >= last_seen[m.to]
      /\ last_seen' = [last_seen EXCEPT ![m.to] = m.epoch])
                                        /\ (pc = "reply" => UNCHANGED last_seen)
  BY DEF Validate
<1>2. rpc' \subseteq RpcType /\ Sending' /\ Waiting' BY <1>1, StepRing DEF Validate
<1>3. \A k \in rpc' : k \in rpc \ {m} \/ (k.pc = pc /\ k.epoch = m.epoch /\ k.to = m.to
      /\ k.from = m.from)
  BY <1>1, StepRing DEF Validate
<1>4. rpc \subseteq RpcType /\ last_seen \in [Nodes -> Nat] /\ applied \in [Nodes -> Nat]
  BY DEF RingInv, RcTypeOK, RpcType
<1>5. last_seen' \in [Nodes -> Nat] /\ \A n \in Nodes : last_seen[n] <= last_seen'[n]
  BY <1>1, <1>4 DEF RpcType
<1>6. RcTypeOK' BY <1>2, <1>5 DEF RingInv, RcTypeOK, Validate, RpcType
<1>7. Fenced'
  <2>1. \A n \in Nodes : applied'[n] <= last_seen'[n] BY <1>4, <1>5 DEF RingInv, Fenced, Validate
  <2>2. ASSUME NEW k \in rpc', k.pc = "apply" PROVE k.epoch <= last_seen'[k.to]
    BY <2>2, <1>1, <1>3, <1>4, <1>5 DEF RingInv, Fenced, RpcType
  <2>3. ASSUME ~rcSetup.lost_acks, NEW k \in rpc', k.pc = "apply",
               OneSender(k.to) PROVE last_seen'[k.to] = k.epoch
    <3>1. CASE k \in rpc \ {m}
      <4>1. k.to # m.to BY <2>3, <3>1, OneUpdate
      <4> QED BY <4>1, <2>3, <3>1, <1>1, <1>4 DEF RingInv, Fenced, RpcType
    <3>2. CASE k \notin rpc \ {m} BY <2>3, <3>2, <1>1, <1>3, <1>4 DEF RpcType
    <3> QED BY <3>1, <3>2
  <2> QED BY <2>1, <2>2, <2>3 DEF Fenced, Validate, OneSender, Coordinators, Home
<1> QED BY <1>2, <1>6, <1>7 DEF RingInv

LEMMA ApplyRing == ASSUME RingInv, NEW m \in rpc, Apply(m) PROVE RingInv'
<1>1. rpc' \subseteq RpcType /\ Sending' /\ Waiting' BY StepRing DEF Apply
<1>2. \A k \in rpc' : k \in rpc \ {m} \/ k.pc = "reply" BY StepRing DEF Apply
<1>3. m \in RpcType BY DEF RingInv, RcTypeOK, RpcType
<1>4. RcTypeOK' BY <1>1, <1>3 DEF RingInv, RcTypeOK, Apply, Edit, RpcType
<1>5. Fenced'
  <2>1. UNCHANGED <<rcSetup, last_seen>> /\ applied' = [applied EXCEPT ![m.to] = m.epoch] BY DEF Apply
  <2>2. m.to \in Nodes /\ m.epoch <= last_seen[m.to] BY <1>3 DEF RpcType, RingInv, Fenced, Apply
  <2>3. \A n \in Nodes : applied'[n] <= last_seen'[n] BY <2>1, <2>2 DEF RingInv, RcTypeOK, Fenced
  <2>4. \A k \in rpc' : k.pc = "apply" => k \in rpc BY <1>2
  <2> QED BY <2>1, <2>3, <2>4 DEF RingInv, Fenced, OneSender, Coordinators, Home
<1> QED BY <1>1, <1>4, <1>5 DEF RingInv

LEMMA ForgetRing == ASSUME RingInv, NEW m \in rpc, Forget(m) PROVE RingInv'
<1> USE DEF RingInv, Forget
<1>1. RcTypeOK' BY DEF RcTypeOK
<1>2. Sending' BY DEF Sending, RcPeers, Home
<1>3. Waiting' BY DEF Waiting, Current, RcPeers, Home
<1>4. Fenced' BY DEF Fenced, OneSender, Coordinators, Home
<1> QED BY <1>1, <1>2, <1>3, <1>4

LEMMA LocalEditRing == ASSUME RingInv, NEW n \in Nodes, LocalEdit(n) PROVE RingInv'
<1> USE DEF RingInv
<1>1. PICK r \in Rings : rcRing' = [rcRing EXCEPT ![n] = r]
  <2>1. rcRing[n] \in Rings BY DEF RcTypeOK
  <2> QED BY <2>1, EditType DEF LocalEdit, Edit
<1>2. RcTypeOK'
  <2>1. proposals' \in 0..rcSetup.proposals BY HomeType DEF LocalEdit, RcTypeOK
  <2>2. rcRing' \in [Nodes -> Rings] BY <1>1 DEF RcTypeOK
  <2> QED BY <2>1, <2>2 DEF RcTypeOK, LocalEdit
<1>3. Sending' BY DEF Sending, LocalEdit, RcPeers, Home
<1>4. Waiting' BY DEF Waiting, LocalEdit, Current, RcPeers, Home
<1>5. Fenced' BY DEF Fenced, LocalEdit, OneSender, Coordinators, Home
<1> QED BY <1>2, <1>3, <1>4, <1>5

LEMMA RcRestartRing == ASSUME RingInv, NEW n \in Nodes, RcRestart(n) PROVE RingInv'
<1> USE DEF RingInv
<1>1. rcTh \in [RcThreads -> ThreadType] /\ rpc \subseteq RpcType BY DEF RcTypeOK, ThreadType, RpcType
<1>2. RcIdle \in ThreadType /\ RcIdle.pc = "idle" /\ RcIdle.todo = {}
  BY ConfiguredType DEF RcIdle, ThreadType
<1>3. rcTh' \in [RcThreads -> ThreadType]
      /\ \A u \in RcThreads : rcTh'[u] = IF Home[u] = n THEN RcIdle ELSE rcTh[u]
  BY <1>1, <1>2 DEF RcRestart
<1>4. rpc' \subseteq rpc /\ \A m \in rpc' : m.to # n /\ Home[m.from] # n BY DEF RcRestart
<1>5. RcTypeOK'
  <2>1. rcRing' \in [Nodes -> Rings] BY ConfiguredType DEF RcRestart, Edit, RcTypeOK
  <2>2. /\ rcEpoch' \in [Nodes -> Nat] /\ last_seen' \in [Nodes -> Nat] /\ applied' \in [Nodes -> Nat]
        /\ peers_mu' \in [Nodes -> RcThreads \cup {NoNode}]
           /\ result' \in [Nodes -> [epoch : Nat, ok : BOOLEAN]]
    BY DEF RcRestart, RcTypeOK
  <2>3. restarts' \in 0..rcSetup.restarts BY HomeType DEF RcRestart, RcTypeOK
  <2> QED BY <2>1, <2>2, <2>3, <1>1, <1>3, <1>4 DEF RcRestart, RcTypeOK, ThreadType, RpcType
<1>6. Sending' BY <1>2, <1>3, HomeType DEF Sending, RcRestart, RcPeers, Home, RcTypeOK
<1>7. Waiting' BY <1>1, <1>3, <1>4 DEF Waiting, RcRestart, Current, RcPeers, Home, RpcType
<1>8. Fenced'
  <2>1. rcSetup' = rcSetup /\ \A m \in Nodes : last_seen'[m] = (IF m = n THEN 0 ELSE last_seen[m])
                           /\ applied'[m] = (IF m = n THEN 0 ELSE applied[m])
    BY DEF RcRestart, RcTypeOK
  <2>2. \A m \in rpc' : m \in rpc /\ m.to \in Nodes /\ m.to # n BY <1>1, <1>4 DEF RpcType
  <2> QED BY <2>1, <2>2 DEF Fenced, OneSender, Coordinators, Home
<1> QED BY <1>5, <1>6, <1>7, <1>8

LEMMA NextRing == RingInv /\ [RcNext]_rcVars => RingInv'
<1> SUFFICES ASSUME RingInv, [RcNext]_rcVars PROVE RingInv'
  OBVIOUS
<1>1. ASSUME NEW t \in RcThreads, Propose(t) \/ RcThreadNext(t) PROVE RingInv'
  BY <1>1, ProposeRing, AdvanceRing, TakeSnapshotRing, LockPeersRing, SendRing, SendFailsRing, AckRing,
     AckFailsRing, ReturnRing
  DEF RcThreadNext
<1>2. CASE WorkerNext BY <1>2, ValidateRing, ApplyRing, ForgetRing DEF WorkerNext
<1>3. ASSUME NEW n \in Nodes, LocalEdit(n) \/ RcRestart(n) PROVE RingInv'
  BY <1>3, LocalEditRing, RcRestartRing
<1>4. CASE UNCHANGED rcVars
  <2> USE <1>4 DEF rcVars
  <2>1. RcTypeOK' = RcTypeOK BY DEF RcTypeOK
  <2>2. Sending' = Sending BY DEF Sending, RcPeers, Home
  <2>3. Waiting' = Waiting BY DEF Waiting, Current, RcPeers, Home
  <2>4. Fenced' = Fenced BY DEF Fenced, OneSender, Coordinators, Home
  <2> QED BY <2>1, <2>2, <2>3, <2>4 DEF RingInv
<1> QED BY <1>1, <1>2, <1>3, <1>4 DEF RcNext

NotStale ==
    ~rcSetup.lost_acks => \A n \in Nodes : OneSender(n) => applied'[n] >= applied[n]
    \/ restarts' # restarts

LEMMA StepNotStale == RingInv /\ [RcNext]_rcVars => [NotStale]_rcVars
<1> SUFFICES ASSUME RingInv, RcNext, ~rcSetup.lost_acks, NEW n \in Nodes, OneSender(n),
    restarts' = restarts
             PROVE  applied'[n] >= applied[n]
  BY DEF NotStale
<1>1. applied \in [Nodes -> Nat] /\ last_seen \in [Nodes -> Nat] /\ restarts \in Nat
  BY HomeType DEF RingInv, RcTypeOK
<1>2. CASE UNCHANGED applied BY <1>1, <1>2
<1>3. ASSUME NEW m \in rpc, Apply(m) PROVE applied'[n] >= applied[n]
  <2>1. m \in RpcType BY DEF RingInv, RcTypeOK, RpcType
  <2>2. CASE m.to = n
    <3>1. last_seen[n] = m.epoch BY <2>2, <1>3 DEF RingInv, Fenced, Apply
    <3> QED BY <3>1, <2>2, <1>1, <1>3 DEF RingInv, Fenced, Apply
  <2>3. CASE m.to # n BY <2>3, <1>1, <1>3 DEF Apply
  <2> QED BY <2>2, <2>3
<1>4. ASSUME NEW k \in Nodes, RcRestart(k) PROVE FALSE BY <1>1, <1>4 DEF RcRestart
<1> QED BY <1>2, <1>3, <1>4, Zenon
  DEF RcNext, RcThreadNext, WorkerNext, Propose, Advance, TakeSnapshot, LockPeers, Send, SendFails,
  Ack, AckFails, Return,
      Validate, Forget, LocalEdit

(* The fencing of ring updates works for every cluster: where only one     *)
(* other node sends them and no connection breaks, no interleaving of the  *)
(* proposing threads, the worker threads and restarts rebuilds a ring to   *)
(* an earlier snapshot (broadcast_ring, apply_update, FencingToken).       *)
THEOREM UpdatesAreFenced == RcSpec => NoStaleApply
<1>1. RcInit => RingInv BY InitRing
<1>2. RingInv /\ [RcNext]_rcVars => RingInv' BY NextRing
<1>3. RingInv /\ [RcNext]_rcVars => [NotStale]_rcVars BY StepNotStale
<1>4. RcSpec => [][NotStale]_rcVars BY <1>1, <1>2, <1>3, PTL DEF RcSpec
<1> QED BY <1>4 DEF NoStaleApply, NotStale

-----------------------------------------------------------------------------
(* Agreement                                                               *)

AgreeAll == Epochs /\ Whole /\ Delivered /\ Agreed

LEMMA SoleFacts ==
  ASSUME RingInv, Sole
  PROVE  /\ \A t, u \in RcThreads : Home[t] = Home[u]
         /\ \A n \in Nodes : OneSender(n)
         /\ \A t, u \in RcThreads : rcTh[t].pc \in {"send", "ack"}
            /\ rcTh[u].pc \in {"send", "ack"} => t = u
         /\ \A m \in rpc : m \in RpcType /\ rcTh[m.from].pc = "ack" /\ rcTh[m.from].peer = m.to
            /\ m.to # Home[m.from]
                           /\ rcTh[m.from].epoch = m.epoch /\ rcTh[m.from].snap = m.snap
                              /\ m.to \in RcPeers(Home[m.from])
         /\ \A m, k \in rpc : m = k
         /\ \A t \in RcThreads : Home[t] \in Nodes /\ rcTh[t] \in ThreadType
         /\ \A c \in Coordinators : c \in Nodes /\ \A t \in RcThreads : c = Home[t]
<1>1. rpc \subseteq RpcType /\ \A t \in RcThreads : rcTh[t] \in ThreadType
  BY DEF RingInv, RcTypeOK, RpcType, ThreadType
<1>2. \A t, u \in RcThreads : Home[t] = Home[u] BY DEF Sole, Coordinators
<1>3. \A n \in Nodes : OneSender(n) BY DEF Sole, OneSender
<1>4. \A t, u \in RcThreads : rcTh[t].pc \in {"send", "ack"} /\ rcTh[u].pc \in {"send", "ack"} => t = u
  BY <1>2 DEF RingInv, Sending
<1>5. \A m \in rpc : rcTh[m.from].pc = "ack" /\ rcTh[m.from].peer = m.to /\ m.to # Home[m.from]
                     /\ rcTh[m.from].epoch = m.epoch /\ rcTh[m.from].snap = m.snap
                        /\ m.to \in RcPeers(Home[m.from])
  BY DEF RingInv, Waiting, Sole, Current, RcPeers
<1>6. \A m, k \in rpc : m = k
  <2>1. \A m, k \in rpc : m.from = k.from BY <1>1, <1>4, <1>5 DEF RpcType
  <2> QED BY <2>1 DEF RingInv, Waiting, Sole
<1>7. \A t \in RcThreads : Home[t] \in Nodes BY HomeType DEF RingInv
<1>8. \A c \in Coordinators : c \in Nodes /\ \A t \in RcThreads : c = Home[t]
  BY <1>7 DEF Sole, Coordinators
<1> QED BY <1>1, <1>2, <1>3, <1>4, <1>5, <1>6, <1>7, <1>8

LEMMA InitAgree == RcInit => AgreeAll
<1> SUFFICES ASSUME RcInit PROVE AgreeAll
  OBVIOUS
<1>1. \A t \in RcThreads : rcTh[t].pc = "idle" BY DEF RcInit, RcIdle
<1>2. \A t \in RcThreads : ~Numbered(t) BY <1>1 DEF Numbered
<1>3. \A c \in Coordinators : c \in Nodes BY InitRing, HomeType DEF RingInv, Coordinators
<1>4. Epochs BY <1>2, <1>3 DEF Epochs, RcInit
<1>5. Whole /\ Delivered BY <1>2 DEF Whole, Delivered, Top
<1>6. Agreed BY <1>3, HomeType, InitRing DEF Agreed, RcInit, RingInv, RcPeers, Coordinators
<1> QED BY <1>4, <1>5, <1>6 DEF AgreeAll

\* The thread t goes on with its broadcast.
GoesOn(t, new) ==
    /\ rcTh' = [rcTh EXCEPT ![t] = new]
    /\ Numbered(t) /\ new.epoch = rcTh[t].epoch /\ new.pc \in {"lock", "send", "ack"}
    /\ UNCHANGED <<rcSetup, rcRing, rcEpoch, last_seen, result>>

LEMMA GoesOnAgree ==
  ASSUME RingInv, AgreeAll, NEW t \in RcThreads, NEW new, GoesOn(t, new)
  PROVE  /\ Epochs' /\ Agreed'
         /\ rcTh'[t] = new /\ \A u \in RcThreads : u # t => rcTh'[u] = rcTh[u]
         /\ \A u \in RcThreads : Top(u)' = Top(u) /\ Home[u]' = Home[u]
            /\ RcPeers(Home[u])' = RcPeers(Home[u])
         /\ NoneUnnumbered' = NoneUnnumbered
<1>1. rcTh \in [RcThreads -> ThreadType] BY DEF RingInv, RcTypeOK, ThreadType
<1>2. rcTh'[t] = new /\ \A u \in RcThreads : u # t => rcTh'[u] = rcTh[u] BY <1>1 DEF GoesOn
<1>3. \A u \in RcThreads : Numbered(u)' = Numbered(u) /\ rcTh'[u].epoch = rcTh[u].epoch
  BY <1>2 DEF GoesOn, Numbered
<1>4. \A u \in RcThreads : Home[u]' = Home[u] /\ RcPeers(Home[u])' = RcPeers(Home[u])
  BY DEF GoesOn, Home, RcPeers
<1>5. \A u \in RcThreads : Top(u)' = Top(u) BY <1>3, <1>4 DEF Top, GoesOn
<1>6. NoneUnnumbered' = NoneUnnumbered BY <1>2 DEF NoneUnnumbered, GoesOn, Numbered
<1>7. Coordinators' = Coordinators BY DEF GoesOn, Coordinators, Home
<1>8. UNCHANGED <<rcRing, rcEpoch, last_seen, result>> BY DEF GoesOn
<1>9. Epochs' BY <1>3, <1>4, <1>5, <1>7, <1>8 DEF AgreeAll, Epochs
<1>10. Agreed' BY <1>6, <1>7, <1>8 DEF AgreeAll, Agreed, RcPeers, GoesOn
<1> QED BY <1>2, <1>4, <1>5, <1>6, <1>9, <1>10

LEMMA AdvanceAgree == ASSUME RingInv, Sole, AgreeAll, NEW t \in RcThreads, Advance(t) PROVE AgreeAll'
<1> DEFINE new == [rcTh[t] EXCEPT !.pc = "snapshot", !.epoch = rcEpoch[Home[t]] + 1]
<1>1. rcTh[t] \in ThreadType /\ rcTh \in [RcThreads -> ThreadType] /\ rcEpoch \in [Nodes -> Nat]
      /\ result \in [Nodes -> [epoch : Nat, ok : BOOLEAN]]
      /\ last_seen \in [Nodes -> Nat]
  BY DEF RingInv, RcTypeOK, ThreadType
<1>2. new.pc = "snapshot" /\ new.epoch = rcEpoch[Home[t]] + 1 BY <1>1 DEF ThreadType
<1>3. rcTh' = [rcTh EXCEPT ![t] = new] BY <1>1, Zenon DEF Advance
<1> HIDE DEF new
<1>4. rcTh'[t] = new /\ \A u \in RcThreads : u # t => rcTh'[u] = rcTh[u] BY <1>1, <1>3
<1>5. /\ \A u \in RcThreads : Home[u] = Home[t] /\ Home[u]' = Home[u] /\ Home[u] \in Nodes
      /\ \A c \in Coordinators : c = Home[t]
      /\ Coordinators' = Coordinators
  BY SoleFacts DEF Advance, Home, Coordinators
<1>6. rcEpoch'[Home[t]] = rcEpoch[Home[t]] + 1 /\ rcEpoch[Home[t]] \in Nat BY <1>1, <1>5 DEF Advance
<1>7. \A u \in RcThreads : u # t => Numbered(u)' = Numbered(u) BY <1>4 DEF Numbered
<1>8. Numbered(t)' /\ ~Numbered(t) BY <1>2, <1>4 DEF Numbered, Advance
<1>9. \A u \in RcThreads : Numbered(u) => rcTh[u].epoch \in 1..rcEpoch[Home[t]]
  BY <1>5 DEF AgreeAll, Epochs
<1>10. \A u \in RcThreads : Top(u)' => u = t BY <1>4, <1>5, <1>6, <1>7, <1>9 DEF Top
<1>11. Top(t)' BY <1>2, <1>4, <1>5, <1>6, <1>8 DEF Top
<1>12. \A c \in Coordinators : result[c].epoch <= rcEpoch[c] /\ result[c].epoch \in Nat
       /\ \A p \in Nodes : last_seen[p] <= rcEpoch[c] /\ last_seen[p] \in Nat
  BY <1>1, <1>5 DEF AgreeAll, Epochs
<1>13. Home[t] \in Coordinators BY DEF Coordinators
<1>14. UNCHANGED <<result, last_seen>> BY DEF Advance
<1>15. Epochs'
  <2>1. ASSUME NEW u \in RcThreads,
               Numbered(u)' PROVE rcTh'[u].epoch \in 1..rcEpoch'[Home[u]']
               /\ rcTh'[u].epoch # result'[Home[u]'].epoch
    <3>1. CASE u = t BY <3>1, <1>2, <1>4, <1>5, <1>6, <1>12, <1>13, <1>14
    <3>2. CASE u # t BY <3>2, <2>1, <1>4, <1>5, <1>6, <1>7, <1>9, <1>14 DEF AgreeAll, Epochs
    <3> QED BY <3>1, <3>2
  <2>2. ASSUME NEW u \in RcThreads, NEW v \in RcThreads, Numbered(u)', Numbered(v)',
               rcTh'[u].epoch = rcTh'[v].epoch PROVE u = v
    <3>1. CASE u # t /\ v # t BY <3>1, <2>2, <1>4, <1>7 DEF AgreeAll, Epochs
    <3>2. CASE (u = t) # (v = t) BY <3>2, <2>2, <1>2, <1>4, <1>6, <1>7, <1>9
    <3> QED BY <3>1, <3>2
  <2>3. \A c \in Coordinators' : result'[c].epoch <= rcEpoch'[c]
        /\ \A p \in Nodes : last_seen'[p] <= rcEpoch'[c]
    BY <1>5, <1>6, <1>12, <1>14
  <2> QED BY <2>1, <2>2, <2>3, <1>11 DEF Epochs
<1>16. Whole' /\ Delivered' BY <1>2, <1>4, <1>10 DEF Whole, Delivered
<1>17. Agreed' BY <1>5, <1>6, <1>12, <1>14 DEF Agreed
<1> QED BY <1>15, <1>16, <1>17 DEF AgreeAll

LEMMA TakeSnapshotAgree ==
  ASSUME RingInv, Sole, AgreeAll, NEW t \in RcThreads, TakeSnapshot(t)
  PROVE AgreeAll'
<1> DEFINE new == [rcTh[t] EXCEPT !.pc = "lock", !.snap = rcRing[Home[t]]]
<1>1. rcTh[t] \in ThreadType /\ rcTh \in [RcThreads -> ThreadType] BY DEF RingInv, RcTypeOK, ThreadType
<1>2. new.pc = "lock" /\ new.snap = rcRing[Home[t]] BY <1>1 DEF ThreadType
<1>3. GoesOn(t, new) BY <1>1, Zenon DEF GoesOn, TakeSnapshot, Numbered, ThreadType
<1> HIDE DEF new
<1>4. UNCHANGED <<rcRing, rpc, last_seen>> BY DEF TakeSnapshot
<1>5. Whole' BY <1>2, <1>3, <1>4, GoesOnAgree, ZenonT(30) DEF AgreeAll, Whole
<1>6. Delivered' BY <1>2, <1>3, <1>4, GoesOnAgree DEF AgreeAll, Delivered, Has
<1> QED BY <1>3, <1>5, <1>6, GoesOnAgree DEF AgreeAll

LEMMA LockPeersAgree ==
  ASSUME RingInv, Sole, AgreeAll, NEW t \in RcThreads, LockPeers(t)
  PROVE AgreeAll'
<1> DEFINE new == [rcTh[t] EXCEPT !.pc = "send", !.todo = RcPeers(Home[t])]
<1>1. rcTh[t] \in ThreadType /\ rcTh \in [RcThreads -> ThreadType] BY DEF RingInv, RcTypeOK, ThreadType
<1>2. new.pc = "send" /\ new.snap = rcTh[t].snap /\ new.todo = RcPeers(Home[t]) BY <1>1 DEF ThreadType
<1>3. GoesOn(t, new) BY <1>1, Zenon DEF GoesOn, LockPeers, Numbered, ThreadType
<1> HIDE DEF new
<1>4. UNCHANGED <<rcRing, rpc, last_seen>> /\ rcTh[t].pc = "lock" BY DEF LockPeers
<1>5. Whole' BY <1>2, <1>3, <1>4, GoesOnAgree, ZenonT(30) DEF AgreeAll, Whole
<1>6. Delivered' BY <1>2, <1>3, <1>4, GoesOnAgree DEF AgreeAll, Delivered, Has
<1> QED BY <1>3, <1>5, <1>6, GoesOnAgree DEF AgreeAll

LEMMA SendFailsAgree ==
  ASSUME RingInv, Sole, AgreeAll, NEW t \in RcThreads, NEW p \in Nodes, SendFails(t, p)
  PROVE AgreeAll'
<1> DEFINE new == [rcTh[t] EXCEPT !.todo = @ \ {p}, !.ok = FALSE]
<1>1. rcTh[t] \in ThreadType /\ rcTh \in [RcThreads -> ThreadType] BY DEF RingInv, RcTypeOK, ThreadType
<1>2. new.pc = rcTh[t].pc /\ new.snap = rcTh[t].snap /\ ~new.ok BY <1>1 DEF ThreadType
<1>3. GoesOn(t, new) BY <1>1, Zenon DEF GoesOn, SendFails, Numbered, ThreadType
<1> HIDE DEF new
<1>4. UNCHANGED <<rcRing, rpc, last_seen>> BY DEF SendFails
<1>5. Whole' BY <1>2, <1>3, <1>4, GoesOnAgree, ZenonT(30) DEF AgreeAll, Whole
<1>6. Delivered' BY <1>2, <1>3, <1>4, GoesOnAgree DEF AgreeAll, Delivered, Has
<1> QED BY <1>3, <1>5, <1>6, GoesOnAgree DEF AgreeAll

LEMMA AckFailsAgree == ASSUME RingInv, Sole, AgreeAll, NEW t \in RcThreads, AckFails(t) PROVE AgreeAll'
<1> DEFINE new == [rcTh[t] EXCEPT !.pc = "send", !.ok = FALSE]
<1>1. rcTh[t] \in ThreadType /\ rcTh \in [RcThreads -> ThreadType] BY DEF RingInv, RcTypeOK, ThreadType
<1>2. new.pc = "send" /\ new.snap = rcTh[t].snap /\ ~new.ok BY <1>1 DEF ThreadType
<1>3. GoesOn(t, new) BY <1>1, Zenon DEF GoesOn, AckFails, Numbered, ThreadType
<1> HIDE DEF new
<1>4. UNCHANGED <<rcRing, rpc, last_seen>> /\ rcTh[t].pc = "ack" BY DEF AckFails
<1>5. Whole' BY <1>2, <1>3, <1>4, GoesOnAgree, ZenonT(30) DEF AgreeAll, Whole
<1>6. Delivered' BY <1>2, <1>3, <1>4, GoesOnAgree DEF AgreeAll, Delivered, Has
<1> QED BY <1>3, <1>5, <1>6, GoesOnAgree DEF AgreeAll

LEMMA SendAgree ==
  ASSUME RingInv, Sole, AgreeAll, NEW t \in RcThreads, NEW p \in Nodes, Send(t, p)
  PROVE AgreeAll'
<1> DEFINE new == [rcTh[t] EXCEPT !.pc = "ack", !.peer = p, !.todo = @ \ {p}]
<1>1. rcTh[t] \in ThreadType /\ rcTh \in [RcThreads -> ThreadType] BY DEF RingInv, RcTypeOK, ThreadType
<1>2. new.pc = "ack" /\ new.snap = rcTh[t].snap /\ new.ok = rcTh[t].ok /\ new.peer = p
      /\ new.todo = rcTh[t].todo \ {p} /\ new.epoch = rcTh[t].epoch
  BY <1>1 DEF ThreadType
<1>3. GoesOn(t, new) BY <1>1 DEF GoesOn, Send, Numbered, ThreadType
<1> HIDE DEF new
<1>4. UNCHANGED <<rcRing, last_seen>> /\ rcTh[t].pc = "send" BY DEF Send
<1>5. rpc = {} /\ \A m \in rpc' : m.from = t /\ m.pc = "validate"
  <2>1. rpc = {} BY <1>4, SoleFacts DEF RpcType
  <2> QED BY <2>1 DEF Send
<1>6. Whole'
  <2>1. SUFFICES ASSUME NEW u \in RcThreads, Top(u)', rcTh'[u].pc # "snapshot",
        NoneUnnumbered' PROVE rcTh'[u].snap = rcRing'[Home[u]']
    BY DEF Whole, Home
  <2>2. Top(u) /\ NoneUnnumbered /\ Home[u]' = Home[u] BY <2>1, <1>3, GoesOnAgree, ZenonT(30)
  <2>3. rcTh[u].pc # "snapshot" /\ rcTh'[u].snap = rcTh[u].snap
    <3>1. rcTh'[t] = new /\ \A v \in RcThreads : v # t => rcTh'[v] = rcTh[v] BY <1>3, GoesOnAgree
    <3>2. CASE u = t BY <3>1, <3>2, <1>2, <1>4
    <3>3. CASE u # t BY <3>1, <3>3, <2>1
    <3> QED BY <3>2, <3>3
  <2> QED BY <2>2, <2>3, <1>4 DEF AgreeAll, Whole
<1>7. Delivered'
  <2>1. SUFFICES ASSUME NEW u \in RcThreads, Top(u)', rcTh'[u].pc \in {"send", "ack"}, rcTh'[u].ok,
                        NEW q \in RcPeers(Home[u])' \ rcTh'[u].todo
                 PROVE  Has(u, q)' \/ (rcTh'[u].pc = "ack" /\ rcTh'[u].peer = q
                        /\ \A m \in rpc' : m.from = u => m.pc # "reply")
    BY DEF Delivered
  <2>2. u = t BY <2>1, <1>3, <1>4, SoleFacts, GoesOnAgree
  <2>3. CASE q = p BY <2>2, <2>3, <1>2, <1>3, <1>5, GoesOnAgree
  <2>4. CASE q # p
    <3>1. Has(t, q) BY <2>1, <2>2, <2>4, <1>2, <1>3, <1>4, GoesOnAgree DEF AgreeAll, Delivered
    <3> QED BY <3>1, <2>2, <1>2, <1>3, <1>4, GoesOnAgree DEF Has
  <2> QED BY <2>3, <2>4
<1> QED BY <1>3, <1>6, <1>7, GoesOnAgree DEF AgreeAll

LEMMA AckAgree == ASSUME RingInv, Sole, AgreeAll, NEW t \in RcThreads, Ack(t) PROVE AgreeAll'
<1> DEFINE new == [rcTh[t] EXCEPT !.pc = "send"]
<1>1. rcTh[t] \in ThreadType /\ rcTh \in [RcThreads -> ThreadType] BY DEF RingInv, RcTypeOK, ThreadType
<1>2. new.pc = "send" /\ new.snap = rcTh[t].snap /\ new.ok = rcTh[t].ok /\ new.todo = rcTh[t].todo
      /\ new.epoch = rcTh[t].epoch
  BY <1>1 DEF ThreadType
<1>3. GoesOn(t, new) BY <1>1 DEF GoesOn, Ack, Numbered, ThreadType
<1> HIDE DEF new
<1>4. UNCHANGED <<rcRing, last_seen>> /\ rcTh[t].pc = "ack" BY DEF Ack
<1>5. PICK m \in rpc : m.from = t /\ m.pc = "reply" BY DEF Ack, Current
<1>6. Whole' BY <1>2, <1>3, <1>4, GoesOnAgree, Zenon DEF AgreeAll, Whole
<1>7. Delivered'
  <2>1. SUFFICES ASSUME NEW u \in RcThreads, Top(u)', rcTh'[u].pc \in {"send", "ack"}, rcTh'[u].ok,
                        NEW q \in RcPeers(Home[u])' \ rcTh'[u].todo
                 PROVE  Has(u, q)'
    BY DEF Delivered
  <2>2. u = t BY <2>1, <1>3, <1>4, SoleFacts, GoesOnAgree
  <2>3. Has(t, q) BY <2>1, <2>2, <1>2, <1>3, <1>4, <1>5, GoesOnAgree DEF AgreeAll, Delivered
  <2> QED BY <2>2, <2>3, <1>2, <1>3, <1>4, GoesOnAgree DEF Has
<1> QED BY <1>3, <1>6, <1>7, GoesOnAgree DEF AgreeAll

LEMMA ProposeAgree == ASSUME RingInv, Sole, AgreeAll, NEW t \in RcThreads, Propose(t) PROVE AgreeAll'
<1> DEFINE new == [RcIdle EXCEPT !.pc = "advance"]
<1>1. rcTh \in [RcThreads -> ThreadType] /\ rcRing \in [Nodes -> Rings]
  BY DEF RingInv, RcTypeOK, ThreadType
<1>2. new.pc = "advance" BY DEF RcIdle
<1>3. rcTh' = [rcTh EXCEPT ![t] = new] /\ UNCHANGED <<rcSetup, rcEpoch, last_seen, rpc, result>>
  BY DEF Propose
<1> HIDE DEF new
<1>4. rcTh'[t] = new /\ \A u \in RcThreads : u # t => rcTh'[u] = rcTh[u] BY <1>1, <1>3
<1>5. ~Numbered(t)' /\ ~Numbered(t) BY <1>2, <1>4 DEF Numbered, Propose
<1>6. \A u \in RcThreads : /\ Numbered(u)' = Numbered(u) /\ (Numbered(u) => rcTh'[u] = rcTh[u])
                           /\ Home[u]' = Home[u] /\ RcPeers(Home[u])' = RcPeers(Home[u])
  BY <1>3, <1>4, <1>5 DEF Numbered, Home, RcPeers
<1>7. \A u \in RcThreads : Top(u)' = Top(u) BY <1>3, <1>6 DEF Top
<1>8. ~NoneUnnumbered' BY <1>2, <1>4 DEF NoneUnnumbered
<1>9. Coordinators' = Coordinators /\ \A c \in Coordinators : RcPeers(c)' = RcPeers(c)
  BY <1>3 DEF Coordinators, Home, RcPeers
<1>10. \A p \in Nodes : p # Home[t] => rcRing'[p] = rcRing[p] BY <1>1 DEF Propose, Edit
<1>11. Epochs' BY <1>3, <1>6, <1>7, <1>9 DEF AgreeAll, Epochs
<1>12. Whole' BY <1>8 DEF Whole
<1>13. Delivered'
  <2>1. \A u \in RcThreads : \A p \in RcPeers(Home[u]) : p \in Nodes /\ p # Home[t]
    BY HomeType, SoleFacts DEF RingInv, RcPeers
  <2> QED BY <2>1, <1>3, <1>6, <1>7, <1>10 DEF AgreeAll, Delivered, Has, Top
<1>14. Agreed' BY <1>3, <1>8, <1>9 DEF AgreeAll, Agreed
<1> QED BY <1>11, <1>12, <1>13, <1>14 DEF AgreeAll

LEMMA ReturnAgree == ASSUME RingInv, Sole, AgreeAll, NEW t \in RcThreads, Return(t) PROVE AgreeAll'
<1> DEFINE n == Home[t]
<1>1. /\ rcTh \in [RcThreads -> ThreadType] /\ rcTh[t] \in ThreadType /\ rcEpoch \in [Nodes -> Nat]
      /\ result \in [Nodes -> [epoch : Nat, ok : BOOLEAN]] /\ n \in Nodes /\ n \in Coordinators
  BY HomeType DEF RingInv, RcTypeOK, ThreadType
<1>2. rcTh' = [rcTh EXCEPT ![t] = RcIdle] /\ RcIdle.pc = "idle"
      /\ UNCHANGED <<rcSetup, rcRing, rcEpoch, last_seen, rpc>>
  BY DEF Return, RcIdle
<1>3. rcTh'[t].pc = "idle" /\ \A u \in RcThreads : u # t => rcTh'[u] = rcTh[u] BY <1>1, <1>2
<1>4. rcTh[t].pc = "send" /\ rcTh[t].todo = {} BY DEF Return
<1>5. /\ ~Numbered(t)' /\ Numbered(t)
      /\ \A u \in RcThreads : u # t => Numbered(u)' = Numbered(u)
      /\ \A u \in RcThreads : Home[u]' = Home[u] /\ RcPeers(Home[u])' = RcPeers(Home[u])
  BY <1>2, <1>3, <1>4 DEF Numbered, Home, RcPeers
<1>6. \A u \in RcThreads : u # t => Top(u)' = Top(u) BY <1>2, <1>3, <1>5 DEF Top
<1>7. ~Top(t)' BY <1>5 DEF Top
<1>8. NoneUnnumbered' = NoneUnnumbered BY <1>3, <1>4 DEF NoneUnnumbered
<1>9. Coordinators' = Coordinators /\ \A c \in Coordinators : RcPeers(c)' = RcPeers(c)
  BY <1>2 DEF Coordinators, Home, RcPeers
<1>10. \A u \in RcThreads : Home[u] = n BY SoleFacts
<1>11. \A c \in Coordinators : c = n BY SoleFacts
<1>12. /\ rcTh[t].epoch \in 1..rcEpoch[n] /\ rcTh[t].epoch # result[n].epoch
       /\ result[n].epoch <= rcEpoch[n] /\ \A p \in Nodes : last_seen[p] <= rcEpoch[n]
       /\ result[n].epoch = rcEpoch[n] \/ \E u \in RcThreads : Top(u)
  BY <1>1, <1>5 DEF AgreeAll, Epochs
<1>13. \A u \in RcThreads : u # t /\ Numbered(u) => /\ rcTh[u].epoch \in 1..rcEpoch[n]
                                                       /\ rcTh[u].epoch # result[n].epoch
                                                    /\ rcTh[u].epoch # rcTh[t].epoch
  BY <1>5, <1>10 DEF AgreeAll, Epochs
<1>14. rcTh[t].epoch \in Nat /\ result[n].epoch \in Nat /\ rcEpoch[n] \in Nat BY <1>1 DEF ThreadType
<1>15. \/ rcTh[t].epoch < result[n].epoch /\ result' = result
       \/ rcTh[t].epoch > result[n].epoch /\ result'[n].epoch = rcTh[t].epoch
          /\ result'[n].ok = rcTh[t].ok
  <2>1. CASE rcTh[t].epoch < result[n].epoch BY <2>1 DEF Return
  <2>2. CASE ~(rcTh[t].epoch < result[n].epoch)
    <3>1. rcTh[t].epoch > result[n].epoch BY <2>2, <1>12, <1>14
    <3>2. result' = [result EXCEPT ![n] = [epoch |-> rcTh[t].epoch, ok |-> rcTh[t].ok]]
      BY <2>2 DEF Return
    <3>3. result'[n] = [epoch |-> rcTh[t].epoch, ok |-> rcTh[t].ok] BY <3>2, <1>1
    <3> QED BY <3>1, <3>3
  <2> QED BY <2>1, <2>2
<1>16. Epochs'
  <2>1. \A u \in RcThreads : Numbered(u)' => rcTh'[u].epoch \in 1..rcEpoch'[Home[u]']
        /\ rcTh'[u].epoch # result'[Home[u]'].epoch
    BY <1>2, <1>3, <1>5, <1>10, <1>13, <1>15
  <2>2. \A u, v \in RcThreads : Numbered(u)' /\ Numbered(v)' /\ rcTh'[u].epoch = rcTh'[v].epoch => u = v
    BY <1>3, <1>5 DEF AgreeAll, Epochs
  <2>3. result'[n].epoch <= rcEpoch[n] BY <1>12, <1>14, <1>15
  <2>4. result'[n].epoch = rcEpoch[n] \/ \E u \in RcThreads : Top(u)'
    <3>1. CASE result[n].epoch = rcEpoch[n] BY <3>1, <1>12, <1>14, <1>15
    <3>2. CASE Top(t) BY <3>2, <1>12, <1>14, <1>15 DEF Top
    <3>3. CASE \E u \in RcThreads : u # t /\ Top(u) BY <3>3, <1>6
    <3> QED BY <3>1, <3>2, <3>3, <1>12
  <2> QED BY <2>1, <2>2, <2>3, <2>4, <1>2, <1>9, <1>11, <1>12 DEF Epochs
<1>17. Whole' BY <1>2, <1>3, <1>5, <1>6, <1>7, <1>8 DEF AgreeAll, Whole
<1>18. Delivered' BY <1>2, <1>3, <1>5, <1>6, <1>7 DEF AgreeAll, Delivered, Has
<1>19. Agreed'
  <2>1. CASE result' = result BY <2>1, <1>2, <1>8, <1>9 DEF AgreeAll, Agreed
  <2>2. CASE result'[n].epoch = rcTh[t].epoch /\ result'[n].ok = rcTh[t].ok
    <3>1. SUFFICES ASSUME result'[n].epoch = rcEpoch[n], result'[n].ok, NEW p \in RcPeers(n)
                   PROVE  last_seen[p] = rcEpoch[n] /\ (NoneUnnumbered => rcRing[p] = rcRing[n])
      BY <1>2, <1>8, <1>9, <1>11 DEF Agreed
    <3>2. Top(t) BY <3>1, <2>2, <1>5 DEF Top
    <3>3. Has(t, p) BY <3>1, <3>2, <2>2, <1>4 DEF AgreeAll, Delivered
    <3>4. NoneUnnumbered => rcTh[t].snap = rcRing[n] BY <3>2, <1>4 DEF AgreeAll, Whole
    <3> QED BY <3>1, <3>3, <3>4, <2>2 DEF Has
  <2> QED BY <2>1, <2>2, <1>15
<1> QED BY <1>16, <1>17, <1>18, <1>19 DEF AgreeAll

\* The step of a worker leaves the threads and the epochs as they were.
AtPeer == UNCHANGED <<rcSetup, rcEpoch, rcTh, result>>

LEMMA AtPeerFacts ==
  ASSUME AtPeer
  PROVE  /\ \A u \in RcThreads : /\ Numbered(u)' = Numbered(u) /\ Top(u)' = Top(u) /\ rcTh'[u] = rcTh[u]
                                 /\ Home[u]' = Home[u] /\ RcPeers(Home[u])' = RcPeers(Home[u])
         /\ Coordinators' = Coordinators /\ \A c \in Coordinators : RcPeers(c)' = RcPeers(c)
         /\ NoneUnnumbered' = NoneUnnumbered /\ rcEpoch' = rcEpoch /\ result' = result
<1>1. \A u \in RcThreads : /\ Numbered(u)' = Numbered(u) /\ rcTh'[u] = rcTh[u] /\ Home[u]' = Home[u]
                              /\ RcPeers(Home[u])' = RcPeers(Home[u])
  BY DEF AtPeer, Numbered, Home, RcPeers
<1>2. \A u \in RcThreads : Top(u)' = Top(u) BY <1>1 DEF Top, AtPeer
<1>3. Coordinators' = Coordinators /\ \A c \in Coordinators : RcPeers(c)' = RcPeers(c)
  BY DEF AtPeer, Coordinators, Home, RcPeers
<1> QED BY <1>1, <1>2, <1>3 DEF AtPeer, NoneUnnumbered

\* The update in the hands of a worker.
LEMMA HeldUpdate ==
  ASSUME RingInv, Sole, AgreeAll, NEW m \in rpc
  PROVE  /\ m.from \in RcThreads /\ m.to \in Nodes /\ m.epoch \in Nat /\ m.to \in RcPeers(Home[m.from])
         /\ Home[m.from] \in Nodes /\ Home[m.from] \in Coordinators /\ m.to # Home[m.from]
         /\ \A c \in Coordinators : c = Home[m.from]
         /\ \A u \in RcThreads : Home[u] = Home[m.from]
         /\ \A u \in RcThreads : rcTh[u].pc \in {"send", "ack"} => u = m.from
         /\ rcTh[m.from].pc = "ack" /\ rcTh[m.from].peer = m.to /\ rcTh[m.from].epoch = m.epoch
            /\ rcTh[m.from].snap = m.snap
         /\ m.epoch <= rcEpoch[Home[m.from]] /\ m.epoch # result[Home[m.from]].epoch
         /\ rcEpoch[Home[m.from]] \in Nat /\ last_seen[m.to] \in Nat
            /\ last_seen[m.to] <= rcEpoch[Home[m.from]]
<1>1. m \in RpcType BY DEF RingInv, RcTypeOK, RpcType
<1>2. m.from \in RcThreads /\ m.to \in Nodes /\ m.epoch \in Nat BY <1>1 DEF RpcType
<1>3. Home[m.from] \in Nodes /\ Home[m.from] \in Coordinators BY <1>2, HomeType DEF RingInv
<1>4. rcEpoch[Home[m.from]] \in Nat /\ last_seen[m.to] \in Nat BY <1>2, <1>3 DEF RingInv, RcTypeOK
<1>5. rcTh[m.from].pc = "ack" /\ rcTh[m.from].peer = m.to /\ rcTh[m.from].epoch = m.epoch
      /\ rcTh[m.from].snap = m.snap
      /\ m.to # Home[m.from] /\ m.to \in RcPeers(Home[m.from])
  BY SoleFacts
<1>6. Numbered(m.from) BY <1>5 DEF Numbered
<1>7. m.epoch <= rcEpoch[Home[m.from]] /\ m.epoch # result[Home[m.from]].epoch
      /\ last_seen[m.to] <= rcEpoch[Home[m.from]]
  BY <1>2, <1>3, <1>4, <1>5, <1>6 DEF AgreeAll, Epochs
<1>8. \A u \in RcThreads : rcTh[u].pc \in {"send", "ack"} => u = m.from BY <1>2, <1>5, SoleFacts
<1>9. (\A c \in Coordinators : c = Home[m.from]) /\ \A u \in RcThreads : Home[u] = Home[m.from]
  BY <1>2, SoleFacts
<1> QED BY <1>2, <1>3, <1>4, <1>5, <1>7, <1>8, <1>9

LEMMA ValidateAgree == ASSUME RingInv, Sole, AgreeAll, NEW m \in rpc, Validate(m) PROVE AgreeAll'
<1>1. AtPeer /\ rcRing' = rcRing /\ last_seen \in [Nodes -> Nat]
  BY DEF Validate, AtPeer, RingInv, RcTypeOK
<1>2. \/ m.epoch >= last_seen[m.to] /\ last_seen' = [last_seen EXCEPT ![m.to] = m.epoch]
         /\ Step(m, "apply")
      \/ m.epoch < last_seen[m.to] /\ last_seen' = last_seen
  BY DEF Validate
<1>3. \A p \in Nodes : p # m.to => last_seen'[p] = last_seen[p] BY <1>1, <1>2
<1>4. last_seen'[m.to] <= rcEpoch[Home[m.from]] BY <1>1, <1>2, HeldUpdate
<1>5. Epochs'
  <2>1. \A c \in Coordinators : \A p \in Nodes : last_seen'[p] <= rcEpoch[c]
    BY <1>3, <1>4, HeldUpdate DEF AgreeAll, Epochs
  <2> QED BY <2>1, <1>1, AtPeerFacts DEF AgreeAll, Epochs
<1>6. Whole' BY <1>1, AtPeerFacts, ZenonT(30) DEF AgreeAll, Whole
<1>7. Delivered'
  <2>1. SUFFICES ASSUME NEW u \in RcThreads, Top(u), rcTh[u].pc \in {"send", "ack"}, rcTh[u].ok,
        NEW p \in RcPeers(Home[u]) \ rcTh[u].todo
                 PROVE  Has(u, p)' \/ (rcTh[u].pc = "ack" /\ rcTh[u].peer = p
                        /\ \A k \in rpc' : k.from = u => k.pc # "reply")
    BY <1>1, AtPeerFacts DEF Delivered
  <2>2. u = m.from BY <2>1, HeldUpdate
  <2>3. CASE p = m.to
    <3>1. last_seen[m.to] <= m.epoch BY <2>1, <2>2, HeldUpdate DEF Top
    <3>2. Step(m, "apply") BY <3>1, <1>2, HeldUpdate
    <3>3. \A k \in rpc' : k = [m EXCEPT !.pc = "apply"] BY <3>2, SoleFacts DEF Step
    <3>4. [m EXCEPT !.pc = "apply"].pc = "apply" BY DEF RingInv, RcTypeOK
    <3> QED BY <3>3, <3>4, <2>2, <2>3, HeldUpdate, ZenonT(30)
  <2>4. CASE p # m.to
    <3>1. Has(u, p) BY <2>1, <2>2, <2>4, HeldUpdate DEF AgreeAll, Delivered
    <3>2. p \in Nodes BY HomeType DEF RingInv
    <3> QED BY <3>1, <3>2, <2>4, <1>1, <1>3, AtPeerFacts DEF Has
  <2> QED BY <2>3, <2>4
<1>8. Agreed'
  <2>1. CASE last_seen' = last_seen BY <2>1, <1>1, AtPeerFacts DEF AgreeAll, Agreed
  <2>2. CASE m.epoch >= last_seen[m.to]
    <3>1. ~(result[Home[m.from]].epoch = rcEpoch[Home[m.from]] /\ result[Home[m.from]].ok)
      BY <2>2, HeldUpdate DEF AgreeAll, Agreed
    <3> QED BY <3>1, <1>1, AtPeerFacts, HeldUpdate DEF Agreed
  <2> QED BY <2>1, <2>2, <1>2
<1> QED BY <1>5, <1>6, <1>7, <1>8 DEF AgreeAll

LEMMA ApplyAgree == ASSUME RingInv, Sole, AgreeAll, NEW m \in rpc, Apply(m) PROVE AgreeAll'
<1>1. AtPeer /\ last_seen' = last_seen /\ rcRing \in [Nodes -> Rings]
  BY DEF Apply, AtPeer, RingInv, RcTypeOK
<1>2. rcRing'[m.to] = m.snap /\ \A p \in Nodes : p # m.to => rcRing'[p] = rcRing[p]
  BY <1>1, HeldUpdate DEF Apply, Edit
<1>3. last_seen[m.to] = m.epoch
  <2>1. m.pc = "apply" /\ OneSender(m.to) /\ ~rcSetup.lost_acks BY HeldUpdate, SoleFacts DEF Apply, Sole
  <2> QED BY <2>1 DEF RingInv, Fenced
<1>4. Epochs' BY <1>1, AtPeerFacts DEF AgreeAll, Epochs
<1>5. \A u \in RcThreads : Home[u] \in Nodes /\ rcRing'[Home[u]] = rcRing[Home[u]] BY <1>2, HeldUpdate
<1>6. Whole' BY <1>1, <1>5, AtPeerFacts, ZenonT(30) DEF AgreeAll, Whole
<1>7. Delivered'
  <2>1. SUFFICES ASSUME NEW u \in RcThreads, Top(u), rcTh[u].pc \in {"send", "ack"}, rcTh[u].ok,
        NEW p \in RcPeers(Home[u]) \ rcTh[u].todo
                 PROVE  Has(u, p)'
    BY <1>1, AtPeerFacts DEF Delivered
  <2>2. u = m.from BY <2>1, HeldUpdate
  <2>3. CASE p = m.to BY <2>2, <2>3, <1>1, <1>2, <1>3, AtPeerFacts, HeldUpdate DEF Has
  <2>4. CASE p # m.to
    <3>1. Has(u, p) BY <2>1, <2>2, <2>4, HeldUpdate DEF AgreeAll, Delivered
    <3>2. p \in Nodes BY HomeType DEF RingInv
    <3> QED BY <3>1, <3>2, <2>4, <1>1, <1>2, AtPeerFacts DEF Has
  <2> QED BY <2>3, <2>4
<1>8. Agreed'
  <2>1. ~(result[Home[m.from]].epoch = rcEpoch[Home[m.from]] /\ result[Home[m.from]].ok)
    BY <1>3, HeldUpdate DEF AgreeAll, Agreed
  <2> QED BY <2>1, <1>1, AtPeerFacts, HeldUpdate DEF Agreed
<1> QED BY <1>4, <1>6, <1>7, <1>8 DEF AgreeAll

LEMMA NextAgree == ASSUME RingInv, Sole, AgreeAll, [RcNext]_rcVars PROVE AgreeAll'
<1>1. ASSUME NEW t \in RcThreads, Propose(t) \/ RcThreadNext(t) PROVE AgreeAll'
  BY <1>1, ProposeAgree, AdvanceAgree, TakeSnapshotAgree, LockPeersAgree, SendAgree, SendFailsAgree,
     AckAgree, AckFailsAgree,
     ReturnAgree DEF RcThreadNext
<1>2. ASSUME NEW m \in rpc, Forget(m) PROVE AgreeAll'
  BY <1>2, HeldUpdate DEF Forget, RingInv, Waiting, Sole
<1>3. CASE WorkerNext BY <1>2, <1>3, ValidateAgree, ApplyAgree DEF WorkerNext
<1>4. ASSUME NEW n \in Nodes, LocalEdit(n) \/ RcRestart(n) PROVE AgreeAll'
  BY <1>4, HomeType DEF LocalEdit, RcRestart, Sole, RingInv, RcTypeOK
<1>5. CASE UNCHANGED rcVars
  <2>1. AtPeer /\ UNCHANGED <<rcRing, last_seen, rpc>> BY <1>5 DEF AtPeer, rcVars
  <2>2. Epochs' BY <2>1, AtPeerFacts, ZenonT(30) DEF AgreeAll, Epochs
  <2>3. Whole' BY <2>1, AtPeerFacts, ZenonT(30) DEF AgreeAll, Whole
  <2>4. Delivered' BY <2>1, AtPeerFacts DEF AgreeAll, Delivered, Has
  <2>5. Agreed' BY <2>1, AtPeerFacts DEF AgreeAll, Agreed
  <2> QED BY <2>2, <2>3, <2>4, <2>5 DEF AgreeAll
<1> QED BY <1>1, <1>3, <1>4, <1>5 DEF RcNext

LEMMA SoleStays == Sole' /\ [RcNext]_rcVars => Sole
BY ZenonT(30) DEF Sole, Coordinators, Home, RcNext, RcThreadNext, WorkerNext, Propose, Advance, TakeSnapshot,
   LockPeers, Send, SendFails, Ack,
       AckFails, Return, Validate, Apply, Forget, LocalEdit, RcRestart, rcVars

LEMMA AgreeImplies == RingInv /\ AgreeInv => RingsAgree
<1> SUFFICES ASSUME RingInv, AgreeInv, Cardinality(Coordinators) = 1, rcSetup.restarts = 0,
                    ~rcSetup.lost_acks, ~rcSetup.local_edits, Quiet,
                    \A c \in Coordinators : result[c].ok
             PROVE  \A m, n \in rcSetup.nodes : rcRing[m] = rcRing[n]
  BY DEF RingsAgree
<1>1. IsFiniteSet(Coordinators)
  <2>1. Home \in [RcThreads -> Coordinators]
    BY RingAssumption DEF Coordinators, Home, RingInv, RcTypeOK, RcSetupType
  <2>2. \A c \in Coordinators : \E t \in RcThreads : Home[t] = c BY DEF Coordinators
  <2>3. Home \in Surjection(RcThreads, Coordinators) BY <2>1, <2>2 DEF Surjection
  <2> QED BY <2>3, RingAssumption, FS_Surjection
<1>2. PICK c : Coordinators = {c} BY <1>1, FS_Singleton, Zenon
<1>3. Sole BY <1>2 DEF Sole
<1>4. \A t \in RcThreads : ~Top(t) BY DEF Quiet, Top, Numbered
<1>5. NoneUnnumbered BY DEF Quiet, NoneUnnumbered
<1>6. result[c].epoch = rcEpoch[c] BY <1>2, <1>3, <1>4 DEF AgreeInv, Epochs
<1>7. \A p \in RcPeers(c) : rcRing[p] = rcRing[c] BY <1>2, <1>3, <1>5, <1>6 DEF AgreeInv, Agreed
<1> QED BY <1>7 DEF RcPeers

(* The copies of the ring agree, for every cluster with one coordinator:   *)
(* whatever the order in which its threads edit, number, snapshot and send,*)
(* once they are done and the broadcast with the highest epoch returned    *)
(* true, every node has the coordinator's ring and pins (propose_add,      *)
(* propose_remove, propose_pin, broadcast_ring, apply_update).             *)
THEOREM RingsComeToAgree == RcSpec => []RingsAgree
<1>1. RcInit => RingInv /\ AgreeInv BY InitRing, InitAgree DEF AgreeInv, AgreeAll
<1>2. RingInv /\ AgreeInv /\ [RcNext]_rcVars => RingInv' /\ AgreeInv'
  BY NextRing, NextAgree, SoleStays DEF AgreeInv, AgreeAll
<1>3. RingInv /\ AgreeInv => RingsAgree BY AgreeImplies
<1> QED BY <1>1, <1>2, <1>3, PTL DEF RcSpec
=============================================================================
