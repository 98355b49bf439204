----------------------------- MODULE Fund_proofs -----------------------------
(***************************************************************************)
(* Proofs about Fund, for every capacity, payment, fee, number of calls    *)
(* and of lost connections, and whoever asks for single or dual funding.   *)
(*                                                                         *)
(* The builder of a funding transaction saves its channel once, under a    *)
(* serial number it has never used, and only signatures and the failed     *)
(* mark change in that record.  All the other node holds about the channel *)
(* and all the messages about it carry are tied to that one record.        *)
(***************************************************************************)
EXTENDS Fund, FiniteSetTheorems, TLAPS

Key == [node : Node, idx : Nat]
AnyKey == Key \cup {NoKey}

Outpoint == [by : Node, serial : Nat, script : SUBSET AnyKey]

Sig == [by : Key, op : Outpoint, script : SUBSET Key, pays : SUBSET (Key \X Int)]

Record == [op : Outpoint, idx : Nat, mine : Key, theirs : Key,
           value : Int, amt : Int, sig : Sig \cup {NoSig}, failed : BOOLEAN]

Database == UNION {[D -> Record] : D \in SUBSET Outpoint}
ChanMap == UNION {[I -> Outpoint] : I \in SUBSET Nat}

Draft == {NoFund} \cup [ChanIdx : Nat, Amt : Int, InitSend : Int]
DualDraft == {NoDual} \cup
  [ChanIdx : Nat, init : BOOLEAN, bases : BOOLEAN, mine : AnyKey, theirs : AnyKey]

NodeState ==
  [inProg : Draft, done : Seq(Nat), waiting : BOOLEAN,
   dual : DualDraft, doneDual : Seq({"accepted", "declined"}), waitingDual : BOOLEAN,
   locked : BOOLEAN, blocked : BOOLEAN, calls : Nat, built : Nat,
   db : Database, chanMap : ChanMap]

Message ==
  [type : {"PointReq", "DualDecl"}]
    \cup [type : {"PointResp", "DualReq", "DualAccept"}, key : Key]
    \cup [type : {"ChanDesc"}, op : Outpoint, key : Key, bases : BOOLEAN, value : Int, init : Int]
    \cup [type : {"ChanAck", "DualChanAck", "SigProof"}, op : Outpoint, sig : Sig]

Types ==
  /\ nd \in [Node -> NodeState]
  /\ net \in [Node -> Seq(Message)]
  /\ chain \in SUBSET Outpoint
  /\ \A n \in Node : IsFiniteSet(DOMAIN nd[n].chanMap)

(* The builder of op has saved it, and op pays to the keys it saved.       *)
Sound(op) ==
  /\ op \in DOMAIN nd[op.by].db
  /\ op.script = {nd[op.by].db[op].mine, nd[op.by].db[op].theirs}

(* The signature the builder makes, and the one it or its peer has saved.  *)
BuilderSig(op) == SignState(nd[op.by].db[op])

Verified(q) == VerifySigs(q, q.sig)

(* What a message on its way to n says is true of the sender's state and,  *)
(* for an acknowledgement, of the state of n that asked for it.            *)
Fits(n, m) ==
  /\ m.type \in {"PointResp", "DualReq", "DualAccept", "ChanDesc"} => m.key.node = Peer(n)
  /\ m.type = "ChanDesc" /\ m.bases => m.op.by = Peer(n) /\ Sound(m.op)
  /\ m.type \in {"ChanAck", "DualChanAck"} => m.op.by = n /\ Sound(m.op)
  /\ m.type = "SigProof" => m.op.by = Peer(n) /\ Sound(m.op) /\ m.sig = BuilderSig(m.op)

Wire == \A n \in Node : \A i \in 1 .. Len(net[n]) : Fits(n, net[n][i])

(* A record: whose keys it holds, who built it, what its signature is.     *)
Consistent(n, op) ==
  LET q == nd[n].db[op] IN
    /\ q.op = op /\ q.mine.node = n /\ q.theirs.node = Peer(n)
    /\ op.by = n => op.serial <= nd[n].built
    /\ op.by # n => Sound(op)
    /\ q.sig = NoSig \/ Verified(q)
    /\ op.by # n /\ q.sig # NoSig => q.sig = BuilderSig(op)

Records == \A n \in Node : \A op \in DOMAIN nd[n].db : Consistent(n, op)

(* A dual funding that has its HTLC bases has its own funding key too.     *)
Drafts ==
  \A n \in Node :
    LET d == nd[n].dual IN d # NoDual /\ d.bases => d.mine = UsePub(n, d.ChanIdx)

Broadcast == \A op \in chain : Sound(op) /\ Verified(nd[op.by].db[op])

Inv == Types /\ Wire /\ Records /\ Drafts /\ Broadcast

-----------------------------------------------------------------------------
(* The two nodes, their keys and their signatures.                         *)

LEMMA Peers ==
  ASSUME NEW n \in Node
  PROVE  Peer(n) \in Node /\ Peer(n) # n /\ Peer(Peer(n)) = n /\ Node = {n, Peer(n)}
  BY FundAssumption DEF Node, Peer

LEMMA NextKey ==
  ASSUME Types, NEW n \in Node
  PROVE  NextChannelIdx(n) \in Nat /\ UsePub(n, NextChannelIdx(n)) \in Key
<1>1. Cardinality(DOMAIN nd[n].chanMap) \in Nat
  BY FS_CardinalityType DEF Types
<1>2. NextChannelIdx(n) \in Nat
  BY <1>1 DEF NextChannelIdx
<1> QED BY <1>2 DEF UsePub, Key

LEMMA OwnKey ==
  ASSUME NEW n \in Node, NEW i \in Nat
  PROVE  UsePub(n, i) \in Key /\ UsePub(n, i).node = n
  BY DEF UsePub, Key

LEMMA SignType ==
  ASSUME NEW q \in Record
  PROVE  SignState(q) \in Sig
<1>1. /\ q.op \in Outpoint /\ q.mine \in Key /\ q.theirs \in Key
      /\ q.amt \in Int /\ q.value - q.amt \in Int
  BY DEF Record
<1>2. {<<q.mine, q.amt>>, <<q.theirs, q.value - q.amt>>} \in SUBSET (Key \X Int)
  BY <1>1
<1>3. {q.mine, q.theirs} \in SUBSET Key
  BY <1>1
<1> QED BY <1>1, <1>2, <1>3 DEF SignState, StateSig, Sig

LEMMA QchanType ==
  ASSUME NEW op \in Outpoint, NEW idx \in Nat, NEW mine \in Key, NEW theirs \in Key,
         NEW value \in Int, NEW amt \in Int
  PROVE  Qchan(op, idx, mine, theirs, value, amt) \in Record
  BY DEF Qchan, Record

-----------------------------------------------------------------------------
(* What the three updates of the database do to a node.                    *)

(* A record but for its signature and its failed mark.                     *)
SameChannel(q, r) ==
  r.op = q.op /\ r.mine = q.mine /\ r.theirs = q.theirs /\ r.value = q.value /\ r.amt = q.amt

LEMMA DatabaseEntry ==
  ASSUME NEW s \in NodeState
  PROVE  /\ DOMAIN s.db \in SUBSET Outpoint
         /\ \A op \in DOMAIN s.db : s.db[op] \in Record
         /\ s.db = [op \in DOMAIN s.db |-> s.db[op]]
         /\ DOMAIN s.chanMap \in SUBSET Nat
         /\ \A i \in DOMAIN s.chanMap : s.chanMap[i] \in Outpoint
         /\ s.chanMap = [i \in DOMAIN s.chanMap |-> s.chanMap[i]]
<1>1. PICK D \in SUBSET Outpoint : s.db \in [D -> Record]
  BY DEF NodeState, Database
<1>2. PICK I \in SUBSET Nat : s.chanMap \in [I -> Outpoint]
  BY DEF NodeState, ChanMap
<1> QED BY <1>1, <1>2

LEMMA SaveQChanEffect ==
  ASSUME NEW s \in NodeState, NEW q \in Record
  PROVE  /\ SaveQChan(s, q) \in NodeState
         /\ DOMAIN SaveQChan(s, q).db = DOMAIN s.db \cup {q.op}
         /\ SaveQChan(s, q).db[q.op] = q
         /\ \A op \in DOMAIN s.db : op # q.op => SaveQChan(s, q).db[op] = s.db[op]
         /\ DOMAIN SaveQChan(s, q).chanMap = DOMAIN s.chanMap \cup {q.idx}
         /\ SaveQChan(s, q) = [s EXCEPT !.db = SaveQChan(s, q).db, !.chanMap = SaveQChan(s, q).chanMap]
<1> DEFINE db == [op \in DOMAIN s.db \cup {q.op} |-> IF op = q.op THEN q ELSE s.db[op]]
           cm == [i \in DOMAIN s.chanMap \cup {q.idx} |-> IF i = q.idx THEN q.op ELSE s.chanMap[i]]
<1>1. q.op \in Outpoint /\ q.idx \in Nat
  BY DEF Record
<1>2. db \in Database
  <2>1. DOMAIN s.db \cup {q.op} \in SUBSET Outpoint
    BY <1>1, DatabaseEntry
  <2>2. db \in [DOMAIN s.db \cup {q.op} -> Record]
    BY DatabaseEntry
  <2> QED BY <2>1, <2>2, Zenon DEF Database
<1>3. cm \in ChanMap
  <2>1. DOMAIN s.chanMap \cup {q.idx} \in SUBSET Nat
    BY <1>1, DatabaseEntry
  <2>2. cm \in [DOMAIN s.chanMap \cup {q.idx} -> Outpoint]
    BY <1>1, DatabaseEntry
  <2> QED BY <2>1, <2>2, Zenon DEF ChanMap
<1>4. SaveQChan(s, q) = [s EXCEPT !.db = db, !.chanMap = cm]
  BY Zenon DEF SaveQChan
<1>5. DOMAIN db = DOMAIN s.db \cup {q.op} /\ db[q.op] = q
      /\ \A op \in DOMAIN s.db : op # q.op => db[op] = s.db[op]
  OBVIOUS
<1>6. DOMAIN cm = DOMAIN s.chanMap \cup {q.idx}
  OBVIOUS
<1> HIDE DEF db, cm
<1> QED BY <1>2, <1>3, <1>4, <1>5, <1>6 DEF NodeState

LEMMA SaveQchanStateEffect ==
  ASSUME NEW s \in NodeState, NEW op, NEW sig \in Sig
  PROVE  /\ SaveQchanState(s, op, sig) \in NodeState
         /\ DOMAIN SaveQchanState(s, op, sig).db = DOMAIN s.db
         /\ op \in DOMAIN s.db => /\ SameChannel(s.db[op], SaveQchanState(s, op, sig).db[op])
                                /\ SaveQchanState(s, op, sig).db[op].sig = sig
         /\ \A x \in DOMAIN s.db : x # op => SaveQchanState(s, op, sig).db[x] = s.db[x]
<1> DEFINE db == [s.db EXCEPT ![op] = [s.db[op] EXCEPT !.sig = sig]]
<1>1. SaveQchanState(s, op, sig) = [s EXCEPT !.db = db]
  BY DEF SaveQchanState
<1>2. ASSUME NEW q \in Record
      PROVE  LET r == [q EXCEPT !.sig = sig] IN r \in Record /\ SameChannel(q, r) /\ r.sig = sig
  BY DEF Record, SameChannel
<1>3. db \in Database
  <2>1. DOMAIN s.db \in SUBSET Outpoint
    BY DatabaseEntry
  <2>2. db \in [DOMAIN s.db -> Record]
    BY <1>2, DatabaseEntry
  <2> QED BY <2>1, <2>2, Zenon DEF Database
<1>4. /\ DOMAIN db = DOMAIN s.db
      /\ op \in DOMAIN s.db => db[op] = [s.db[op] EXCEPT !.sig = sig]
      /\ \A x \in DOMAIN s.db : x # op => db[x] = s.db[x]
  BY DatabaseEntry
<1>5. op \in DOMAIN s.db => SameChannel(s.db[op], db[op]) /\ db[op].sig = sig
  BY <1>2, <1>4, DatabaseEntry
<1> HIDE DEF db
<1>6. [s EXCEPT !.db = db] \in NodeState /\ [s EXCEPT !.db = db].db = db
  BY <1>3 DEF NodeState
<1> QED BY <1>1, <1>4, <1>5, <1>6

LEMMA FailChannelEffect ==
  ASSUME NEW s \in NodeState, NEW op
  PROVE  /\ FailChannel(s, op) \in NodeState
         /\ DOMAIN FailChannel(s, op).db = DOMAIN s.db
         /\ \A x \in DOMAIN s.db : /\ SameChannel(s.db[x], FailChannel(s, op).db[x])
                                  /\ FailChannel(s, op).db[x].sig = s.db[x].sig
<1> DEFINE db == [s.db EXCEPT ![op] = [s.db[op] EXCEPT !.failed = TRUE]]
<1>1. FailChannel(s, op) = [s EXCEPT !.db = db]
  BY DEF FailChannel
<1>2. ASSUME NEW q \in Record
      PROVE  LET r == [q EXCEPT !.failed = TRUE] IN r \in Record /\ SameChannel(q, r) /\ r.sig = q.sig
  BY DEF Record, SameChannel
<1>3. db \in Database
  <2>1. DOMAIN s.db \in SUBSET Outpoint
    BY DatabaseEntry
  <2>2. db \in [DOMAIN s.db -> Record]
    BY <1>2, DatabaseEntry
  <2> QED BY <2>1, <2>2, Zenon DEF Database
<1>4. /\ DOMAIN db = DOMAIN s.db
      /\ op \in DOMAIN s.db => db[op] = [s.db[op] EXCEPT !.failed = TRUE]
      /\ \A x \in DOMAIN s.db : x # op => db[x] = s.db[x]
  BY DatabaseEntry
<1>5. ASSUME NEW x \in DOMAIN s.db
      PROVE  SameChannel(s.db[x], db[x]) /\ db[x].sig = s.db[x].sig
  <2>1. CASE x = op
    BY <1>2, <1>4, <2>1, DatabaseEntry
  <2>2. CASE x # op
    BY <1>4, <2>2 DEF SameChannel
  <2> QED BY <2>1, <2>2
<1> HIDE DEF db
<1>6. [s EXCEPT !.db = db] \in NodeState /\ [s EXCEPT !.db = db].db = db
  BY <1>3 DEF NodeState
<1> QED BY <1>1, <1>4, <1>5, <1>6

-----------------------------------------------------------------------------
(* Steps.  Whatever else it does, no step takes a record away or changes   *)
(* the keys and balances of a channel whose funding the node has built.    *)
Keeps ==
  \A n \in Node : \A op \in DOMAIN nd[n].db :
    /\ op \in DOMAIN nd'[n].db
    /\ op.by = n =>
         LET q == nd[n].db[op]
             r == nd'[n].db[op]
         IN r.op = q.op /\ r.mine = q.mine /\ r.theirs = q.theirs /\ r.value = q.value /\ r.amt = q.amt

LEMMA SoundStays ==
  ASSUME Types, Keeps, NEW op \in Outpoint, Sound(op)
  PROVE  Sound(op)' /\ BuilderSig(op)' = BuilderSig(op)
<1>1. op.by \in Node
  BY DEF Outpoint
<1> QED BY <1>1 DEF Keeps, Sound, BuilderSig, SignState, StateSig

LEMMA FitsStays ==
  ASSUME Types, Keeps, NEW n \in Node, NEW m \in Message, Fits(n, m)
  PROVE  Fits(n, m)'
<1>1. m.type \in {"ChanDesc", "ChanAck", "DualChanAck", "SigProof"} => m.op \in Outpoint
  BY DEF Message
<1>2. m.type \in {"ChanDesc", "ChanAck", "DualChanAck", "SigProof"} /\ Sound(m.op)
        => Sound(m.op)' /\ BuilderSig(m.op)' = BuilderSig(m.op)
  BY <1>1, SoundStays
<1> QED BY <1>2 DEF Fits

(* The first message is as the invariant says.                             *)
LEMMA First ==
  ASSUME Types, Wire, NEW n \in Node, net[n] # <<>>
  PROVE  Msg(n) \in Message /\ Fits(n, Msg(n))
<1>1. net[n] \in Seq(Message)
  BY DEF Types
<1>2. Len(net[n]) >= 1 /\ Head(net[n]) = net[n][1] /\ net[n][1] \in Message
  BY <1>1
<1> QED BY <1>2 DEF Wire, Msg

(* Queues: what is read goes, what is sent comes last.                     *)
LEMMA TailFits ==
  ASSUME NEW s \in Seq(Message), s # <<>>
  PROVE  /\ Tail(s) \in Seq(Message)
         /\ \A i \in 1 .. Len(Tail(s)) : i + 1 \in 1 .. Len(s) /\ Tail(s)[i] = s[i + 1]
  OBVIOUS

LEMMA AppendFits ==
  ASSUME NEW s \in Seq(Message), NEW m \in Message
  PROVE  /\ Append(s, m) \in Seq(Message)
         /\ \A i \in 1 .. Len(Append(s, m)) :
              \/ Append(s, m)[i] = m
              \/ i \in 1 .. Len(s) /\ Append(s, m)[i] = s[i]
  OBVIOUS

(* After a step that keeps the records a queue holds what the invariant    *)
(* says it does if all in it was in that queue before or fits by itself.   *)
LEMMA WireStays ==
  ASSUME Types, Wire, Keeps,
         \A k \in Node : \A i \in 1 .. Len(net'[k]) :
            \/ \E j \in 1 .. Len(net[k]) : net'[k][i] = net[k][j]
            \/ Fits(k, net[k][i])'
  PROVE  Wire'
<1> SUFFICES ASSUME NEW k \in Node, NEW i \in 1 .. Len(net'[k])
             PROVE  Fits(k, net[k][i])'
  BY DEF Wire
<1>1. CASE Fits(k, net[k][i])'
  BY <1>1
<1>2. CASE \E j \in 1 .. Len(net[k]) : net'[k][i] = net[k][j]
  <2>1. PICK j \in 1 .. Len(net[k]) : net'[k][i] = net[k][j]
    BY <1>2
  <2> DEFINE m == net[k][j]
  <2>2. net[k] \in Seq(Message)
    BY DEF Types
  <2>3. m \in Message /\ Fits(k, m)
    BY <2>2 DEF Wire
  <2>4. \A x \in Message : Fits(k, x) => Fits(k, x)'
    BY FitsStays
  <2> QED BY <2>1, <2>3, <2>4
<1> QED BY <1>1, <1>2

LEMMA Quiet ==
  ASSUME Types, Wire, Keeps, NEW n \in Node,
         \/ UNCHANGED net
         \/ net[n] # <<>> /\ Consume(n)
         \/ net' = [k \in Node |-> <<>>]
  PROVE  net' \in [Node -> Seq(Message)] /\ Wire'
<1>1. net \in [Node -> Seq(Message)]
  BY DEF Types
<1>2. CASE UNCHANGED net
  BY <1>1, <1>2, WireStays
<1>3. CASE net[n] # <<>> /\ Consume(n)
  <2>1. \A k \in Node : net'[k] = IF k = n THEN Tail(net[n]) ELSE net[k]
    BY <1>1, <1>3 DEF Consume
  <2>2. net[n] \in Seq(Message) /\ net[n] # <<>>
    BY <1>1, <1>3
  <2>3. Tail(net[n]) \in Seq(Message)
        /\ \A i \in 1 .. Len(Tail(net[n])) :
              i + 1 \in 1 .. Len(net[n]) /\ Tail(net[n])[i] = net[n][i + 1]
    BY <2>2, TailFits
  <2>4. net' \in [Node -> Seq(Message)]
    BY <1>1, <1>3, <2>3 DEF Consume
  <2>5. ASSUME NEW k \in Node, NEW i \in 1 .. Len(net'[k])
        PROVE  \E j \in 1 .. Len(net[k]) : net'[k][i] = net[k][j]
    BY <2>1, <2>3
  <2> QED BY <2>4, <2>5, WireStays
<1>4. CASE net' = [k \in Node |-> <<>>]
  <2>1. <<>> \in Seq(Message) /\ \A i \in 1 .. Len(<<>>) : FALSE
    OBVIOUS
  <2>2. \A k \in Node : net'[k] = <<>>
    BY <1>4
  <2>3. net' \in [Node -> Seq(Message)]
    BY <1>4, <2>1
  <2>4. \A k \in Node : \A i \in 1 .. Len(net'[k]) : FALSE
    BY <2>1, <2>2
  <2> QED BY <2>3, <2>4, WireStays
<1> QED BY <1>2, <1>3, <1>4

LEMMA Sent ==
  ASSUME Types, Wire, Keeps, NEW n \in Node, NEW m \in Message, Fits(Peer(n), m)',
         \/ Send(n, m)
         \/ net[n] # <<>> /\ Reply(n, m)
  PROVE  net' \in [Node -> Seq(Message)] /\ Wire'
<1>1. net \in [Node -> Seq(Message)]
  BY DEF Types
<1> DEFINE p == Peer(n)
           rest == net'[n]
           more == Append(net[p], m)
<1>2. p \in Node /\ p # n /\ Node = {n, p} /\ net[n] \in Seq(Message) /\ net[p] \in Seq(Message)
  BY <1>1, Peers
<1>3. net'[p] = more /\ net' = [net EXCEPT ![n] = rest, ![p] = more]
  BY <1>1, <1>2 DEF Send, Reply
<1>4. /\ more \in Seq(Message)
      /\ \A i \in 1 .. Len(more) :
           \/ more[i] = m
           \/ i \in 1 .. Len(net[p]) /\ more[i] = net[p][i]
  BY <1>2, AppendFits
<1>5. rest \in Seq(Message)
      /\ \A i \in 1 .. Len(rest) : \E j \in 1 .. Len(net[n]) : rest[i] = net[n][j]
  <2>1. CASE Send(n, m)
    BY <1>1, <1>2, <2>1 DEF Send
  <2>2. CASE net[n] # <<>> /\ Reply(n, m)
    <3>1. rest = Tail(net[n])
      BY <1>1, <1>2, <2>2 DEF Reply
    <3>2. Tail(net[n]) \in Seq(Message)
          /\ \A i \in 1 .. Len(Tail(net[n])) :
                i + 1 \in 1 .. Len(net[n]) /\ Tail(net[n])[i] = net[n][i + 1]
      BY <1>2, <2>2, TailFits
    <3> HIDE DEF rest
    <3> QED BY <3>1, <3>2
  <2> QED BY <2>1, <2>2
<1> HIDE DEF p, rest, more
<1>6. net' \in [Node -> Seq(Message)]
  BY <1>1, <1>2, <1>3, <1>4, <1>5
<1>7. net'[n] = rest
  BY DEF rest
<1>8. Fits(p, m)'
  BY DEF p, Peer
<1>9. ASSUME NEW k \in Node, NEW i \in 1 .. Len(net'[k])
      PROVE  \/ \E j \in 1 .. Len(net[k]) : net'[k][i] = net[k][j]
             \/ Fits(k, net[k][i])'
  <2>1. CASE k = n
    BY <1>5, <1>7, <2>1
  <2>2. CASE k = p
    <3>1. i \in 1 .. Len(more) /\ net'[k][i] = more[i]
      BY <1>3, <2>2
    <3>2. CASE net'[k][i] = m
      BY <1>8, <2>2, <3>2
    <3>3. CASE i \in 1 .. Len(net[p]) /\ more[i] = net[p][i]
      BY <2>2, <3>1, <3>3
    <3> QED BY <1>4, <3>1, <3>2, <3>3
  <2> QED BY <1>2, <2>1, <2>2
<1> QED BY <1>6, <1>9, WireStays

-----------------------------------------------------------------------------
(* What a step may do to the records, and that each way is harmless.       *)

Untouched(k) == nd'[k].db = nd[k].db /\ nd'[k].built = nd[k].built

LEMMA SameChannelSame ==
  ASSUME NEW q \in Record, NEW r \in Record, SameChannel(q, r)
  PROVE  /\ SignState(r) = SignState(q)
         /\ \A sig : VerifySigs(r, sig) <=> VerifySigs(q, sig)
  BY DEF SameChannel, SignState, VerifySigs, StateSig, Buildable

(* No signature changes: failed marks at the most.                         *)
LEMMA RecordsStay ==
  ASSUME Inv, nd' \in [Node -> NodeState], UNCHANGED chain,
         \A k \in Node :
           /\ nd'[k].built = nd[k].built /\ DOMAIN nd'[k].db = DOMAIN nd[k].db
           /\ \A op \in DOMAIN nd[k].db :
                SameChannel(nd[k].db[op], nd'[k].db[op]) /\ nd'[k].db[op].sig = nd[k].db[op].sig
  PROVE  Keeps /\ Records' /\ Broadcast'
<1>1. Keeps
  BY DEF Keeps, SameChannel
<1>2. \A k \in Node : \A op \in DOMAIN nd[k].db :
        op \in Outpoint /\ nd[k].db[op] \in Record /\ nd'[k].db[op] \in Record
  BY DatabaseEntry DEF Inv, Types
<1>3. \A op \in Outpoint : Sound(op) => Sound(op)' /\ BuilderSig(op)' = BuilderSig(op)
  BY <1>1, SoundStays DEF Inv
<1>4. Records'
  <2> SUFFICES ASSUME NEW k \in Node, NEW op \in DOMAIN nd'[k].db PROVE Consistent(k, op)'
    BY DEF Records
  <2> DEFINE q == nd[k].db[op]
             r == nd'[k].db[op]
  <2>1. Consistent(k, op) /\ op \in Outpoint /\ q \in Record /\ r \in Record
        /\ SameChannel(q, r) /\ r.sig = q.sig /\ nd'[k].built = nd[k].built
    BY <1>2 DEF Inv, Records
  <2>2. Verified(q) => Verified(r)
    BY <2>1, SameChannelSame DEF Verified
  <2> QED BY <1>3, <2>1, <2>2 DEF Consistent, SameChannel
<1>5. Broadcast'
  <2> SUFFICES ASSUME NEW op \in chain PROVE Sound(op)' /\ Verified(nd'[op.by].db[op])
    BY DEF Broadcast
  <2> DEFINE q == nd[op.by].db[op]
             r == nd'[op.by].db[op]
  <2>1. op \in Outpoint /\ op.by \in Node /\ Sound(op) /\ Verified(q)
    BY DEF Inv, Types, Broadcast, Outpoint
  <2>2. q \in Record /\ r \in Record /\ SameChannel(q, r) /\ r.sig = q.sig
    BY <1>2, <2>1 DEF Sound
  <2>3. Verified(r)
    BY <2>1, <2>2, SameChannelSame DEF Verified
  <2> QED BY <1>3, <2>1, <2>3
<1> QED BY <1>1, <1>4, <1>5

(* A new channel: a builder's under a fresh outpoint, or one described by  *)
(* its builder.                                                            *)
LEMMA SaveStays ==
  ASSUME Inv, nd' \in [Node -> NodeState], UNCHANGED chain, NEW n \in Node, NEW q \in Record,
         q.sig = NoSig, q.mine.node = n, q.theirs.node = Peer(n),
         nd'[n].db = SaveQChan(nd[n], q).db, Untouched(Peer(n)),
         \/ /\ q.op.by = n /\ q.op.serial = nd[n].built + 1
            /\ nd'[n].built = nd[n].built + 1
         \/ /\ q.op.by = Peer(n) /\ Sound(q.op)
            /\ nd'[n].built = nd[n].built
  PROVE  Keeps /\ Records' /\ Broadcast'
<1>1. /\ DOMAIN nd'[n].db = DOMAIN nd[n].db \cup {q.op}
      /\ nd'[n].db[q.op] = q
      /\ \A op \in DOMAIN nd[n].db : op # q.op => nd'[n].db[op] = nd[n].db[op]
      /\ nd[n].built \in Nat /\ nd'[n].built \in Nat
  <2>1. nd[n] \in NodeState /\ nd'[n] \in NodeState
    BY DEF Inv, Types
  <2>2. nd[n].built \in Nat /\ nd'[n].built \in Nat
    BY <2>1 DEF NodeState
  <2>3. /\ DOMAIN SaveQChan(nd[n], q).db = DOMAIN nd[n].db \cup {q.op}
        /\ SaveQChan(nd[n], q).db[q.op] = q
        /\ \A op \in DOMAIN nd[n].db : op # q.op => SaveQChan(nd[n], q).db[op] = nd[n].db[op]
    BY <2>1, SaveQChanEffect
  <2> QED BY <2>2, <2>3
<1>2. Peer(n) \in Node /\ Peer(n) # n /\ Node = {n, Peer(n)}
  BY Peers
<1>3. \A k \in Node : \A op \in DOMAIN nd[k].db : op \in Outpoint /\ nd[k].db[op] \in Record
  BY DatabaseEntry DEF Inv, Types
<1>4. \A op \in DOMAIN nd[n].db : op.by = n => op # q.op
  <2> SUFFICES ASSUME NEW op \in DOMAIN nd[n].db, op.by = n, op = q.op PROVE FALSE
    OBVIOUS
  <2>1. op.serial <= nd[n].built
    BY DEF Inv, Records, Consistent
  <2> QED BY <1>1, <1>2, <2>1
<1>5. Keeps
  <2>1. ASSUME NEW k \in Node, NEW op \in DOMAIN nd[k].db
        PROVE  op \in DOMAIN nd'[k].db /\ (op.by = k => nd'[k].db[op] = nd[k].db[op])
    <3>1. CASE k = n
      BY <1>1, <1>4, <3>1
    <3>2. CASE k = Peer(n)
      BY <3>2 DEF Untouched
    <3> QED BY <1>2, <3>1, <3>2
  <2> QED BY <2>1 DEF Keeps
<1>6. \A op \in Outpoint : Sound(op) => Sound(op)' /\ BuilderSig(op)' = BuilderSig(op)
  BY <1>5, SoundStays DEF Inv
<1>7. ASSUME NEW k \in Node, NEW op \in DOMAIN nd[k].db, nd'[k].db[op] = nd[k].db[op]
      PROVE  Consistent(k, op)'
  <2>1. Consistent(k, op) /\ op \in Outpoint
    BY <1>3 DEF Inv, Records
  <2>2. nd[k].built <= nd'[k].built /\ nd[k].built \in Nat /\ nd'[k].built \in Nat
    <3>1. nd[k].built \in Nat
      BY DEF Inv, Types, NodeState
    <3>2. CASE k = n
      BY <1>1, <3>2
    <3>3. CASE k = Peer(n)
      BY <3>1, <3>3 DEF Untouched
    <3> QED BY <1>2, <3>1, <3>2, <3>3
  <2>3. op.serial \in Int
    BY <2>1 DEF Outpoint
  <2>4. op.by = k => op.serial <= nd'[k].built
    BY <2>1, <2>2, <2>3 DEF Consistent
  <2> QED BY <1>6, <1>7, <2>1, <2>4 DEF Consistent
<1>8. Consistent(n, q.op)'
  <2>1. q.op \in Outpoint
    BY DEF Record
  <2>2. q.op.by = n => q.op.serial <= nd'[n].built
    BY <1>1, <1>2
  <2>3. q.op.by # n => Sound(q.op)'
    BY <1>6, <2>1
  <2> QED BY <1>1, <2>2, <2>3 DEF Consistent, Peer
<1>9. Records'
  <2> SUFFICES ASSUME NEW k \in Node, NEW op \in DOMAIN nd'[k].db PROVE Consistent(k, op)'
    BY DEF Records
  <2>1. CASE k = n
    <3>1. CASE op = q.op
      BY <1>8, <2>1, <3>1
    <3>2. CASE op # q.op
      BY <1>1, <1>7, <2>1, <3>2
    <3> QED BY <3>1, <3>2
  <2>2. CASE k = Peer(n)
    BY <1>7, <2>2 DEF Untouched
  <2> QED BY <1>2, <2>1, <2>2
<1>10. Broadcast'
  <2> SUFFICES ASSUME NEW op \in chain PROVE Sound(op)' /\ Verified(nd'[op.by].db[op])
    BY DEF Broadcast
  <2>1. op \in Outpoint /\ op.by \in Node /\ Sound(op) /\ Verified(nd[op.by].db[op])
    BY DEF Inv, Types, Broadcast, Outpoint
  <2>2. nd'[op.by].db[op] = nd[op.by].db[op]
    <3>1. CASE op.by = n
      BY <1>1, <1>4, <2>1, <3>1 DEF Sound
    <3>2. CASE op.by = Peer(n)
      BY <3>2 DEF Untouched
    <3> QED BY <1>2, <2>1, <3>1, <3>2
  <2> QED BY <1>6, <2>1, <2>2
<1> QED BY <1>5, <1>9, <1>10

(* A verified signature is saved: in a record whose funding the peer has   *)
(* built it is the one that the builder makes.                             *)
LEMMA SignStays ==
  ASSUME Inv, nd' \in [Node -> NodeState], NEW n \in Node, NEW op \in DOMAIN nd[n].db, NEW sig \in Sig,
         VerifySigs(nd[n].db[op], sig),
         op.by # n => sig = BuilderSig(op),
         nd'[n].db = SaveQchanState(nd[n], op, sig).db, nd'[n].built = nd[n].built,
         Untouched(Peer(n)),
         \/ chain' = chain
         \/ op.by = n /\ Sound(op) /\ chain' = chain \cup {op}
  PROVE  Keeps /\ Records' /\ Broadcast'
<1>1. Peer(n) \in Node /\ Peer(n) # n /\ Node = {n, Peer(n)}
  BY Peers
<1>2. \A k \in Node : \A x \in DOMAIN nd[k].db : x \in Outpoint /\ nd[k].db[x] \in Record
  BY DatabaseEntry DEF Inv, Types
<1>3. /\ DOMAIN nd'[n].db = DOMAIN nd[n].db
      /\ SameChannel(nd[n].db[op], nd'[n].db[op]) /\ nd'[n].db[op].sig = sig
      /\ \A x \in DOMAIN nd[n].db : x # op => nd'[n].db[x] = nd[n].db[x]
  <2>1. nd[n] \in NodeState
    BY DEF Inv, Types
  <2> QED BY <2>1, SaveQchanStateEffect
<1> DEFINE r == nd'[n].db[op]
           q == nd[n].db[op]
<1>4. r \in Record /\ q \in Record /\ SameChannel(q, r) /\ r.sig = sig
  BY <1>2, <1>3, DatabaseEntry
<1>5. Verified(r)
  BY <1>4, SameChannelSame DEF Verified
<1>6. Keeps
  <2>1. ASSUME NEW k \in Node, NEW x \in DOMAIN nd[k].db
        PROVE  x \in DOMAIN nd'[k].db /\ SameChannel(nd[k].db[x], nd'[k].db[x])
    <3>1. CASE k = n
      BY <1>3, <1>4, <3>1 DEF SameChannel
    <3>2. CASE k = Peer(n)
      BY <3>2 DEF Untouched, SameChannel
    <3> QED BY <1>1, <3>1, <3>2
  <2> QED BY <2>1 DEF Keeps, SameChannel
<1>7. \A x \in Outpoint : Sound(x) => Sound(x)' /\ BuilderSig(x)' = BuilderSig(x)
  BY <1>6, SoundStays DEF Inv
<1>8. ASSUME NEW k \in Node, NEW x \in DOMAIN nd[k].db, nd'[k].db[x] = nd[k].db[x]
      PROVE  Consistent(k, x)'
  <2>1. Consistent(k, x) /\ x \in Outpoint
    BY <1>2 DEF Inv, Records
  <2>2. nd'[k].built = nd[k].built
    BY <1>1 DEF Untouched
  <2> QED BY <1>7, <1>8, <2>1, <2>2 DEF Consistent
<1>9. Consistent(n, op)'
  <2>1. Consistent(n, op) /\ op \in Outpoint
    BY <1>2 DEF Inv, Records
  <2> QED BY <1>4, <1>5, <1>7, <2>1 DEF Consistent, SameChannel
<1>10. Records'
  <2> SUFFICES ASSUME NEW k \in Node, NEW x \in DOMAIN nd'[k].db PROVE Consistent(k, x)'
    BY DEF Records
  <2>1. CASE k = n /\ x = op
    BY <1>9, <2>1
  <2>2. CASE k = n /\ x # op
    BY <1>3, <1>8, <2>2
  <2>3. CASE k = Peer(n)
    BY <1>8, <2>3 DEF Untouched
  <2> QED BY <1>1, <2>1, <2>2, <2>3
<1>11. Broadcast'
  <2> SUFFICES ASSUME NEW x \in chain' PROVE Sound(x)' /\ Verified(nd'[x.by].db[x])
    BY DEF Broadcast
  <2>1. CASE x.by = n /\ x = op
    <3>1. op \in Outpoint /\ Sound(op)
      BY <1>2, <2>1 DEF Inv, Broadcast
    <3> QED BY <1>5, <1>7, <2>1, <3>1
  <2>2. CASE ~(x.by = n /\ x = op)
    <3>1. x \in Outpoint /\ x.by \in Node /\ Sound(x) /\ Verified(nd[x.by].db[x])
      BY <2>2 DEF Inv, Types, Broadcast, Outpoint
    <3>2. nd'[x.by].db[x] = nd[x.by].db[x]
      <4>1. CASE x.by = n
        BY <1>3, <2>2, <3>1, <4>1 DEF Sound
      <4>2. CASE x.by = Peer(n)
        BY <4>2 DEF Untouched
      <4> QED BY <1>1, <3>1, <4>1, <4>2
    <3> QED BY <1>7, <3>1, <3>2
  <2> QED BY <2>1, <2>2
<1> QED BY <1>6, <1>10, <1>11

-----------------------------------------------------------------------------
(* The initial state.                                                      *)
LEMMA InitInv == Init => Inv
<1> SUFFICES ASSUME Init PROVE Inv
  OBVIOUS
<1>1. <<>> \in Database /\ <<>> \in ChanMap /\ DOMAIN <<>> = {}
  <2>1. <<>> \in [{} -> Record] /\ <<>> \in [{} -> Outpoint] /\ DOMAIN <<>> = {}
    OBVIOUS
  <2> QED BY <2>1, Zenon DEF Database, ChanMap
<1>2. ASSUME NEW n \in Node
      PROVE  nd[n] \in NodeState /\ DOMAIN nd[n].db = {} /\ DOMAIN nd[n].chanMap = {} /\ nd[n].dual = NoDual
  BY <1>1 DEF Init, NodeState, Draft, DualDraft
<1>3. nd \in [Node -> NodeState]
  BY <1>2 DEF Init
<1>4. Types
  <2>1. <<>> \in Seq(Message)
    OBVIOUS
  <2>2. net \in [Node -> Seq(Message)] /\ chain \in SUBSET Outpoint
    BY <2>1 DEF Init
  <2> QED BY <1>2, <1>3, <2>2, FS_EmptySet DEF Types
<1>5. Wire
  <2>1. \A n \in Node : net[n] = <<>>
    BY DEF Init
  <2>2. \A i \in 1 .. Len(<<>>) : FALSE
    OBVIOUS
  <2> QED BY <2>1, <2>2 DEF Wire
<1>6. Records /\ Drafts
  BY <1>2 DEF Records, Drafts
<1>7. Broadcast
  BY DEF Init, Broadcast
<1> QED BY <1>4, <1>5, <1>6, <1>7 DEF Inv

-----------------------------------------------------------------------------
(* A step of node n: its state becomes s, and what is said of its records, *)
(* of its dual funding and of the messages it reads and sends holds.       *)

Becomes(n, s) == s \in NodeState /\ nd' = [nd EXCEPT ![n] = s]

LEMMA BecomesEffect ==
  ASSUME Types, NEW n \in Node, NEW s, Becomes(n, s)
  PROVE  /\ nd' \in [Node -> NodeState] /\ nd'[n] = s
         /\ Peer(n) \in Node /\ Peer(n) # n /\ nd'[Peer(n)] = nd[Peer(n)] /\ Node = {n, Peer(n)}
  BY Peers DEF Types, Becomes

Traffic(n) ==
  \/ UNCHANGED net
  \/ net[n] # <<>> /\ Consume(n)
  \/ \E m \in Message :
       /\ Fits(Peer(n), m)'
       /\ Send(n, m) \/ (net[n] # <<>> /\ Reply(n, m))

(* The dual funding in s is the one of before, or has its funding key.     *)
DualKept(n, s) ==
  s.dual # NoDual /\ s.dual.bases => s.dual = nd[n].dual \/ s.dual.mine = UsePub(n, s.dual.ChanIdx)

LEMMA Assemble ==
  ASSUME Inv, NEW n \in Node, NEW s, Becomes(n, s), DualKept(n, s), Traffic(n),
         IsFiniteSet(DOMAIN s.chanMap), chain' \in SUBSET Outpoint,
         Keeps, Records', Broadcast'
  PROVE  Inv'
<1>1. net' \in [Node -> Seq(Message)] /\ Wire'
  BY Quiet, Sent DEF Inv, Traffic
<1>2. Types'
  <2>1. Types
    BY DEF Inv
  <2>2. ASSUME NEW k \in Node PROVE IsFiniteSet(DOMAIN nd'[k].chanMap)
    <3>1. CASE k = n
      BY <2>1, <3>1, BecomesEffect
    <3>2. CASE k = Peer(n)
      BY <2>1, <3>2, BecomesEffect DEF Types
    <3> QED BY <2>1, <3>1, <3>2, BecomesEffect
  <2>3. nd' \in [Node -> NodeState]
    BY <2>1, BecomesEffect
  <2> QED BY <1>1, <2>2, <2>3 DEF Types
<1>3. Drafts'
  <2> SUFFICES ASSUME NEW k \in Node, nd'[k].dual # NoDual, nd'[k].dual.bases
               PROVE  nd'[k].dual.mine = UsePub(k, nd'[k].dual.ChanIdx)
    BY DEF Drafts, UsePub
  <2>1. CASE nd'[k] = nd[k]
    BY <2>1 DEF Inv, Drafts
  <2>2. CASE k = n
    BY <2>2, BecomesEffect DEF Inv, Drafts, DualKept
  <2> QED BY <2>1, <2>2, BecomesEffect DEF Inv
<1> QED BY <1>1, <1>2, <1>3 DEF Inv

(* Steps that leave the database alone.                                    *)
LEMMA LocalStep ==
  ASSUME Inv, NEW n \in Node, NEW s, Becomes(n, s), DualKept(n, s), Traffic(n),
         s.db = nd[n].db, s.built = nd[n].built, s.chanMap = nd[n].chanMap, UNCHANGED chain
  PROVE  Inv'
<1>1. nd' \in [Node -> NodeState] /\ \A k \in Node : nd'[k].db = nd[k].db /\ nd'[k].built = nd[k].built
  BY BecomesEffect DEF Inv
<1>2. Keeps /\ Records' /\ Broadcast'
  BY <1>1, RecordsStay DEF SameChannel
<1>3. IsFiniteSet(DOMAIN s.chanMap) /\ chain' \in SUBSET Outpoint
  BY DEF Inv, Types
<1> QED BY <1>2, <1>3, Assemble

LEMMA MessageSent ==
  ASSUME NEW n \in Node, NEW i \in Nat
  PROVE  /\ \A t \in {"PointReq", "DualDecl"} :
              [type |-> t] \in Message /\ Fits(Peer(n), [type |-> t])'
         /\ \A t \in {"PointResp", "DualReq", "DualAccept"} :
              LET m == [type |-> t, key |-> UsePub(n, i)] IN m \in Message /\ Fits(Peer(n), m)'
<1>1. ASSUME NEW t \in {"PointReq", "DualDecl"}
      PROVE  [type |-> t] \in Message /\ Fits(Peer(n), [type |-> t])'
  BY DEF Message, Fits
<1>2. ASSUME NEW t \in {"PointResp", "DualReq", "DualAccept"}
      PROVE  LET m == [type |-> t, key |-> UsePub(n, i)] IN m \in Message /\ Fits(Peer(n), m)'
  BY Peers, OwnKey DEF Message, Fits
<1> QED BY <1>1, <1>2

LEMMA NodeType ==
  ASSUME Inv, NEW n \in Node
  PROVE  nd[n] \in NodeState /\ nd \in [Node -> NodeState]
  BY DEF Inv, Types

-----------------------------------------------------------------------------
(* Single funding.                                                         *)

LEMMA FundChannelInv ==
  ASSUME Inv, NEW n \in Node, NEW ccap \in Caps, NEW initSend \in Sends,
         FundChannel(n, ccap, initSend)
  PROVE  Inv'
<1> DEFINE f == [ChanIdx |-> NextChannelIdx(n), Amt |-> ccap, InitSend |-> initSend]
           s == [nd[n] EXCEPT !.calls = @ + 1, !.waiting = TRUE, !.inProg = f]
<1>1. f \in Draft
  BY NextKey, FundAssumption DEF Inv, Draft
<1>2. Becomes(n, s)
  <2>1. nd' = [nd EXCEPT ![n] = s]
    BY NodeType DEF FundChannel
  <2> HIDE DEF f
  <2>2. s \in NodeState
    <3> DEFINE c == nd[n].calls + 1
    <3>1. nd[n] \in NodeState /\ c \in Nat
      BY NodeType DEF NodeState
    <3> HIDE DEF c
    <3>2. [nd[n] EXCEPT !.calls = c, !.waiting = TRUE, !.inProg = f] \in NodeState
      BY <1>1, <3>1 DEF NodeState
    <3> QED BY <3>2 DEF c
  <2> QED BY <2>1, <2>2 DEF Becomes
<1>3. s.db = nd[n].db /\ s.built = nd[n].built /\ s.chanMap = nd[n].chanMap /\ s.dual = nd[n].dual
  BY NodeType DEF NodeState
<1>4. Traffic(n)
  BY MessageSent DEF FundChannel, Traffic
<1> QED BY <1>2, <1>3, <1>4, LocalStep DEF FundChannel, DualKept

LEMMA FundChannelReturnsInv ==
  ASSUME Inv, NEW n \in Node, FundChannelReturns(n)
  PROVE  Inv'
<1> DEFINE s == [nd[n] EXCEPT !.waiting = FALSE, !.done = Tail(@)]
<1>1. Tail(nd[n].done) \in Seq(Nat)
  BY NodeType DEF NodeState, FundChannelReturns
<1>2. Becomes(n, s)
  BY <1>1, NodeType DEF FundChannelReturns, Becomes, NodeState
<1>3. s.db = nd[n].db /\ s.built = nd[n].built /\ s.chanMap = nd[n].chanMap /\ s.dual = nd[n].dual
  BY NodeType DEF NodeState
<1> QED BY <1>2, <1>3, LocalStep DEF FundChannelReturns, DualKept, Traffic

(* A step that changes no node.                                            *)
LEMMA TrafficOnly ==
  ASSUME Inv, NEW n \in Node, Traffic(n), UNCHANGED <<nd, chain>>
  PROVE  Inv'
<1>1. Becomes(n, nd[n])
  BY NodeType DEF Becomes
<1> QED BY <1>1, LocalStep DEF DualKept

LEMMA PointReqInv ==
  ASSUME Inv, NEW n \in Node, PointReqHandler(n)
  PROVE  Inv'
<1>1. Traffic(n)
  BY MessageSent, NextKey DEF Inv, PointReqHandler, Gets, Traffic
<1> QED BY <1>1, TrafficOnly DEF PointReqHandler

LEMMA PointRespDroppedInv ==
  ASSUME Inv, NEW n \in Node, PointRespDropped(n)
  PROVE  Inv'
  BY TrafficOnly DEF PointRespDropped, Gets, Traffic

LEMMA ChannelMsgDroppedInv ==
  ASSUME Inv, NEW n \in Node, ChannelMsgDropped(n)
  PROVE  Inv'
  BY TrafficOnly DEF ChannelMsgDropped, Gets, Traffic

(* The builder's new channel is under a new outpoint that pays to its keys. *)
LEMMA BuilderSaves ==
  ASSUME Inv, NEW n \in Node, NEW q \in Record, NEW s, Becomes(n, s), DualKept(n, s),
         q.sig = NoSig, q.mine.node = n, q.theirs.node = Peer(n),
         q.op.by = n, q.op.serial = nd[n].built + 1,
         s.db = SaveQChan(nd[n], q).db, s.chanMap = SaveQChan(nd[n], q).chanMap,
         s.built = nd[n].built + 1, UNCHANGED chain,
         NEW m \in Message, net[n] # <<>>, Reply(n, m),
         m.type = "ChanDesc", m.op = q.op, m.key = q.mine,
         m.bases => q.op.script = {q.mine, q.theirs}
  PROVE  Inv'
<1>1. nd[n] \in NodeState /\ Untouched(Peer(n)) /\ nd'[n] = s /\ nd' \in [Node -> NodeState]
  BY NodeType, BecomesEffect DEF Inv, Untouched
<1>2. Keeps /\ Records' /\ Broadcast'
  BY <1>1, SaveStays
<1>3. /\ q.op \in DOMAIN s.db /\ s.db[q.op] = q
      /\ DOMAIN s.chanMap = DOMAIN nd[n].chanMap \cup {q.idx}
  <2>1. /\ DOMAIN SaveQChan(nd[n], q).db = DOMAIN nd[n].db \cup {q.op}
        /\ SaveQChan(nd[n], q).db[q.op] = q
        /\ DOMAIN SaveQChan(nd[n], q).chanMap = DOMAIN nd[n].chanMap \cup {q.idx}
    BY <1>1, SaveQChanEffect
  <2> QED BY <2>1
<1>4. IsFiniteSet(DOMAIN s.chanMap) /\ chain' \in SUBSET Outpoint
  <2>1. IsFiniteSet(DOMAIN nd[n].chanMap) /\ chain' \in SUBSET Outpoint
    BY DEF Inv, Types
  <2> QED BY <1>3, <2>1, FS_AddElement
<1>5. Fits(Peer(n), m)'
  <2>1. m.bases => Sound(m.op)'
    BY <1>1, <1>3 DEF Sound
  <2> QED BY <2>1, Peers DEF Fits
<1>6. Traffic(n)
  BY <1>5 DEF Traffic
<1> QED BY <1>2, <1>4, <1>6, Assemble

(* A channel that its builder describes.                                   *)
LEMMA RecipientSaves ==
  ASSUME Inv, NEW n \in Node, NEW q \in Record, NEW s, Becomes(n, s), DualKept(n, s),
         q.sig = NoSig, q.mine.node = n, q.theirs.node = Peer(n),
         q.op.by = Peer(n), Sound(q.op),
         s.db = SaveQChan(nd[n], q).db, s.chanMap = SaveQChan(nd[n], q).chanMap,
         s.built = nd[n].built, UNCHANGED chain, net[n] # <<>>,
         \/ Consume(n)
         \/ \E t \in {"ChanAck", "DualChanAck"} :
              Reply(n, [type |-> t, op |-> q.op, sig |-> SignState(q)])
  PROVE  Inv'
<1>1. nd[n] \in NodeState /\ Untouched(Peer(n)) /\ nd'[n] = s /\ nd' \in [Node -> NodeState]
  BY NodeType, BecomesEffect DEF Inv, Untouched
<1>2. Keeps /\ Records' /\ Broadcast'
  BY <1>1, SaveStays
<1>3. DOMAIN s.chanMap = DOMAIN nd[n].chanMap \cup {q.idx}
  <2>1. DOMAIN SaveQChan(nd[n], q).chanMap = DOMAIN nd[n].chanMap \cup {q.idx}
    BY <1>1, SaveQChanEffect
  <2> QED BY <2>1
<1>4. IsFiniteSet(DOMAIN s.chanMap) /\ chain' \in SUBSET Outpoint
  <2>1. IsFiniteSet(DOMAIN nd[n].chanMap) /\ chain' \in SUBSET Outpoint
    BY DEF Inv, Types
  <2> QED BY <1>3, <2>1, FS_AddElement
<1>5. q.op \in Outpoint
  BY DEF Record
<1>6. Sound(q.op)'
  BY <1>2, <1>5, SoundStays DEF Inv
<1>7. ASSUME NEW t \in {"ChanAck", "DualChanAck"}
      PROVE  LET m == [type |-> t, op |-> q.op, sig |-> SignState(q)]
             IN  m \in Message /\ Fits(Peer(n), m)'
  <2> DEFINE m == [type |-> t, op |-> q.op, sig |-> SignState(q)]
  <2>1. m \in Message
    BY <1>5, SignType DEF Message
  <2>2. m.type = t /\ m.op = q.op
    OBVIOUS
  <2> HIDE DEF m
  <2>3. Fits(Peer(n), m)'
    BY <1>6, <2>2 DEF Fits, Peer
  <2> QED BY <2>1, <2>3 DEF m
<1>8. Traffic(n)
  BY <1>7 DEF Traffic
<1> QED BY <1>2, <1>4, <1>8, Assemble

LEMMA PointRespInv ==
  ASSUME Inv, NEW n \in Node, PointRespHandler(n)
  PROVE  Inv'
<1> DEFINE f == nd[n].inProg
           mine == UsePub(n, f.ChanIdx)
           op == [by |-> n, serial |-> nd[n].built + 1, script |-> {mine, Msg(n).key}]
           q == Qchan(op, f.ChanIdx, mine, Msg(n).key, f.Amt, f.Amt - f.InitSend)
           b == nd[n].built + 1
           s == [SaveQChan(nd[n], q) EXCEPT !.built = b]
           m == [type |-> "ChanDesc", op |-> op, key |-> mine, bases |-> TRUE,
                 value |-> f.Amt, init |-> f.InitSend]
<1>1. /\ net[n] # <<>> /\ Msg(n) \in Message /\ Msg(n).type = "PointResp" /\ Fits(n, Msg(n))
      /\ UNCHANGED chain
  BY First DEF Inv, PointRespHandler, Gets, Msg
<1>2. Msg(n).key \in Key /\ Msg(n).key.node = Peer(n)
  BY <1>1 DEF Message, Fits
<1>3. f.ChanIdx \in Nat /\ f.Amt \in Int /\ f.InitSend \in Int /\ f.Amt - f.InitSend \in Int /\ b \in Nat
  <2>1. f \in Draft /\ f # NoFund /\ b \in Nat
    BY NodeType DEF PointRespHandler, NodeState
  <2> QED BY <2>1 DEF Draft
<1>4. mine \in Key /\ mine.node = n
  BY <1>3, OwnKey
<1>5. op \in Outpoint
  BY <1>2, <1>3, <1>4 DEF Outpoint, AnyKey
<1>6. q \in Record
  BY <1>2, <1>3, <1>4, <1>5, QchanType
<1>7. m \in Message
  BY <1>3, <1>4, <1>5 DEF Message
<1>8. /\ q.sig = NoSig /\ q.mine = mine /\ q.theirs = Msg(n).key /\ q.op = op
      /\ op.by = n /\ op.serial = b /\ op.script = {mine, Msg(n).key}
  BY DEF Qchan
<1>9. m.type = "ChanDesc" /\ m.op = op /\ m.key = mine
  OBVIOUS
<1>10. nd' = [nd EXCEPT ![n] = s] /\ Reply(n, m)
  BY DEF PointRespHandler
<1> HIDE DEF f, mine, op, q, m
<1>11. /\ s \in NodeState /\ s.db = SaveQChan(nd[n], q).db /\ s.built = b
       /\ s.chanMap = SaveQChan(nd[n], q).chanMap /\ s.dual = nd[n].dual
  <2>1. SaveQChan(nd[n], q) \in NodeState
    BY <1>6, NodeType, SaveQChanEffect
  <2>2. SaveQChan(nd[n], q).dual = nd[n].dual
    BY NodeType DEF SaveQChan, NodeState
  <2> HIDE DEF b
  <2> QED BY <1>3, <2>1, <2>2 DEF NodeState
<1>12. Becomes(n, s) /\ DualKept(n, s)
  BY <1>10, <1>11 DEF Becomes, DualKept
<1> HIDE DEF s
<1> QED BY <1>1, <1>2, <1>4, <1>6, <1>7, <1>8, <1>9, <1>10, <1>11, <1>12, BuilderSaves DEF b

(* Both descriptions: the recipient saves the channel and acknowledges it.  *)
LEMMA DescInv ==
  ASSUME Inv, NEW n \in Node, Gets(n, "ChanDesc"), Msg(n).bases,
         NEW t \in {"ChanAck", "DualChanAck"}, NEW q,
         q = Qchan(Msg(n).op, NextChannelIdx(n), UsePub(n, NextChannelIdx(n)), Msg(n).key,
                   Msg(n).value, Msg(n).init),
         nd' = [nd EXCEPT ![n] = SaveQChan(nd[n], q)], UNCHANGED chain,
         IF Buildable(q) THEN Reply(n, [type |-> t, op |-> Msg(n).op, sig |-> SignState(q)])
                         ELSE Consume(n)
  PROVE  Inv'
<1> DEFINE s == SaveQChan(nd[n], q)
           i == NextChannelIdx(n)
<1>1. net[n] # <<>> /\ Msg(n) \in Message /\ Msg(n).type = "ChanDesc" /\ Fits(n, Msg(n))
  BY First DEF Inv, Gets, Msg
<1>2. /\ Msg(n).key \in Key /\ Msg(n).key.node = Peer(n) /\ Msg(n).op \in Outpoint
      /\ Msg(n).value \in Int /\ Msg(n).init \in Int /\ Msg(n).op.by = Peer(n) /\ Sound(Msg(n).op)
  BY <1>1 DEF Message, Fits
<1>3. i \in Nat /\ UsePub(n, i) \in Key /\ UsePub(n, i).node = n
  BY NextKey, OwnKey DEF Inv
<1>4. q \in Record
  BY <1>2, <1>3, QchanType
<1>5. q.sig = NoSig /\ q.mine = UsePub(n, i) /\ q.theirs = Msg(n).key /\ q.op = Msg(n).op
  BY DEF Qchan
<1>6. s \in NodeState /\ s.dual = nd[n].dual /\ s.built = nd[n].built
  <2>1. s \in NodeState
    BY <1>4, NodeType, SaveQChanEffect
  <2>2. SaveQChan(nd[n], q).dual = nd[n].dual /\ SaveQChan(nd[n], q).built = nd[n].built
    BY NodeType DEF SaveQChan, NodeState
  <2> QED BY <2>1, <2>2
<1>7. Becomes(n, s) /\ DualKept(n, s)
  BY <1>6 DEF Becomes, DualKept
<1>8. \/ Consume(n)
      \/ \E u \in {"ChanAck", "DualChanAck"} :
           Reply(n, [type |-> u, op |-> q.op, sig |-> SignState(q)])
  BY <1>5
<1>9. s.db = SaveQChan(nd[n], q).db /\ s.chanMap = SaveQChan(nd[n], q).chanMap
  OBVIOUS
<1> HIDE DEF s
<1> QED BY <1>1, <1>2, <1>3, <1>4, <1>5, <1>6, <1>7, <1>8, <1>9, RecipientSaves

LEMMA QChanDescInv ==
  ASSUME Inv, NEW n \in Node, QChanDescHandler(n)
  PROVE  Inv'
  BY DescInv DEF QChanDescHandler

LEMMA DualChanDescInv ==
  ASSUME Inv, NEW n \in Node, DualFundChanDescHandler(n)
  PROVE  Inv'
  BY DescInv DEF DualFundChanDescHandler

(* Failed marks at the most.                                               *)
LEMMA MarkStep ==
  ASSUME Inv, NEW n \in Node, NEW s, Becomes(n, s), DualKept(n, s), Traffic(n),
         DOMAIN s.db = DOMAIN nd[n].db,
         \A op \in DOMAIN nd[n].db :
            SameChannel(nd[n].db[op], s.db[op]) /\ s.db[op].sig = nd[n].db[op].sig,
         s.built = nd[n].built, s.chanMap = nd[n].chanMap, UNCHANGED chain
  PROVE  Inv'
<1>1. /\ nd' \in [Node -> NodeState] /\ nd'[n] = s
      /\ nd'[Peer(n)] = nd[Peer(n)] /\ Node = {n, Peer(n)}
  BY BecomesEffect DEF Inv
<1>2. ASSUME NEW k \in Node
      PROVE  /\ nd'[k].built = nd[k].built /\ DOMAIN nd'[k].db = DOMAIN nd[k].db
             /\ \A op \in DOMAIN nd[k].db :
                  SameChannel(nd[k].db[op], nd'[k].db[op]) /\ nd'[k].db[op].sig = nd[k].db[op].sig
  <2>1. CASE k = n
    BY <1>1, <2>1
  <2>2. CASE k = Peer(n)
    BY <1>1, <2>2 DEF SameChannel
  <2> QED BY <1>1, <2>1, <2>2
<1>3. Keeps /\ Records' /\ Broadcast'
  BY <1>1, <1>2, RecordsStay
<1>4. IsFiniteSet(DOMAIN s.chanMap) /\ chain' \in SUBSET Outpoint
  BY DEF Inv, Types
<1> QED BY <1>3, <1>4, Assemble

LEMMA FailInv ==
  ASSUME Inv, NEW n \in Node, NEW op, nd' = [nd EXCEPT ![n] = FailChannel(nd[n], op)],
         UNCHANGED chain, Traffic(n)
  PROVE  Inv'
<1> DEFINE s == FailChannel(nd[n], op)
<1>1. nd[n] \in NodeState
  BY NodeType
<1>2. /\ s \in NodeState /\ DOMAIN s.db = DOMAIN nd[n].db
      /\ \A x \in DOMAIN nd[n].db : SameChannel(nd[n].db[x], s.db[x]) /\ s.db[x].sig = nd[n].db[x].sig
  BY <1>1, FailChannelEffect
<1>3. s.built = nd[n].built /\ s.chanMap = nd[n].chanMap /\ s.dual = nd[n].dual
  BY <1>1 DEF FailChannel, NodeState
<1>4. Becomes(n, s) /\ DualKept(n, s)
  BY <1>2, <1>3 DEF Becomes, DualKept
<1> HIDE DEF s
<1> QED BY <1>2, <1>3, <1>4, MarkStep

LEMMA QChanAckFailsInv ==
  ASSUME Inv, NEW n \in Node, QChanAckFails(n)
  PROVE  Inv'
<1>1. nd' = [nd EXCEPT ![n] = FailChannel(nd[n], Msg(n).op)] /\ UNCHANGED chain
  BY DEF QChanAckFails
<1>2. Traffic(n)
  BY DEF QChanAckFails, Gets, Traffic
<1> QED BY <1>1, <1>2, FailInv

(* The signature of the first message is verified and saved; the builder   *)
(* answers with its own.                                                   *)
LEMMA SignedInv ==
  ASSUME Inv, NEW n \in Node, NEW op \in DOMAIN nd[n].db, NEW sig \in Sig,
         VerifySigs(nd[n].db[op], sig), op.by # n => sig = BuilderSig(op),
         NEW s, Becomes(n, s), DualKept(n, s),
         s.db = SaveQchanState(nd[n], op, sig).db,
         s.built = nd[n].built, s.chanMap = nd[n].chanMap,
         \/ chain' = chain
         \/ op.by = n /\ Sound(op) /\ chain' = chain \cup {op},
         net[n] # <<>>,
         \/ Consume(n)
         \/ op.by = n /\ Sound(op) /\ Reply(n, [type |-> "SigProof", op |-> op, sig |-> SignState(s.db[op])])
  PROVE  Inv'
<1>1. /\ nd' \in [Node -> NodeState] /\ nd'[n] = s /\ Untouched(Peer(n))
  BY BecomesEffect DEF Inv, Untouched
<1>2. Keeps /\ Records' /\ Broadcast'
  BY <1>1, SignStays
<1>3. op \in Outpoint /\ DOMAIN s.db = DOMAIN nd[n].db /\ s.db[op] \in Record
  <2>1. nd[n] \in NodeState /\ s \in NodeState
    BY NodeType DEF Becomes
  <2>2. DOMAIN SaveQchanState(nd[n], op, sig).db = DOMAIN nd[n].db
    BY <2>1, SaveQchanStateEffect
  <2> QED BY <2>1, <2>2, DatabaseEntry
<1>4. IsFiniteSet(DOMAIN s.chanMap) /\ chain' \in SUBSET Outpoint
  BY <1>3 DEF Inv, Types
<1>5. Traffic(n)
  <2>1. CASE Consume(n)
    BY <2>1 DEF Traffic
  <2> DEFINE m == [type |-> "SigProof", op |-> op, sig |-> SignState(s.db[op])]
  <2>2. CASE op.by = n /\ Sound(op) /\ Reply(n, m)
    <3>1. m \in Message
      BY <1>3, SignType DEF Message
    <3>2. Sound(op)' /\ BuilderSig(op)' = SignState(s.db[op])
      BY <1>1, <1>2, <1>3, <2>2, SoundStays DEF Inv, BuilderSig
    <3>3. Fits(Peer(n), m)'
      <4>1. m.type = "SigProof" /\ m.op = op /\ m.sig = SignState(s.db[op])
        OBVIOUS
      <4> HIDE DEF m
      <4> QED BY <2>2, <3>2, <4>1, Peers DEF Fits
    <3> QED BY <2>2, <3>1, <3>3 DEF Traffic
  <2> QED BY <2>1, <2>2
<1> QED BY <1>2, <1>4, <1>5, Assemble

(* What an acknowledgement or a proof says.                                *)
LEMMA SignedMessage ==
  ASSUME Inv, NEW n \in Node, net[n] # <<>>, Msg(n).type \in {"ChanAck", "DualChanAck", "SigProof"}
  PROVE  /\ Msg(n).sig \in Sig /\ Msg(n).op \in Outpoint /\ Sound(Msg(n).op)
         /\ Msg(n).type # "SigProof" => Msg(n).op.by = n
         /\ Msg(n).type = "SigProof" => Msg(n).op.by = Peer(n) /\ Msg(n).sig = BuilderSig(Msg(n).op)
<1>1. Msg(n) \in Message /\ Fits(n, Msg(n))
  BY First DEF Inv
<1> QED BY <1>1 DEF Message, Fits

(* The rest of the node when a signature is saved.                         *)
LEMMA SaveQchanStateRest ==
  ASSUME Inv, NEW n \in Node, NEW op, NEW sig \in Sig
  PROVE  LET s == SaveQchanState(nd[n], op, sig) IN
           /\ s \in NodeState /\ s.built = nd[n].built /\ s.chanMap = nd[n].chanMap
           /\ s.dual = nd[n].dual /\ s.done = nd[n].done /\ s.doneDual = nd[n].doneDual
<1>1. nd[n] \in NodeState
  BY NodeType
<1>2. SaveQchanState(nd[n], op, sig) \in NodeState
  BY <1>1, SaveQchanStateEffect
<1> QED BY <1>1, <1>2 DEF SaveQchanState, NodeState

LEMMA QChanAckInv ==
  ASSUME Inv, NEW n \in Node, QChanAckHandler(n)
  PROVE  Inv'
<1> DEFINE op == Msg(n).op
           sig == Msg(n).sig
           t == SaveQchanState(nd[n], op, sig)
           s == [t EXCEPT !.done = Append(@, t.db[op].idx), !.inProg = NoFund]
<1>1. net[n] # <<>> /\ Msg(n).type = "ChanAck" /\ op \in DOMAIN nd[n].db /\ VerifySigs(nd[n].db[op], sig)
  BY DEF QChanAckHandler, Gets, Msg, AckAccepted, Known
<1>2. sig \in Sig /\ op \in Outpoint /\ Sound(op) /\ op.by = n
  BY <1>1, SignedMessage
<1>3. /\ nd' = [nd EXCEPT ![n] = s] /\ chain' = chain \cup {op}
      /\ Reply(n, [type |-> "SigProof", op |-> op, sig |-> SignState(t.db[op])])
  BY DEF QChanAckHandler
<1> HIDE DEF op, sig
<1>4. /\ t \in NodeState /\ t.built = nd[n].built /\ t.chanMap = nd[n].chanMap
      /\ t.dual = nd[n].dual
  BY <1>2, SaveQchanStateRest
<1>5. DOMAIN t.db = DOMAIN nd[n].db /\ t.db[op] \in Record
  <2>1. DOMAIN t.db = DOMAIN nd[n].db
    BY <1>2, NodeType, SaveQchanStateEffect
  <2> HIDE DEF t
  <2> QED BY <1>1, <1>4, <2>1, DatabaseEntry
<1>6. t.db[op].idx \in Nat /\ Append(t.done, t.db[op].idx) \in Seq(Nat)
  BY <1>4, <1>5 DEF Record, NodeState
<1> HIDE DEF t
<1>7. /\ s \in NodeState /\ s.built = nd[n].built /\ s.chanMap = nd[n].chanMap
      /\ s.dual = nd[n].dual /\ s.db = t.db
  BY <1>4, <1>6 DEF NodeState, Draft
<1>8. Becomes(n, s) /\ DualKept(n, s)
  BY <1>3, <1>7 DEF Becomes, DualKept
<1>9. s.db = SaveQchanState(nd[n], op, sig).db
  BY <1>7 DEF t
<1> HIDE DEF s
<1> QED BY <1>1, <1>2, <1>3, <1>7, <1>8, <1>9, SignedInv

(* A proof of an unknown channel changes nothing.                          *)
LEMMA UnknownProof ==
  ASSUME Inv, NEW n \in Node, NEW op, op \notin DOMAIN nd[n].db, NEW sig \in Sig,
         NEW s, Becomes(n, s), DualKept(n, s), Traffic(n), UNCHANGED chain,
         s.db = SaveQchanState(nd[n], op, sig).db,
         s.built = nd[n].built, s.chanMap = nd[n].chanMap
  PROVE  Inv'
<1>1. /\ DOMAIN s.db = DOMAIN nd[n].db
      /\ \A x \in DOMAIN nd[n].db : s.db[x] = nd[n].db[x]
  BY NodeType, SaveQchanStateEffect
<1> QED BY <1>1, MarkStep DEF SameChannel

LEMMA SigProofInv ==
  ASSUME Inv, NEW n \in Node, SigProofHandler(n)
  PROVE  Inv'
<1> DEFINE op == Msg(n).op
           sig == Msg(n).sig
           s == SaveQchanState(nd[n], op, sig)
<1>1. net[n] # <<>> /\ Msg(n).type = "SigProof" /\ Consume(n) /\ UNCHANGED chain /\ Traffic(n)
  BY DEF SigProofHandler, Gets, Msg, Traffic
<1>2. sig \in Sig /\ op.by # n /\ sig = BuilderSig(op)
  BY <1>1, SignedMessage, Peers
<1>3. nd' = [nd EXCEPT ![n] = IF VerifySigs(nd[n].db[op], sig) THEN s ELSE FailChannel(nd[n], op)]
  BY DEF SigProofHandler
<1> HIDE DEF op, sig
<1>4. CASE ~VerifySigs(nd[n].db[op], sig)
  <2>1. nd' = [nd EXCEPT ![n] = FailChannel(nd[n], op)]
    BY <1>3, <1>4
  <2> QED BY <1>1, <2>1, FailInv
<1>5. CASE VerifySigs(nd[n].db[op], sig)
  <2>1. s \in NodeState /\ s.built = nd[n].built /\ s.chanMap = nd[n].chanMap /\ s.dual = nd[n].dual
    BY <1>2, SaveQchanStateRest
  <2>2. Becomes(n, s) /\ DualKept(n, s)
    BY <1>3, <1>5, <2>1 DEF Becomes, DualKept
  <2>3. s.db = SaveQchanState(nd[n], op, sig).db
    OBVIOUS
  <2> HIDE DEF s
  <2>4. CASE op \in DOMAIN nd[n].db
    BY <1>1, <1>2, <1>5, <2>1, <2>2, <2>3, <2>4, SignedInv
  <2>5. CASE op \notin DOMAIN nd[n].db
    BY <1>1, <1>2, <2>1, <2>2, <2>3, <2>5, UnknownProof
  <2> QED BY <2>4, <2>5
<1> QED BY <1>4, <1>5

-----------------------------------------------------------------------------
(* Dual funding.                                                           *)

LEMMA DualFundChannelInv ==
  ASSUME Inv, NEW n \in Node, DualFundChannel(n)
  PROVE  Inv'
<1> DEFINE i == NextChannelIdx(n)
           d == [ChanIdx |-> i, init |-> TRUE, bases |-> FALSE, mine |-> UsePub(n, i), theirs |-> NoKey]
           c == nd[n].calls + 1
           s == [nd[n] EXCEPT !.calls = c, !.waitingDual = TRUE, !.dual = d]
<1>1. i \in Nat /\ UsePub(n, i) \in Key
  BY NextKey DEF Inv
<1>2. d \in DualDraft /\ ~d.bases
  BY <1>1 DEF DualDraft, AnyKey
<1>3. nd[n] \in NodeState /\ c \in Nat
  BY NodeType DEF NodeState
<1>4. nd' = [nd EXCEPT ![n] = s] /\ Send(n, [type |-> "DualReq", key |-> UsePub(n, i)]) /\ UNCHANGED chain
  BY NodeType DEF DualFundChannel
<1>5. Traffic(n)
  BY <1>1, <1>4, MessageSent DEF Traffic
<1> HIDE DEF d, c
<1>6. s \in NodeState /\ s.db = nd[n].db /\ s.built = nd[n].built /\ s.chanMap = nd[n].chanMap /\ s.dual = d
  BY <1>2, <1>3 DEF NodeState
<1>7. Becomes(n, s) /\ DualKept(n, s)
  BY <1>2, <1>4, <1>6 DEF Becomes, DualKept
<1> QED BY <1>4, <1>5, <1>6, <1>7, LocalStep

LEMMA DualFundChannelFailsInv ==
  ASSUME Inv, NEW n \in Node, DualFundChannelFails(n)
  PROVE  Inv'
<1> DEFINE c == nd[n].calls + 1
           s == [nd[n] EXCEPT !.calls = c, !.locked = TRUE]
<1>1. nd[n] \in NodeState /\ c \in Nat
  BY NodeType DEF NodeState
<1>2. nd' = [nd EXCEPT ![n] = s] /\ UNCHANGED chain /\ Traffic(n)
  BY NodeType DEF DualFundChannelFails, Traffic
<1> HIDE DEF c
<1>3. s \in NodeState /\ s.db = nd[n].db /\ s.built = nd[n].built /\ s.chanMap = nd[n].chanMap
      /\ s.dual = nd[n].dual
  BY <1>1 DEF NodeState
<1>4. Becomes(n, s) /\ DualKept(n, s)
  BY <1>2, <1>3 DEF Becomes, DualKept
<1> QED BY <1>2, <1>3, <1>4, LocalStep

LEMMA DualFundReturnsInv ==
  ASSUME Inv, NEW n \in Node, DualFundReturns(n)
  PROVE  Inv'
<1> DEFINE R == {"accepted", "declined"}
           t == Tail(nd[n].doneDual)
           s == [nd[n] EXCEPT !.waitingDual = FALSE, !.doneDual = t]
<1>1. nd[n] \in NodeState /\ nd[n].doneDual \in Seq(R) /\ nd[n].doneDual # <<>>
  BY NodeType DEF NodeState, DualFundReturns
<1> HIDE DEF R
<1>2. t \in Seq(R)
  BY <1>1
<1>3. nd' = [nd EXCEPT ![n] = s] /\ UNCHANGED chain /\ Traffic(n)
  BY NodeType DEF DualFundReturns, Traffic
<1> HIDE DEF t
<1>4. s \in NodeState /\ s.db = nd[n].db /\ s.built = nd[n].built /\ s.chanMap = nd[n].chanMap
      /\ s.dual = nd[n].dual
  BY <1>1, <1>2 DEF NodeState, R
<1>5. Becomes(n, s) /\ DualKept(n, s)
  BY <1>3, <1>4 DEF Becomes, DualKept
<1> QED BY <1>3, <1>4, <1>5, LocalStep

LEMMA DualFundDeclineInv ==
  ASSUME Inv, NEW n \in Node, DualFundDecline(n)
  PROVE  Inv'
<1> DEFINE s == [nd[n] EXCEPT !.dual = NoDual]
<1>1. nd' = [nd EXCEPT ![n] = s] /\ UNCHANGED chain
  BY DEF DualFundDecline
<1>2. Traffic(n)
  BY MessageSent DEF DualFundDecline, Traffic
<1>3. s \in NodeState /\ s.db = nd[n].db /\ s.built = nd[n].built /\ s.chanMap = nd[n].chanMap
      /\ s.dual = NoDual
  BY NodeType DEF NodeState, DualDraft
<1>4. Becomes(n, s) /\ DualKept(n, s)
  BY <1>1, <1>3 DEF Becomes, DualKept
<1> QED BY <1>1, <1>2, <1>3, <1>4, LocalStep

(* The draft that is under way.                                            *)
LEMMA DraftFields ==
  ASSUME NEW d \in DualDraft, d # NoDual
  PROVE  /\ d \in [ChanIdx : Nat, init : BOOLEAN, bases : BOOLEAN, mine : AnyKey, theirs : AnyKey]
         /\ d.ChanIdx \in Nat /\ d.bases \in BOOLEAN /\ d.mine \in AnyKey
  BY DEF DualDraft

LEMMA DualFundAcceptInv ==
  ASSUME Inv, NEW n \in Node, DualFundAccept(n)
  PROVE  Inv'
<1> DEFINE d == nd[n].dual
           k == UsePub(n, d.ChanIdx)
           e == [d EXCEPT !.mine = k, !.bases = TRUE]
           s == [nd[n] EXCEPT !.waitingDual = TRUE, !.dual = e]
<1>1. d \in DualDraft /\ d # NoDual /\ nd[n] \in NodeState
  BY NodeType DEF DualFundAccept, Asked, NodeState
<1>2. d \in [ChanIdx : Nat, init : BOOLEAN, bases : BOOLEAN, mine : AnyKey, theirs : AnyKey]
      /\ d.ChanIdx \in Nat
  BY <1>1, DraftFields
<1>3. k \in AnyKey
  BY <1>2, OwnKey DEF AnyKey
<1>4. nd' = [nd EXCEPT ![n] = s] /\ Send(n, [type |-> "DualAccept", key |-> k]) /\ UNCHANGED chain
  BY NodeType DEF DualFundAccept
<1>5. Traffic(n)
  BY <1>2, <1>4, MessageSent DEF Traffic
<1>6. e \in DualDraft /\ e.mine = UsePub(n, e.ChanIdx)
  <2>1. e.mine = k /\ e.ChanIdx = d.ChanIdx
    BY <1>2
  <2> HIDE DEF k
  <2>2. e \in DualDraft
    BY <1>2, <1>3 DEF DualDraft
  <2> QED BY <2>1, <2>2 DEF k
<1> HIDE DEF e
<1>7. s \in NodeState /\ s.db = nd[n].db /\ s.built = nd[n].built /\ s.chanMap = nd[n].chanMap
      /\ s.dual = e
  BY <1>1, <1>6 DEF NodeState
<1>8. Becomes(n, s) /\ DualKept(n, s)
  BY <1>4, <1>6, <1>7 DEF Becomes, DualKept
<1> QED BY <1>4, <1>5, <1>7, <1>8, LocalStep

LEMMA DualFundingReqInv ==
  ASSUME Inv, NEW n \in Node, DualFundingReqHandler(n)
  PROVE  Inv'
<1>1. net[n] # <<>> /\ Msg(n) \in Message /\ Msg(n).type = "DualReq" /\ UNCHANGED chain
  BY First DEF Inv, DualFundingReqHandler, Gets, Msg
<1> DEFINE i == NextChannelIdx(n)
           d == [ChanIdx |-> i, init |-> FALSE, bases |-> FALSE, mine |-> NoKey, theirs |-> Msg(n).key]
           s == [nd[n] EXCEPT !.dual = d]
<1>2. CASE nd' = [nd EXCEPT ![n] = s] /\ Consume(n)
  <2>1. i \in Nat /\ Msg(n).key \in Key
    BY <1>1, NextKey DEF Inv, Message
  <2>2. d \in DualDraft /\ ~d.bases
    BY <2>1 DEF DualDraft, AnyKey
  <2> HIDE DEF d
  <2>3. s \in NodeState /\ s.db = nd[n].db /\ s.built = nd[n].built /\ s.chanMap = nd[n].chanMap
        /\ s.dual = d
    BY <2>2, NodeType DEF NodeState
  <2>4. Becomes(n, s) /\ DualKept(n, s)
    BY <1>2, <2>2, <2>3 DEF Becomes, DualKept
  <2>5. Traffic(n)
    BY <1>1, <1>2 DEF Traffic
  <2> QED BY <1>1, <2>3, <2>4, <2>5, LocalStep
<1>3. CASE Reply(n, [type |-> "DualDecl"]) /\ UNCHANGED nd
  <2>1. Traffic(n)
    BY <1>1, <1>3, MessageSent DEF Traffic
  <2> QED BY <1>1, <1>3, <2>1, TrafficOnly
<1> QED BY <1>2, <1>3 DEF DualFundingReqHandler

LEMMA HangEffect ==
  ASSUME NEW s \in NodeState
  PROVE  /\ Hang(s) \in NodeState /\ Hang(s).db = s.db /\ Hang(s).built = s.built
         /\ Hang(s).chanMap = s.chanMap /\ Hang(s).dual = s.dual
  BY DEF Hang, NodeState

LEMMA FinishEffect ==
  ASSUME NEW s \in NodeState, NEW result \in {"accepted", "declined"}
  PROVE  /\ Finish(s, result) \in NodeState /\ Finish(s, result).db = s.db
         /\ Finish(s, result).built = s.built
         /\ Finish(s, result).chanMap = s.chanMap /\ Finish(s, result).dual = NoDual
<1> DEFINE R == {"accepted", "declined"}
           t == Append(s.doneDual, result)
<1>1. s.doneDual \in Seq(R)
  BY DEF NodeState
<1>2. result \in R
  OBVIOUS
<1> HIDE DEF R
<1>3. t \in Seq(R)
  BY <1>1, <1>2
<1> HIDE DEF t
<1>4. LET f == [s EXCEPT !.doneDual = t, !.dual = NoDual] IN
        f \in NodeState /\ f.db = s.db /\ f.built = s.built /\ f.chanMap = s.chanMap /\ f.dual = NoDual
  BY <1>3 DEF NodeState, DualDraft, R
<1> QED BY <1>4 DEF Finish, t

LEMMA HangInv ==
  ASSUME Inv, NEW n \in Node, nd' = [nd EXCEPT ![n] = Hang(nd[n])], UNCHANGED chain, Traffic(n)
  PROVE  Inv'
<1> DEFINE s == Hang(nd[n])
<1>1. /\ s \in NodeState /\ s.db = nd[n].db /\ s.built = nd[n].built
      /\ s.chanMap = nd[n].chanMap /\ s.dual = nd[n].dual
  BY NodeType, HangEffect
<1>2. Becomes(n, s) /\ DualKept(n, s)
  BY <1>1 DEF Becomes, DualKept
<1> HIDE DEF s
<1> QED BY <1>1, <1>2, LocalStep

LEMMA DualFundingReqDeadlockInv ==
  ASSUME Inv, NEW n \in Node, DualFundingReqDeadlock(n)
  PROVE  Inv'
<1>1. nd' = [nd EXCEPT ![n] = Hang(nd[n])] /\ UNCHANGED chain
  BY NodeType DEF DualFundingReqDeadlock, Hang
<1>2. Traffic(n)
  BY MessageSent DEF DualFundingReqDeadlock, Gets, Traffic
<1> QED BY <1>1, <1>2, HangInv

LEMMA DualLockTakenInv ==
  ASSUME Inv, NEW n \in Node, DualLockTaken(n)
  PROVE  Inv'
  BY HangInv DEF DualLockTaken, Gets, Traffic

LEMMA DualFundingDeclInv ==
  ASSUME Inv, NEW n \in Node, DualFundingDeclHandler(n)
  PROVE  Inv'
<1>1. UNCHANGED chain /\ Traffic(n)
  BY DEF DualFundingDeclHandler, Gets, Traffic
<1>2. CASE HangsAt(n)
  BY <1>1, <1>2, HangInv DEF DualFundingDeclHandler
<1>3. CASE ~HangsAt(n)
  <2> DEFINE s == Finish(nd[n], "declined")
  <2>1. nd' = [nd EXCEPT ![n] = s]
    BY <1>3 DEF DualFundingDeclHandler
  <2>2. /\ s \in NodeState /\ s.db = nd[n].db /\ s.built = nd[n].built
        /\ s.chanMap = nd[n].chanMap /\ s.dual = NoDual
    BY NodeType, FinishEffect
  <2>3. Becomes(n, s) /\ DualKept(n, s)
    BY <2>1, <2>2 DEF Becomes, DualKept
  <2> HIDE DEF s
  <2> QED BY <1>1, <2>2, <2>3, LocalStep
<1> QED BY <1>2, <1>3

LEMMA DualFundingAcceptInv ==
  ASSUME Inv, NEW n \in Node, DualFundingAcceptHandler(n)
  PROVE  Inv'
<1> DEFINE d == nd[n].dual
           key == Msg(n).key
           mine == UsePub(n, d.ChanIdx)
           op == BuildDualFundingTransaction(n, d, key)
           q == Qchan(op, d.ChanIdx, mine, key, 2 * DualAmt, DualAmt)
           b == nd[n].built + 1
           s == [SaveQChan(nd[n], q) EXCEPT !.built = b, !.dual.theirs = key]
           m == [type |-> "ChanDesc", op |-> op, key |-> mine, bases |-> d.bases,
                 value |-> 2 * DualAmt, init |-> DualAmt]
<1>1. /\ net[n] # <<>> /\ Msg(n) \in Message /\ Msg(n).type = "DualAccept" /\ Fits(n, Msg(n))
      /\ UNCHANGED chain
  BY First DEF Inv, DualFundingAcceptHandler, Gets, Msg
<1>2. key \in Key /\ key.node = Peer(n)
  BY <1>1 DEF Message, Fits
<1>3. d \in DualDraft /\ d # NoDual /\ b \in Nat
  BY NodeType DEF DualFundingAcceptHandler, SingleFunding, NodeState
<1>4. /\ d \in [ChanIdx : Nat, init : BOOLEAN, bases : BOOLEAN, mine : AnyKey, theirs : AnyKey]
      /\ d.ChanIdx \in Nat /\ d.bases \in BOOLEAN /\ d.mine \in AnyKey
  BY <1>3, DraftFields
<1>5. mine \in Key /\ mine.node = n /\ (d.bases => d.mine = mine)
  BY <1>3, <1>4, OwnKey DEF Inv, Drafts
<1>6. op \in Outpoint /\ op.by = n /\ op.serial = b /\ op.script = {d.mine, key}
  <2>1. {d.mine, key} \in SUBSET AnyKey
    BY <1>2, <1>4 DEF AnyKey
  <2>2. op = [by |-> n, serial |-> b, script |-> {d.mine, key}]
    BY DEF BuildDualFundingTransaction
  <2> QED BY <1>3, <2>1, <2>2 DEF Outpoint
<1>7. 2 * DualAmt \in Int /\ DualAmt \in Int
  BY FundAssumption
<1>8. q \in Record
  BY <1>2, <1>4, <1>5, <1>6, <1>7, QchanType
<1>9. m \in Message
  BY <1>4, <1>5, <1>6, <1>7 DEF Message
<1>10. q.sig = NoSig /\ q.mine = mine /\ q.theirs = key /\ q.op = op
  BY DEF Qchan
<1>11. m.type = "ChanDesc" /\ m.op = op /\ m.key = mine /\ m.bases = d.bases
  OBVIOUS
<1>12. nd' = [nd EXCEPT ![n] = s] /\ Reply(n, m)
  BY DEF DualFundingAcceptHandler
<1>13. d = nd[n].dual
  OBVIOUS
<1> HIDE DEF d, key, mine, op, q, m
<1>14. SaveQChan(nd[n], q) \in NodeState /\ SaveQChan(nd[n], q).dual = d
  <2>1. SaveQChan(nd[n], q) \in NodeState
    BY <1>8, NodeType, SaveQChanEffect
  <2>2. SaveQChan(nd[n], q).dual = nd[n].dual
    BY NodeType DEF SaveQChan, NodeState
  <2> QED BY <1>13, <2>1, <2>2
<1>15. LET e == [d EXCEPT !.theirs = key] IN
         /\ e \in DualDraft /\ e.bases = d.bases /\ e.mine = d.mine /\ e.ChanIdx = d.ChanIdx
         /\ s = [SaveQChan(nd[n], q) EXCEPT !.built = b, !.dual = e]
  <2>1. key \in AnyKey
    BY <1>2 DEF AnyKey
  <2>2. LET e == [d EXCEPT !.theirs = key] IN
          e \in DualDraft /\ e.bases = d.bases /\ e.mine = d.mine /\ e.ChanIdx = d.ChanIdx
    BY <1>4, <2>1 DEF DualDraft
  <2>3. s = [SaveQChan(nd[n], q) EXCEPT !.built = b, !.dual = [d EXCEPT !.theirs = key]]
    BY <1>14 DEF NodeState
  <2> QED BY <2>2, <2>3
<1> DEFINE e == [d EXCEPT !.theirs = key]
<1>16. /\ s \in NodeState /\ s.db = SaveQChan(nd[n], q).db /\ s.built = b
       /\ s.chanMap = SaveQChan(nd[n], q).chanMap /\ s.dual = e
  <2>1. e \in DualDraft /\ s = [SaveQChan(nd[n], q) EXCEPT !.built = b, !.dual = e]
    BY <1>15
  <2> HIDE DEF b, e, s
  <2> QED BY <1>3, <1>14, <2>1 DEF NodeState
<1>17. Becomes(n, s)
  BY <1>12, <1>16 DEF Becomes
<1>18. DualKept(n, s)
  <2>1. s.dual = e /\ e.bases = d.bases /\ e.mine = d.mine /\ e.ChanIdx = d.ChanIdx
    BY <1>15, <1>16
  <2>2. d.bases => d.mine = UsePub(n, d.ChanIdx)
    BY <1>5 DEF mine
  <2> HIDE DEF s, e
  <2> QED BY <2>1, <2>2 DEF DualKept
<1>19. m.bases => q.op.script = {q.mine, q.theirs}
  BY <1>5, <1>6, <1>10, <1>11
<1> HIDE DEF s, e
<1> QED BY <1>1, <1>2, <1>5, <1>6, <1>8, <1>9, <1>10, <1>11, <1>12, <1>16, <1>17, <1>18, <1>19,
           BuilderSaves DEF b

LEMMA DualFundChanAckInv ==
  ASSUME Inv, NEW n \in Node, DualFundChanAckHandler(n)
  PROVE  Inv'
<1> DEFINE op == Msg(n).op
           sig == Msg(n).sig
           t == SaveQchanState(nd[n], op, sig)
<1>1. net[n] # <<>> /\ Msg(n).type = "DualChanAck"
  BY DEF DualFundChanAckHandler, Gets, Msg
<1>2. sig \in Sig /\ op \in Outpoint /\ Sound(op) /\ op.by = n
  BY <1>1, SignedMessage
<1>3. CASE ~AckAccepted(n, op, sig)
  <2>1. Traffic(n) /\ UNCHANGED <<nd, chain>>
    BY <1>1, <1>3 DEF DualFundChanAckHandler, Traffic
  <2> QED BY <2>1, TrafficOnly
<1>4. CASE AckAccepted(n, op, sig)
  <2>1. op \in DOMAIN nd[n].db /\ VerifySigs(nd[n].db[op], sig)
    BY <1>4 DEF AckAccepted, Known
  <2>2. \/ chain' = chain
        \/ chain' = chain \cup {op}
    BY <1>4 DEF DualFundChanAckHandler
  <2>3. \/ nd' = [nd EXCEPT ![n] = Hang(t)] /\ Consume(n)
        \/ /\ nd' = [nd EXCEPT ![n] = Finish(t, "accepted")]
           /\ Reply(n, [type |-> "SigProof", op |-> op, sig |-> SignState(t.db[op])])
    BY <1>4 DEF DualFundChanAckHandler
  <2> HIDE DEF op, sig
  <2>4. /\ t \in NodeState /\ t.built = nd[n].built /\ t.chanMap = nd[n].chanMap
        /\ t.dual = nd[n].dual
    BY <1>2, SaveQchanStateRest
  <2>5. t.db = SaveQchanState(nd[n], op, sig).db
    OBVIOUS
  <2> HIDE DEF t
  <2>6. CASE nd' = [nd EXCEPT ![n] = Hang(t)] /\ Consume(n)
    <3> DEFINE s == Hang(t)
    <3>1. /\ s \in NodeState /\ s.db = t.db /\ s.built = nd[n].built
          /\ s.chanMap = nd[n].chanMap /\ s.dual = nd[n].dual
      BY <2>4, HangEffect
    <3>2. Becomes(n, s) /\ DualKept(n, s)
      BY <2>6, <3>1 DEF Becomes, DualKept
    <3> HIDE DEF s
    <3> QED BY <1>1, <1>2, <2>1, <2>2, <2>5, <2>6, <3>1, <3>2, SignedInv
  <2>7. CASE /\ nd' = [nd EXCEPT ![n] = Finish(t, "accepted")]
             /\ Reply(n, [type |-> "SigProof", op |-> op, sig |-> SignState(t.db[op])])
    <3> DEFINE s == Finish(t, "accepted")
    <3>1. /\ s \in NodeState /\ s.db = t.db /\ s.built = nd[n].built
          /\ s.chanMap = nd[n].chanMap /\ s.dual = NoDual
      BY <2>4, FinishEffect
    <3>2. Becomes(n, s) /\ DualKept(n, s)
      BY <2>7, <3>1 DEF Becomes, DualKept
    <3> HIDE DEF s
    <3> QED BY <1>1, <1>2, <2>1, <2>2, <2>5, <2>7, <3>1, <3>2, SignedInv
  <2> QED BY <2>3, <2>6, <2>7
<1> QED BY <1>3, <1>4

LEMMA DualFundSigProofInv ==
  ASSUME Inv, NEW n \in Node, DualFundSigProofHandler(n)
  PROVE  Inv'
<1> DEFINE op == Msg(n).op
           sig == Msg(n).sig
           t == SaveQchanState(nd[n], op, sig)
<1>1. net[n] # <<>> /\ Msg(n).type = "SigProof" /\ Consume(n) /\ UNCHANGED chain /\ Traffic(n)
  BY DEF DualFundSigProofHandler, Gets, Msg, Traffic
<1>2. sig \in Sig /\ op.by # n /\ sig = BuilderSig(op)
  BY <1>1, SignedMessage, Peers
<1>3. nd' = [nd EXCEPT ![n] =
               IF ~(Known(n, op) /\ VerifySigs(nd[n].db[op], sig)) THEN nd[n]
               ELSE IF HangsAt(n) THEN Hang(t) ELSE Finish(t, "accepted")]
  BY DEF DualFundSigProofHandler
<1> HIDE DEF op, sig
<1>4. CASE ~(Known(n, op) /\ VerifySigs(nd[n].db[op], sig))
  <2>1. UNCHANGED nd
    BY <1>3, <1>4, NodeType
  <2> QED BY <1>1, <2>1, TrafficOnly
<1>5. CASE Known(n, op) /\ VerifySigs(nd[n].db[op], sig)
  <2>1. /\ t \in NodeState /\ t.built = nd[n].built /\ t.chanMap = nd[n].chanMap
        /\ t.dual = nd[n].dual
    BY <1>2, SaveQchanStateRest
  <2>2. t.db = SaveQchanState(nd[n], op, sig).db /\ op \in DOMAIN nd[n].db
    BY <1>5 DEF Known
  <2> HIDE DEF t
  <2>3. PICK s \in {Hang(t), Finish(t, "accepted")} : nd' = [nd EXCEPT ![n] = s]
    BY <1>3, <1>5
  <2>4. /\ s \in NodeState /\ s.db = t.db /\ s.built = nd[n].built
        /\ s.chanMap = nd[n].chanMap /\ s.dual \in {NoDual, nd[n].dual}
    BY <2>1, <2>3, HangEffect, FinishEffect
  <2>5. Becomes(n, s) /\ DualKept(n, s)
    BY <2>3, <2>4 DEF Becomes, DualKept
  <2> QED BY <1>1, <1>2, <1>5, <2>2, <2>4, <2>5, SignedInv
<1> QED BY <1>4, <1>5

-----------------------------------------------------------------------------
(* Lost connections and restarts.                                          *)

(* What was on its way is lost, no database and no number changes, and a   *)
(* dual funding is kept or forgotten.                                      *)
LEMMA BreakInv ==
  ASSUME Inv, nd' \in [Node -> NodeState], net' = [k \in Node |-> <<>>], UNCHANGED chain,
         \A k \in Node :
           /\ nd'[k].db = nd[k].db /\ nd'[k].built = nd[k].built /\ nd'[k].chanMap = nd[k].chanMap
           /\ nd'[k].dual \in {NoDual, nd[k].dual}
  PROVE  Inv'
<1>1. Keeps /\ Records' /\ Broadcast'
  BY RecordsStay DEF SameChannel
<1>2. net' \in [Node -> Seq(Message)] /\ Wire'
  <2>1. A \in Node
    BY DEF Node
  <2> QED BY <1>1, <2>1, Quiet DEF Inv
<1>3. Types'
  BY <1>2 DEF Inv, Types
<1>4. Drafts'
  BY DEF Inv, Drafts, UsePub
<1> QED BY <1>1, <1>2, <1>3, <1>4 DEF Inv

LEMMA ReconnectInv ==
  ASSUME Inv, Reconnect
  PROVE  Inv'
<1> DEFINE s(k) == [nd[k] EXCEPT !.blocked = FALSE]
<1>1. ASSUME NEW k \in Node
      PROVE  s(k) \in NodeState /\ s(k).db = nd[k].db /\ s(k).built = nd[k].built
             /\ s(k).chanMap = nd[k].chanMap /\ s(k).dual = nd[k].dual
  BY NodeType DEF NodeState
<1>2. nd' = [k \in Node |-> s(k)] /\ net' = [k \in Node |-> <<>>] /\ UNCHANGED chain
  BY DEF Reconnect
<1> HIDE DEF s
<1> QED BY <1>1, <1>2, BreakInv

LEMMA RestartInv ==
  ASSUME Inv, NEW n \in Node, Restart(n)
  PROVE  Inv'
<1> DEFINE s(k) == IF k = n
                   THEN [nd[k] EXCEPT !.inProg = NoFund, !.done = <<>>, !.waiting = FALSE,
                                      !.dual = NoDual, !.doneDual = <<>>, !.waitingDual = FALSE,
                                      !.locked = FALSE, !.blocked = FALSE]
                   ELSE [nd[k] EXCEPT !.blocked = FALSE]
<1>1. ASSUME NEW k \in Node
      PROVE  s(k) \in NodeState /\ s(k).db = nd[k].db /\ s(k).built = nd[k].built
             /\ s(k).chanMap = nd[k].chanMap /\ s(k).dual \in {NoDual, nd[k].dual}
  <2> DEFINE R == {"accepted", "declined"}
             N == Seq(Nat)
             S == Seq(R)
  <2>1. <<>> \in N /\ <<>> \in S /\ NoFund \in Draft /\ NoDual \in DualDraft /\ nd[k] \in NodeState
    BY NodeType DEF Draft, DualDraft
  <2>2. CASE k = n
    <3> HIDE DEF N, S
    <3>1. NodeState =
            [inProg : Draft, done : N, waiting : BOOLEAN,
             dual : DualDraft, doneDual : S, waitingDual : BOOLEAN,
             locked : BOOLEAN, blocked : BOOLEAN, calls : Nat, built : Nat,
             db : Database, chanMap : ChanMap]
      BY Zenon DEF NodeState, N, S, R
    <3> QED BY <2>1, <2>2, <3>1
  <2>3. CASE k # n
    BY <2>3, NodeType DEF NodeState
  <2> QED BY <2>2, <2>3
<1>2. nd' = [k \in Node |-> s(k)] /\ net' = [k \in Node |-> <<>>] /\ UNCHANGED chain
  BY DEF Restart
<1> HIDE DEF s
<1> QED BY <1>1, <1>2, BreakInv

-----------------------------------------------------------------------------
(* Every step keeps the invariant.                                         *)
LEMMA StepInv == Inv /\ [Next]_vars => Inv'
<1> SUFFICES ASSUME Inv, [Next]_vars PROVE Inv'
  OBVIOUS
<1>1. CASE UNCHANGED vars
  <2>1. A \in Node /\ UNCHANGED <<nd, net, chain>>
    BY <1>1 DEF Node, vars
  <2> QED BY <2>1, TrafficOnly DEF Traffic
<1>2. ASSUME NEW n \in Node, NEW ccap \in Caps, NEW initSend \in Sends, FundChannel(n, ccap, initSend)
      PROVE  Inv'
  BY <1>2, FundChannelInv
<1>3. ASSUME NEW n \in Node, SingleStep(n) \/ PointRespDropped(n) PROVE Inv'
  BY <1>3, FundChannelReturnsInv, PointReqInv, PointRespInv, PointRespDroppedInv, QChanDescInv,
     QChanAckInv, QChanAckFailsInv, SigProofInv, Zenon DEF SingleStep
<1>4. ASSUME NEW n \in Node, DualFundChannel(n) \/ DualFundChannelFails(n) \/ DualStep(n) PROVE Inv'
  BY <1>4, DualFundChannelInv, DualFundChannelFailsInv, DualFundReturnsInv, DualFundDeclineInv,
     DualFundAcceptInv, DualFundingReqInv, DualFundingReqDeadlockInv, DualFundingDeclInv,
     DualLockTakenInv, DualFundingAcceptInv, DualChanDescInv, ChannelMsgDroppedInv,
     DualFundChanAckInv, DualFundSigProofInv, Zenon DEF DualStep
<1> QED BY <1>1, <1>2, <1>3, <1>4, RestartInv, ReconnectInv, Zenon DEF Next

(* Every reachable state satisfies the invariant.                          *)
THEOREM Invariance == FundSpec => []Inv
<1>1. Init => Inv
  BY InitInv
<1>2. Inv /\ [Next]_vars => Inv'
  BY StepInv
<1> QED BY <1>1, <1>2, PTL DEF FundSpec

(* The builder of a broadcast funding transaction can always take the      *)
(* money out: QChanAckHandler and its dual version broadcast only with the *)
(* peer's signature saved, and nothing that crosses, is lost or is sent by *)
(* the other kind of funding touches that record afterwards.               *)
THEOREM BroadcastIsRefundable == FundSpec => []FundedRefundable
<1>1. Inv => FundedRefundable
  BY DEF Inv, Broadcast, Sound, Verified, VerifySigs, FundedRefundable
<1> QED BY <1>1, Invariance, PTL

(* Two signed records of one channel mirror each other: the record of the  *)
(* node that did not build the transaction is signed with the very state   *)
(* its builder signed, so SigProofHandler has compared all of it.          *)
THEOREM SignedSidesAgree == FundSpec => []FundAgreement
<1> SUFFICES ASSUME Inv PROVE FundAgreement
  BY Invariance, PTL
<1> SUFFICES ASSUME NEW op \in DOMAIN nd[A].db \cap DOMAIN nd[B].db,
                    nd[A].db[op].sig # NoSig, nd[B].db[op].sig # NoSig
             PROVE  LET a == nd[A].db[op]
                        b == nd[B].db[op]
                    IN  a.mine = b.theirs /\ a.theirs = b.mine /\ a.value = b.value /\ a.amt + b.amt = a.value
  BY DEF FundAgreement
<1>1. ASSUME NEW q \in Record, NEW r \in Record, NEW n \in Node,
             q.mine.node = n, q.theirs.node = Peer(n), r.mine.node = Peer(n), r.theirs.node = n,
             r.op = q.op, r.sig = SignState(q), Verified(r)
      PROVE  q.mine = r.theirs /\ q.theirs = r.mine /\ q.value = r.value /\ q.amt + r.amt = q.value
  <2>1. /\ q.amt \in Int /\ q.value \in Int /\ r.amt \in Int /\ r.value \in Int /\ Peer(n) # n
    BY Peers DEF Record
  <2>2. StateSig(q, q.mine, q.amt, q.value - q.amt) = StateSig(r, r.theirs, r.amt, r.value - r.amt)
    BY <1>1 DEF Verified, VerifySigs, SignState
  <2>3. /\ q.mine = r.theirs /\ {q.mine, q.theirs} = {r.mine, r.theirs}
        /\ {<<q.mine, q.amt>>, <<q.theirs, q.value - q.amt>>}
             = {<<r.mine, r.amt>>, <<r.theirs, r.value - r.amt>>}
    BY <2>2 DEF StateSig
  <2>4. q.theirs = r.mine /\ q.mine # r.mine
    BY <1>1, <2>1, <2>3
  <2>5. q.amt = r.value - r.amt /\ q.value - q.amt = r.amt
    <3> DEFINE x == q.mine
               y == q.theirs
               v == q.value - q.amt
               t == r.value - r.amt
    <3>1. x # y /\ y = r.mine /\ x = r.theirs
      BY <2>3, <2>4
    <3>2. {<<x, q.amt>>, <<y, v>>} = {<<r.mine, r.amt>>, <<r.theirs, t>>}
      BY <2>3
    <3> HIDE DEF x, y, v, t
    <3>3. {<<x, q.amt>>, <<y, v>>} = {<<y, r.amt>>, <<x, t>>}
      BY <3>1, <3>2
    <3>4. /\ <<x, q.amt>> \in {<<y, r.amt>>, <<x, t>>}
          /\ <<y, v>> \in {<<y, r.amt>>, <<x, t>>}
      BY <3>3
    <3>5. q.amt = t /\ v = r.amt
      BY <3>1, <3>4
    <3> QED BY <3>5 DEF v, t
  <2> QED BY <2>1, <2>3, <2>4, <2>5
<1> DEFINE a == nd[A].db[op]
           b == nd[B].db[op]
<1>2. A \in Node /\ B \in Node /\ Peer(A) = B /\ Peer(B) = A /\ A # B
  BY FundAssumption DEF Node, Peer
<1>3. op \in Outpoint /\ a \in Record /\ b \in Record
  BY <1>2, NodeType, DatabaseEntry
<1>4. Consistent(A, op) /\ Consistent(B, op) /\ op.by \in {A, B}
  BY <1>2, <1>3 DEF Inv, Records, Outpoint, Node
<1>5. /\ a.op = op /\ a.mine.node = A /\ a.theirs.node = B /\ Verified(a)
      /\ b.op = op /\ b.mine.node = B /\ b.theirs.node = A /\ Verified(b)
  BY <1>2, <1>4 DEF Consistent
<1>6. CASE op.by = A
  <2>1. b.sig = SignState(a)
    BY <1>2, <1>4, <1>6 DEF Consistent, BuilderSig
  <2> HIDE DEF a, b
  <2>2. a.mine = b.theirs /\ a.theirs = b.mine /\ a.value = b.value /\ a.amt + b.amt = a.value
    BY <1>1, <1>2, <1>3, <1>5, <2>1
  <2> QED BY <2>2 DEF a, b
<1>7. CASE op.by = B
  <2>1. a.sig = SignState(b)
    BY <1>2, <1>4, <1>7 DEF Consistent, BuilderSig
  <2> HIDE DEF a, b
  <2>2. b.mine = a.theirs /\ b.theirs = a.mine /\ b.value = a.value /\ b.amt + a.amt = b.value
    BY <1>1, <1>2, <1>3, <1>5, <2>1
  <2>3. a.amt \in Int /\ b.amt \in Int
    BY <1>3 DEF Record
  <2>4. a.mine = b.theirs /\ a.theirs = b.mine /\ a.value = b.value /\ a.amt + b.amt = a.value
    BY <2>2, <2>3
  <2> QED BY <2>4 DEF a, b
<1> QED BY <1>4, <1>6, <1>7
=============================================================================
