-------------------------------- MODULE Algo --------------------------------
(* The pure algorithms at work: some message is written, travels, and is    *)
(* read; some output is spent; some opcode is compared with its definition; *)
(* some block's transactions are proved; coins are picked; a path is sought. *)
EXTENDS LitMsg, LitScript, Routing, Merkle, Coins

VARIABLES job,    \* what is to be written
          buf,    \* the bytes
          got     \* what the reader made of them
vars == <<job, buf, got>>

PVers == {208, 60000, 70000, 70012}   \* bound: before multiple addresses, around BIP 31 and 37, and the one uspv speaks
Encodings == {"base", "witness"}

JobsOf(kind, msgs) == UNION {{[kind |-> kind, msg |-> x, m |-> m] : m \in MessagesOf(x.put)} : x \in msgs}

\* Text is never empty; a contract that is acknowledged has an outcome.
Sendable(j) ==
    CASE j.msg = ChatMsg -> j.m["Text"] > 0
      [] j.msg = DlcContractAckMsg -> j.m["SettlementSignatures"] > 0
      [] OTHER -> TRUE

WireJobs == UNION {JobsOf("wire", {c \in MakeEmptyMessage(pver, enc) : c.valid}) :
                      pver \in PVers, enc \in Encodings}

-----------------------------------------------------------------------------
\* Spends.  The keys: two for the channel, in either order, one to revoke.
Keys(my, theirs) == [my |-> my, theirs |-> theirs, rev |-> 9, delay |-> 5, locktime |-> 500,
                     R |-> Elem("preimage", <<"R", 16>>)]
KeyOrders == {Keys(1, 2), Keys(2, 1)}

\* What lit itself puts together.
Assembled(k) ==
    {SignBreakTx(k.my, k.theirs), SignP2PKH(k.my), SignP2WPKH(k.my),
     CollectTimeout(k), CollectJustice(k), SignClaimTx(k)}
    \cup {ClaimHTLCOnChain(k, incoming, mine) : incoming \in BOOLEAN, mine \in BOOLEAN}

\* What anyone could: the items at hand in any order, on each kind of output.
\* Only the funding script depends on the order of the keys.
Witnesses(items, script, n) == {w \o <<Script(script)>> : w \in UNION {[1..i -> items] : i \in 0..n}}
Outputs(k) ==
    {[lock |-> "fund", script |-> FundTxScript(k.my, k.theirs)]} \cup
    IF k.my > k.theirs THEN {} ELSE
    {[lock |-> "commit", script |-> CommitScript(k.rev, k.my, k.delay)],
     [lock |-> "offer", script |-> OfferHTLCScript(k.rev, k.theirs, k.R, k.my)],
     [lock |-> "receive", script |-> ReceiveHTLCScript(k.rev, k.theirs, k.R, k.my, k.locktime)]}
Other == Elem("preimage", <<"other", 16>>)
ItemsFor(k, out) ==
    {Nil, SigOf(k.my, out.script), SigOf(k.theirs, out.script), SigOf(k.rev, out.script)}
    \cup CASE out.lock = "fund" -> {Small(<<1>>), SigOf(k.theirs, <<>>)}
           [] out.lock = "commit" -> {Small(<<1>>), Small(<<128>>), Pub(k.rev)}
           [] OTHER -> {Pub(k.rev), k.R, Other}
Fields(k, out) ==      \* lock time and sequence around what the script asks for
    CASE out.lock = "fund" -> {<<0, 0>>}
      [] out.lock = "commit" -> {<<0, k.delay - 1>>, <<0, k.delay>>, <<0, MaxTxInSequenceNum>>}
      [] out.lock = "offer" -> {<<0, 0>>}
      [] OTHER -> {<<k.locktime - 1, 0>>, <<k.locktime, 0>>, <<k.locktime, MaxTxInSequenceNum>>, <<LockTimeThreshold, 0>>}

SpendJob(by, k, lock, s) == [kind |-> "spend", by |-> by, k |-> k, lock |-> lock, s |-> s]

\* Opcodes and what they abbreviate.
Law(name, short, long) == [name |-> name, short |-> short, long |-> long]
N(n) == <<AddInt64(n)>>
Laws ==
    LET L(name, long) == Law(name, <<Op(name)>>, Ops(long))
    IN {L("TUCK", <<"SWAP", "OVER">>), L("NIP", <<"SWAP", "DROP">>), L("2DROP", <<"DROP", "DROP">>),
        L("2DUP", <<"OVER", "OVER">>), L("IFDUP", <<"DUP", "IF", "DUP", "ENDIF">>),
        L("NUMEQUALVERIFY", <<"NUMEQUAL", "VERIFY">>), L("EQUALVERIFY", <<"EQUAL", "NOTIF", "RETURN", "ENDIF">>),
        L("SUB", <<"NEGATE", "ADD">>), L("ABS", <<"DUP", "NEGATE", "MAX">>),
        L("0NOTEQUAL", <<"NOT", "NOT">>), L("1ADD", <<"1", "ADD">>), L("1SUB", <<"1", "SUB">>),
        L("NUMNOTEQUAL", <<"NUMEQUAL", "NOT">>), L("GREATERTHAN", <<"SWAP", "LESSTHAN">>),
        L("LESSTHANOREQUAL", <<"GREATERTHAN", "NOT">>), L("GREATERTHANOREQUAL", <<"LESSTHAN", "NOT">>),
        L("BOOLAND", <<"NOT", "SWAP", "NOT", "BOOLOR", "NOT">>),
        L("ADD", <<"2DUP", "MIN", "TOALTSTACK", "MAX", "FROMALTSTACK", "ADD">>),
        L("WITHIN", <<"TOALTSTACK", "OVER", "LESSTHANOREQUAL", "SWAP", "FROMALTSTACK", "LESSTHAN", "BOOLAND">>),
        Law("ROT", <<Op("ROT")>>, N(2) \o <<Op("ROLL")>>),
        Law("SWAP", <<Op("SWAP")>>, N(1) \o <<Op("ROLL")>>),
        Law("OVER", <<Op("OVER")>>, N(1) \o <<Op("PICK")>>),
        Law("DUP", <<Op("DUP")>>, N(0) \o <<Op("PICK")>>),
        Law("3DUP", <<Op("3DUP")>>, N(2) \o <<Op("PICK")>> \o N(2) \o <<Op("PICK")>> \o N(2) \o <<Op("PICK")>>),
        Law("2OVER", <<Op("2OVER")>>, N(3) \o <<Op("PICK")>> \o N(3) \o <<Op("PICK")>>),
        Law("2SWAP", <<Op("2SWAP")>>, N(3) \o <<Op("ROLL")>> \o N(3) \o <<Op("ROLL")>>),
        Law("2ROT", <<Op("2ROT")>>, N(5) \o <<Op("ROLL")>> \o N(5) \o <<Op("ROLL")>>),
        \* an OP_ELSE without an OP_IF inside a branch not taken, and the depth
        Law("skip", <<>>, Ops(<<"0", "IF", "1", "IF", "RETURN", "ELSE", "RETURN", "ENDIF", "ENDIF">>)),
        Law("depth", <<>>, Ops(<<"DEPTH", "1ADD", "DEPTH", "NUMEQUALVERIFY">>))}
\* Numbers at the edges of one and two bytes, minus nought, one with a byte
\* too many, one too long; nothing, and more than an opcode takes.
EdgeNumbers == {0, 1, -1, 127, -128, 255, 256, -32768}
Operands == {IntOf(n) : n \in EdgeNumbers} \cup {Small(<<128>>), Small(<<1, 0>>), Small(<<0, 0, 0, 0, 1>>)}
SixItems == [i \in 1..6 |-> IntOf(i)]
StackFlags == {{}, {"minimal"}}
LawStacks == UNION {[1..i -> Operands] : i \in 0..2}
             \cup {SubSeq(SixItems, 1, i) : i \in 3..6}
             \cup {<<IntOf(x), IntOf(y), IntOf(z)>> : x \in EdgeNumbers, y \in EdgeNumbers, z \in EdgeNumbers}

-----------------------------------------------------------------------------
\* Merkle blocks for every set of matches in up to MaxTxs transactions, as they
\* are sent and with one hash or one flag bit damaged or the last hash missing;
\* a damaged hash may be that of its sibling.
MaxTxs == 6
Damaged(m) ==
    {[m EXCEPT !.hashes[i] = h] : i \in DOMAIN m.hashes, h \in {<<99>>, m.root} \cup {m.hashes[j] : j \in DOMAIN m.hashes}}
    \cup {[m EXCEPT !.bits[i] = 1 - @] : i \in DOMAIN m.bits}
    \cup {[m EXCEPT !.hashes = SubSeq(@, 1, Len(@) - 1)]}
MerkleJobs ==
    UNION {UNION {{[kind |-> "merkle", match |-> match, m |-> x, whole |-> x = MerkleBlock(n, match)] :
                      x \in {MerkleBlock(n, match)} \cup Damaged(MerkleBlock(n, match))} :
              match \in SUBSET (1 .. n)} : n \in 1 .. MaxTxs}

\* Up to three coins: next to nothing, below the fee, and on both sides of
\* FeeGuess; spendable, unconfirmed or still locked; with and without witness.
CoinSet ==
    {[value |-> v, height |-> h, seq |-> q, mode |-> mode] :
        v \in {0, 150, 9000, 21000}, h \in {0, 110}, q \in {0, 5}, mode \in {"p2pkh", "p2wsh"}}
CurHeight == 112
PickJobs ==
    {[kind |-> "pick", coins |-> us, amt |-> amt, ow |-> ow] :
        us \in UNION {[1 .. n -> CoinSet] : n \in 0 .. 2}
               \cup {<<x, x, y>> : x \in CoinSet, y \in CoinSet},
        amt \in {100, 8700, 11000}, ow \in BOOLEAN}

\* Paths from node 1 to node 4.  In one coin, every set of channels over four
\* nodes with room for the payment or not; in two, trades at several rates.
Link(from, to, coin, cap) == [from |-> from, to |-> to, coin |-> coin, cap |-> cap]
Steps == {<<1, 2>>, <<1, 3>>, <<2, 3>>, <<3, 2>>, <<2, 4>>, <<3, 4>>}
OneCoin ==
    {[links |-> {Link(s[1], s[2], "x", cap[s]) : s \in {t \in Steps : cap[t] > 0}},
      rates |-> [t \in {2, 3} \X {"x"} \X {"x"} |-> 0], fee |-> [c \in {"x"} |-> 1]] :
        cap \in [Steps -> {0, 4, 8}]}
Trades == {<<2, "x", "y">>, <<3, "x", "y">>, <<3, "y", "x">>, <<2, "y", "y">>}
TwoCoins ==
    {[links |-> {Link(1, 2, "x", 9999), Link(1, 3, "x", cap), Link(2, 3, "y", 9999), Link(3, 2, "x", 9999),
                 Link(3, 2, "y", 9999), Link(2, 4, "y", 9999), Link(3, 4, "y", cap)},
      rates |-> [t \in {u \in Trades : e[u] < 2} \cup {<<3, "x", "x">>, <<3, "y", "y">>} |->
                    IF t \in Trades THEN e[t] ELSE 0],
      fee |-> [c \in known |-> 1]] :
        cap \in {50, 9999}, e \in [Trades -> {-1, 0, 1, 2}], known \in {{"x"}, {"x", "y"}}}
RouteJobs ==
    {[kind |-> "route", one |-> TRUE, g |-> g, amt |-> amt, to |-> <<4, "x", TRUE>>] : g \in OneCoin, amt \in {2, 6}}
    \cup {[kind |-> "route", one |-> FALSE, g |-> g, amt |-> 40, to |-> <<4, "y", TRUE>>] : g \in TwoCoins}

Init == /\ \/ \E j \in JobsOf("lit", LitMsgFromBytes) : Sendable(j) /\ job = j
           \/ \E j \in JobsOf("record", {PorTxo, IdxSig}) : job = j
           \/ \E j \in WireJobs : job = j
           \/ \E k \in KeyOrders : \E s \in Assembled(k) : job = SpendJob("lit", k, "own", s)
           \/ \E k \in KeyOrders : \E out \in Outputs(k) :
                \E w \in Witnesses(ItemsFor(k, out), out.script, IF out.lock = "commit" THEN 3 ELSE 4) :
                \E f \in Fields(k, out) :
                  job = SpendJob("anyone", k, out.lock, Spend(P2WSHify(out.script), <<>>, w, f[1], f[2]))
           \/ \E law \in Laws, d \in LawStacks, flags \in StackFlags :
                job = [kind |-> "law", law |-> law, d |-> d, flags |-> flags]
           \/ \E j \in MerkleJobs : job = j
           \/ \E j \in PickJobs : job = j
           \/ \E j \in RouteJobs : job = j
        /\ buf = <<>>
        /\ got = "nothing"

\* Bytes: the type of a lit message, then its fields.
WriteMessage ==
    /\ job.kind \in {"lit", "record", "wire"}
    /\ got = "nothing" /\ buf = <<>>
    /\ buf' = (IF job.kind = "lit" THEN Chunk("raw", "type", <<>>, 1, job.msg.type) ELSE <<>>)
              \o Write(job.msg.put, job.m, <<>>)
    /\ got' = "sent"
    /\ UNCHANGED job

\* The reader looks up the type, insists on its least length, and reads.
Known(type) == {x \in LitMsgFromBytes : x.type = type}
ReadLit == LET xs == Known(Head(buf).v)
           IN IF xs = {} THEN "unknown type"
              ELSE LET x == CHOOSE y \in xs : TRUE
                   IN IF Size(buf) < x.min THEN "too short"
                      ELSE IF x = job.msg /\ Read(x.get, Tail(buf), <<>>) = Got(TRUE, <<>>)
                           THEN "same" ELSE "different"
ReadRecord == IF Size(buf) < job.msg.min \/ Size(buf) > PorTxoMax THEN "refused"
              ELSE IF Read(job.msg.get, buf, <<>>) = Got(TRUE, <<>>) THEN "same" ELSE "different"
ReadWire == IF Read(job.msg.get, buf, <<>>) = Got(TRUE, <<>>) THEN "same" ELSE "different"

ReadMessage ==
    /\ got = "sent"
    /\ got' = CASE job.kind = "lit" -> ReadLit [] job.kind = "record" -> ReadRecord [] OTHER -> ReadWire
    /\ UNCHANGED <<job, buf>>

ExecuteSpend ==
    /\ job.kind = "spend" /\ got = "nothing"
    /\ got' = IF Accepts(job.s) THEN "spent" ELSE "refused"
    /\ UNCHANGED <<job, buf>>

\* Both sides on the same stack: they end alike, or neither ends well.
After(ops) == RunScript([Engine EXCEPT !.d = job.d], [flags |-> job.flags], ops)
EndAlike(vm, other) == vm.ok = other.ok /\ (vm.ok => vm.d = other.d)
CompareOpcodes ==
    /\ job.kind = "law" /\ got = "nothing"
    /\ got' = IF EndAlike(After(job.law.short), After(job.law.long)) THEN "alike" ELSE "unlike"
    /\ UNCHANGED <<job, buf>>

CheckBlock ==
    /\ job.kind = "merkle" /\ got = "nothing"
    /\ buf' = checkMBlock(job.m)
    /\ got' = "checked"
    /\ UNCHANGED job

\* Coins that compare equal stay in any order.
Pick ==
    /\ job.kind = "pick" /\ got = "nothing"
    /\ \E us \in Orders(job.coins) : buf' = PickUtxos(us, job.amt, 34, job.ow, CurHeight)
    /\ got' = "picked"
    /\ UNCHANGED job

\* FindPath: the graph, then one vertex after the other.
Me == <<1, "x", FALSE>>
BeginSearch ==
    /\ job.kind = "route" /\ got = "nothing"
    /\ LET es == Edges(job.g)
       IN \/ /\ ~({Me, job.to} \subseteq Vertices(es)) /\ got' = "not found" /\ UNCHANGED buf
          \/ /\ {Me, job.to} \subseteq Vertices(es) /\ NegativeCycle(es)
             /\ got' = "cycle" /\ UNCHANGED buf
          \/ /\ {Me, job.to} \subseteq Vertices(es) /\ ~NegativeCycle(es)
             /\ got' = "searching" /\ buf' = StartSearch(es, Me, job.amt)
    /\ UNCHANGED job
VisitNext ==
    /\ got = "searching"
    /\ \E x \in Nearest(buf) : buf' = PopNode(job.g, buf, x)
    /\ UNCHANGED <<job, got>>
EndSearch ==
    /\ got = "searching" /\ buf.heap = {}
    /\ got' = IF job.to \in DOMAIN buf.dist THEN "route" ELSE "no route"
    /\ UNCHANGED <<job, buf>>

Next == \/ WriteMessage \/ ReadMessage \/ ExecuteSpend \/ CompareOpcodes \/ CheckBlock \/ Pick
        \/ BeginSearch \/ VisitNext \/ EndSearch
Spec == Init /\ [][Next]_vars

-----------------------------------------------------------------------------
\* A message that BtcEncode takes, its lists at their limits, is never too
\* long for WriteMessage and ReadMessage.
FitsPayload ==
    (job.kind = "wire" /\ DOMAIN job.msg.limits = {x.f : x \in Vars(job.msg.put)})
        => SizeOf(job.msg.put, job.msg.limits) <= job.msg.max

\* Whatever lit or package wire writes, its lists at their limits included, the
\* matching reader takes, by type, length and content, and fills every field
\* with what was written to it.
RoundTrip ==
    /\ job.kind \in {"lit", "record", "wire"} => got \in {"nothing", "sent", "same"}
    /\ FitsPayload

IsTx(j) == j.kind = "wire" /\ "TxIn" \in DOMAIN j.m /\ "Transactions" \notin DOMAIN j.m
TxBytes(j, enc) == Write(BtcEncode(enc), j.m, <<>>)
StartOf(bytes, f, at) ==
    LET k == CHOOSE i \in 1..Len(bytes) : bytes[i].k = "raw" /\ bytes[i].f = f /\ bytes[i].at = at
    IN Size(SubSeq(bytes, 1, k - 1))
\* SerializeSize and SerializeSizeStripped give the length that the two
\* encodings of a transaction really have, on which fees, weights and the
\* length field of DualFundingChanAckMsg depend, and PkScriptLocs points at the
\* outputs' scripts.
TxSizesRight ==
    (got = "nothing" /\ IsTx(job)) =>
        /\ SerializeSize(job.m) = Size(TxBytes(job, "witness"))
        /\ SerializeSizeStripped(job.m) = Size(TxBytes(job, "base"))
        /\ \A i \in 1..job.m["TxOut"] :
              PkScriptLoc(job.m, i) = StartOf(TxBytes(job, "witness"), "PkScript", <<i>>)

\* Every witness that lit assembles for a break, a cooperative close, a DLC
\* settlement and its claim, its own or a revoked commitment, its HTLCs on
\* either side's transaction, and the wallet's own coins spends the output it
\* is for, whichever way round the two channel keys sort.
OwnersCanSpend == (job.kind = "spend" /\ job.by = "lit") => got # "refused"

Shown(x) == \E i \in DOMAIN job.s.witness : job.s.witness[i] = x
Signed(key) == \E i \in DOMAIN job.s.witness :
                  /\ job.s.witness[i].kind = "sig"
                  /\ job.s.witness[i].v = <<key, Last(job.s.witness).v>>
Entitled(k, lock) ==
    CASE lock = "fund" -> Signed(k.my) /\ Signed(k.theirs)
      [] lock = "commit" -> \/ Signed(k.rev)
                            \/ Signed(k.my) /\ job.s.sequence >= k.delay
      [] lock = "offer" -> \/ Signed(k.rev) /\ Shown(Pub(k.rev))
                           \/ Signed(k.my) /\ Signed(k.theirs)
                           \/ Signed(k.theirs) /\ Shown(k.R)
      [] lock = "receive" -> \/ Signed(k.rev) /\ Shown(Pub(k.rev))
                             \/ Signed(k.my) /\ Signed(k.theirs) /\ Shown(k.R)
                             \/ Signed(k.theirs) /\ job.s.lockTime >= k.locktime /\ job.s.lockTime < LockTimeThreshold
\* No arrangement of signatures, keys, preimages and numbers spends an output
\* of a channel except as agreed: the funding output by both, a commitment by
\* the revocation key or its owner after the delay, an HTLC by the revocation
\* key, by both (with the preimage if it is received), or by the other side
\* alone with the preimage (offered) or after the lock time (received).
OnlyOwnersSpend == (job.kind = "spend" /\ job.by = "anyone" /\ got = "spent") => Entitled(job.k, job.lock)

\* An opcode does what the opcodes it abbreviates do, on every stack, the
\* numbers at the edges of their encodings and the stacks that are too short
\* included, as the stack transformations documented at the handlers promise.
OpcodesAlike == job.kind = "law" => got # "unlike"

\* checkMBlock takes every merkle block that a full node sends and finds in it
\* the transactions that match and no others, calcRoot finds the same root for
\* the whole block, and of a damaged one no transaction is believed that is not
\* in the block (one in which two siblings have the same hash ends in a panic).
MerkleProves ==
    /\ (job.kind = "merkle" /\ got = "nothing") => calcRoot([i \in 1..job.m.n |-> <<i>>]) = job.m.root
    /\ (job.kind = "merkle" /\ got = "checked") =>
          /\ \A i \in DOMAIN buf.txids : buf.txids[i] \in {<<j>> : j \in 1..job.m.n}
          /\ job.whole => buf.how = "ok" /\ {buf.txids[i] : i \in DOMAIN buf.txids} = {<<j>> : j \in job.match}

\* What PickUtxos returns pays for the amount, the change it reports and the
\* fee of a transaction with these inputs, out of coins that may be spent now,
\* whatever it left out as too large.
PicksCover ==
    (got = "picked" /\ buf.remaining <= 0) =>
        /\ ValueOfAll(buf.picked) >= job.amt - buf.remaining + (IF buf.picked = <<>> THEN 0 ELSE EstFee(buf.picked, 34))
        /\ \A i \in DOMAIN buf.picked : Mature(buf.picked[i], CurHeight) /\ FitsUse(buf.picked[i], job.ow)

\* FindPath "find[s] the path with the best price": with room in every channel
\* no other way has a better one, and a way is found if there is one; in one
\* coin it finds a way exactly when one has room for the payment.  It gives up
\* if somewhere a way round gains, but also on one that is merely even: the
\* logarithms of a rate and of its reciprocal do not cancel.
RouteIsBest ==
    LET es == Edges(job.g)
        ways == Ways(es, <<Me>>, job.to)
        fit == {p \in ways : Carries(job.g, es, p, job.amt)}
    IN /\ job.kind = "route" /\ got = "cycle" => \E x \in Rounds(es) : x >= 0
       /\ got \in {"route", "no route"} =>
             /\ \A x \in Rounds(es) : x <= 0
             /\ (fit = ways \/ job.one) => ((got = "route") <=> (fit # {}))
             /\ (fit = ways /\ got = "route") =>
                   \A p \in ways : Price(es, RouteTo(buf, job.to)) >= Price(es, p)
             /\ (job.one /\ got = "route") => RouteTo(buf, job.to) \in fit
=============================================================================
