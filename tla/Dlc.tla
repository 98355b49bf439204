-------------------------------- MODULE Dlc --------------------------------
(***************************************************************************)
(* A discreet log contract between the node A that drafts and offers it    *)
(* and the node B that accepts it: the setters of a draft (dlc/contract.go)*)
(* the offer, accept, acknowledge, funding and proof messages (qln/dlc.go),*)
(* settlement with the oracle's value, and the claim of the other side     *)
(* when it sees the settlement (HandleContractOPEvent).                    *)
(*                                                                         *)
(* Keys, scripts and signatures are symbolic: a signature is the           *)
(* transaction it signs.  Accepting runs in a goroutine with its own copy  *)
(* of the contract, so two calls of AcceptDlc race.                        *)
(***************************************************************************)
EXTENDS Integers, Sequences, FiniteSets, SequencesExt

CONSTANTS
  FeeUnit,      \* the 500 satoshi that every transaction takes per side
  Fundings,     \* pairs <<ours, theirs>> the offerer may choose
  Ranges,       \* pairs <<valueAllOurs, valueAllTheirs>> it may choose
  Below, Above, \* <<total, width, n>>: total / width * n is cut off one too low or high
  Outcomes,     \* values the oracle may sign
  Coins,        \* Coins[n]: the coins of n's wallet, <<id, value>>
  SharedCoin,   \* a coin type both nodes have a wallet for
  OnlyACoin,    \* a coin type only the offerer has a wallet for
  MaxAccept,    \* how often the user of B calls AcceptDlc
  MaxSettle,    \* how often the users call SettleContract
  MaxSpend,     \* how many coins the wallets spend elsewhere
  MaxDrop       \* how often the connection breaks

ASSUME DlcAssumption ==
  /\ FeeUnit \in Nat \ {0} /\ {MaxAccept, MaxSettle, MaxSpend, MaxDrop} \subseteq Nat
  /\ Fundings \subseteq Nat \X Nat /\ Ranges \subseteq Nat \X Nat
  /\ \A r \in Ranges : r[1] # r[2]

VARIABLES
  c,        \* c[n]: the contract in n's database
  job,      \* job[i]: the i-th accepting goroutine of B
  wires,    \* wires[n]: messages on their way to n
  up,       \* the two nodes are connected
  coins,    \* coins[n]: unspent coins of n
  adrs,     \* adrs[n]: addresses n has handed out
  chain,    \* transactions in the block chain
  watch,    \* watch[n]: funding transactions whose output n watches
  events,   \* events[n]: spends that n's wallet has still to report
  paid,     \* paid[n]: what n has claimed of the contract
  bound     \* what is used up of the four bounds

dvars == <<c, job, wires, up, coins, adrs, chain, watch, events, paid, bound>>

Nodes == {"A", "B"}
Peer(n) == IF n = "A" THEN "B" ELSE "A"
None == "none"
NoKey == <<>>
NoTx == [none |-> TRUE]
NoDivision == <<>>
Wallets == [n \in Nodes |-> IF n = "A" THEN {SharedCoin, OnlyACoin} ELSE {SharedCoin}]

\* new(lnutil.DlcContract): every key, amount and list empty
NewContract ==
  [status |-> None, oracleA |-> FALSE, oracleR |-> FALSE, time |-> FALSE, coin |-> None,
   our |-> 0, their |-> 0, division |-> NoDivision, ourIns |-> {}, theirIns |-> {},
   ourChange |-> NoKey, theirChange |-> NoKey, ourPub |-> NoKey, theirPub |-> NoKey,
   ourBase |-> NoKey, theirBase |-> NoKey, ourPKH |-> NoKey, theirPKH |-> NoKey,
   outpoint |-> NoTx, sigs |-> NoDivision]

DInit ==
  /\ c = [n \in Nodes |-> NewContract]
  /\ job = <<>>
  /\ wires = [n \in Nodes |-> <<>>]
  /\ up = TRUE
  /\ coins = Coins
  /\ adrs = [n \in Nodes |-> 0]
  /\ chain = {}
  /\ watch = [n \in Nodes |-> {}]
  /\ events = [n \in Nodes |-> {}]
  /\ paid = [n \in Nodes |-> 0]
  /\ bound = [accept |-> 0, settle |-> 0, spend |-> 0, drop |-> 0]

\* Everything but the contracts, the messages and what is listed in the action
Save(n, k) == c' = [c EXCEPT ![n] = k]
Send(n, m) == wires' = IF up THEN [wires EXCEPT ![Peer(n)] = Append(@, m)] ELSE wires
Rest == <<job, up, coins, adrs, chain, watch, events, paid, bound>>

-----------------------------------------------------------------------------
(* The draft: dlc/contract.go.  Every setter demands the draft state.       *)

AddContract ==
  /\ c["A"].status = None
  /\ Save("A", [NewContract EXCEPT !.status = "Draft"])
  /\ UNCHANGED <<wires, Rest>>

SetDraft(k) ==
  /\ c["A"].status = "Draft"
  /\ Save("A", k)
  /\ UNCHANGED <<wires, Rest>>

SetContractOracle ==
  SetDraft([c["A"] EXCEPT !.oracleA = TRUE, !.oracleR = FALSE])

SetContractSettlementTime ==
  SetDraft([c["A"] EXCEPT !.time = TRUE, !.oracleR = FALSE])

SetContractDatafeed ==
  /\ c["A"].time /\ c["A"].oracleA
  /\ SetDraft([c["A"] EXCEPT !.oracleR = TRUE])

SetContractRPoint ==
  SetDraft([c["A"] EXCEPT !.oracleR = TRUE])

SetContractCoinType(coin) ==
  SetDraft([c["A"] EXCEPT !.coin = coin])

SetContractFunding(our, their) ==
  SetDraft([c["A"] EXCEPT !.our = our, !.their = their, !.division = NoDivision])

\* int64(fTotal / fRange * fCurInRange): two float64 roundings, which may carry
\* the product across an integer, and a cut.  The 53 bits of a float64 hold
\* every amount there is, so that the result is never off by more than one.
Cut(total, width, n) ==
  LET exact == (total * n) \div width
  IN  IF <<total, width, n>> \in Below THEN exact - 1
      ELSE IF <<total, width, n>> \in Above THEN exact + 1 ELSE exact

\* The linear payout over twice the range on both sides, clipped at zero.
LinearDivision(allOurs, allTheirs, total) ==
  LET lo    == IF allTheirs > allOurs THEN allOurs ELSE allTheirs
      hi    == IF allTheirs > allOurs THEN allTheirs ELSE allOurs
      width == hi - lo
      min   == IF lo < width THEN 0 ELSE lo - width
  IN  [i \in min .. hi + width |->
        IF allOurs > allTheirs
        THEN IF i >= allOurs THEN total
             ELSE IF i <= allTheirs THEN 0 ELSE Cut(total, width, i - allTheirs)
        ELSE IF i <= allOurs THEN total
             ELSE IF i >= allTheirs THEN 0 ELSE total - Cut(total, width, i - allOurs)]

SetContractDivision(allOurs, allTheirs) ==
  SetDraft([c["A"] EXCEPT !.division =
              LinearDivision(allOurs, allTheirs, c["A"].our + c["A"].their)])

-----------------------------------------------------------------------------
(* Transactions                                                             *)

\* FundContract picks coins for the amount and the fee, freezing none of them,
\* and takes a new change address.
Pickable(n, amount) == {coin \in coins[n] : coin[2] >= amount + FeeUnit}

Funded(n, k, coin) ==
  [k EXCEPT !.ourIns = {coin}, !.ourChange = <<n, "change", adrs[n]>>]

InputTotal(ins) == FoldSet(LAMBDA x, y : x[2] + y, 0, ins)

\* The contract's output holds our stake only.
BuildDlcFundingTransaction_OursOnly(k) ==
  [ins   |-> k.ourIns \cup k.theirIns,
   outs  |-> {<<InputTotal(k.theirIns) - k.their - FeeUnit, k.theirChange>>,
              <<InputTotal(k.ourIns) - k.our - FeeUnit, k.ourChange>>},
   keys  |-> {k.ourPub, k.theirPub},
   value |-> k.our]

\* Inputs and change are sorted, the contract's output goes first.
BuildDlcFundingTransaction(k) ==
  [ins   |-> k.ourIns \cup k.theirIns,
   outs  |-> {<<InputTotal(k.theirIns) - k.their - FeeUnit, k.theirChange>>,
              <<InputTotal(k.ourIns) - k.our - FeeUnit, k.ourChange>>},
   keys  |-> {k.ourPub, k.theirPub},
   value |-> k.our + k.their]

\* What SettlementTx leaves each side of a division that gives us `value`
SettlementValues(value, total) ==
  LET theirs == total - value
  IN  IF theirs < FeeUnit
      THEN [ours |-> value - (2 * FeeUnit - theirs), theirs |-> 0]
      ELSE [ours   |-> IF value < FeeUnit THEN 0 ELSE value - FeeUnit,
            theirs |-> theirs - FeeUnit]

DlcOutput(base, other, i, value) == [to |-> <<base, i, other>>, value |-> value]
PkhOutput(pkh, value) == [to |-> pkh, value |-> value]

\* Outputs of no value are left out.
Paying(o) == IF o.value > 0 THEN <<o>> ELSE <<>>

\* The settlement for oracle value i: the one we sign for the peer (ours), or
\* the one the peer signed for us.
SettlementTx(k, i, ours) ==
  LET v == SettlementValues(k.division[i], k.our + k.their)
      outs == IF ours
              THEN Paying(DlcOutput(k.theirBase, k.ourBase, i, v.theirs)) \o Paying(PkhOutput(k.ourPKH, v.ours))
              ELSE Paying(DlcOutput(k.ourBase, k.theirBase, i, v.ours)) \o Paying(PkhOutput(k.theirPKH, v.theirs))
  IN  [spends |-> k.outpoint, outs |-> outs]

\* SignSettlementDivisions: remembers the funding outpoint and signs a
\* settlement for every value of the oracle.
WithOutpoint(k) == [k EXCEPT !.outpoint = BuildDlcFundingTransaction(k)]
SignSettlementDivisions(k) == [i \in DOMAIN k.division |-> SettlementTx(k, i, TRUE)]

-----------------------------------------------------------------------------
(* Offer, decline, accept: qln/dlc.go                                       *)

\* Its check for a nil division never holds: LoadContract makes an empty list.
OfferDlc ==
  LET k == c["A"] IN
  /\ k.status = "Draft" /\ up
  /\ k.oracleA /\ k.oracleR /\ k.time /\ k.coin # None
  /\ k.our + k.their # 0
  /\ \E coin \in Pickable("A", k.our) :
       LET f == Funded("A", [k EXCEPT !.ourPub = <<"A", "multisig">>,
                                      !.ourBase = <<"A", "payout">>], coin)
       IN  /\ Save("A", [f EXCEPT !.status = "OfferedByMe"])
           /\ Send("A", [type |-> "offer", k |-> f])
  /\ adrs' = [adrs EXCEPT !["A"] = @ + 1]
  /\ UNCHANGED <<job, up, coins, chain, watch, events, paid, bound>>

DeclinedContract(k) == [k EXCEPT !.status = "Declined"]

DeclineDlc ==
  /\ c["B"].status = "OfferedToMe" /\ up
  /\ Save("B", DeclinedContract(c["B"]))
  /\ Send("B", [type |-> "decline"])
  /\ UNCHANGED Rest

\* The checks of AcceptDlc; the rest runs in a goroutine on this copy.
AcceptDlc ==
  /\ bound.accept < MaxAccept
  /\ c["B"].status = "OfferedToMe" /\ up
  /\ job' = Append(job, [pc |-> "start", k |-> c["B"]])
  /\ bound' = [bound EXCEPT !.accept = @ + 1]
  /\ UNCHANGED <<c, wires, up, coins, adrs, chain, watch, events, paid>>

AcceptStart(i) ==
  /\ job[i].pc = "start"
  /\ Save("B", [job[i].k EXCEPT !.status = "Accepting"])
  /\ job' = [job EXCEPT ![i].pc = "fund"]
  /\ UNCHANGED <<wires, up, coins, adrs, chain, watch, events, paid, bound>>

\* The keys and the payout address, derived from the node's root key
WithKeys(k) == [k EXCEPT !.ourPub = <<"B", "multisig">>, !.ourBase = <<"B", "payout">>,
                         !.ourPKH = <<"B", "payoutPKH">>]

AcceptFund(i) ==
  /\ job[i].pc = "fund"
  /\ \E coin \in Pickable("B", job[i].k.our) :
       LET k == WithOutpoint(WithKeys(Funded("B", job[i].k, coin)))
       IN  /\ Save("B", [k EXCEPT !.status = "Accepted"])
           /\ job' = [job EXCEPT ![i] = [pc |-> "send", k |-> k]]
  /\ adrs' = [adrs EXCEPT !["B"] = @ + 1]
  /\ UNCHANGED <<wires, up, coins, chain, watch, events, paid, bound>>

AcceptError(i) ==
  /\ job[i].pc = "fund" /\ Pickable("B", job[i].k.our) = {}
  /\ Save("B", [job[i].k EXCEPT !.status = "Error"])
  /\ job' = [job EXCEPT ![i].pc = "done"]
  /\ UNCHANGED <<wires, up, coins, adrs, chain, watch, events, paid, bound>>

AcceptSend(i) ==
  /\ job[i].pc = "send"
  /\ Send("B", [type |-> "accept", k |-> job[i].k,
                sigs |-> SignSettlementDivisions(job[i].k)])
  /\ job' = [job EXCEPT ![i].pc = "done"]
  /\ UNCHANGED <<c, up, coins, adrs, chain, watch, events, paid, bound>>

-----------------------------------------------------------------------------
(* Message handlers.  None of them looks at the contract's status.          *)

\* The division taken over as it is
Mirrored_SameValues(m) ==
  [NewContract EXCEPT
     !.status = "OfferedToMe", !.our = m.their, !.their = m.our,
     !.theirIns = m.ourIns, !.theirPub = m.ourPub, !.theirBase = m.ourBase,
     !.theirChange = m.ourChange, !.coin = m.coin, !.oracleA = m.oracleA,
     !.oracleR = m.oracleR, !.time = m.time, !.division = m.division]

\* The offer seen from the other side
Mirrored(m) ==
  [NewContract EXCEPT
     !.status = "OfferedToMe", !.our = m.their, !.their = m.our,
     !.theirIns = m.ourIns, !.theirPub = m.ourPub, !.theirBase = m.ourBase,
     !.theirChange = m.ourChange, !.coin = m.coin, !.oracleA = m.oracleA,
     !.oracleR = m.oracleR, !.time = m.time,
     !.division = [i \in DOMAIN m.division |-> m.our + m.their - m.division[i]]]

Handle(n, type) ==
  /\ wires[n] # <<>> /\ Head(wires[n]).type = type

\* Take a message and answer it
Reply(n, answers) ==
  wires' = [wires EXCEPT ![n] = Tail(@), ![Peer(n)] = IF up THEN @ \o answers ELSE @]

\* An unknown coin type is declined at once.
DlcOfferHandler ==
  /\ Handle("B", "offer")
  /\ LET k == Mirrored(Head(wires["B"]).k) IN
     IF k.coin \in Wallets["B"]
     THEN Save("B", k) /\ Reply("B", <<>>)
     ELSE IF up
          THEN Save("B", DeclinedContract(k)) /\ Reply("B", << [type |-> "decline"] >>)
          ELSE Save("B", k) /\ Reply("B", <<>>)
  /\ UNCHANGED Rest

DlcDeclineHandler ==
  /\ Handle("A", "decline")
  /\ Save("A", DeclinedContract(c["A"]))
  /\ Reply("A", <<>>)
  /\ UNCHANGED Rest

AcceptedContract(k, m) ==
  WithOutpoint([k EXCEPT
     !.theirChange = m.k.ourChange, !.theirIns = m.k.ourIns, !.sigs = m.sigs,
     !.theirPub = m.k.ourPub, !.theirBase = m.k.ourBase, !.theirPKH = m.k.ourPKH])

\* The offerer forgets to acknowledge.
DlcAcceptHandler_NoAck ==
  /\ Handle("A", "accept")
  /\ Save("A", [AcceptedContract(c["A"], Head(wires["A"])) EXCEPT !.status = "Accepted"])
  /\ Reply("A", <<>>)
  /\ UNCHANGED Rest

DlcAcceptHandler ==
  /\ Handle("A", "accept")
  /\ Save("A", [AcceptedContract(c["A"], Head(wires["A"])) EXCEPT !.status = "Acknowledged"])
  /\ Reply("A", << [type |-> "ack"] >>)
  /\ UNCHANGED Rest

\* The settlement signatures of the acknowledgement are not kept.
DlcContractAckHandler ==
  /\ Handle("B", "ack") /\ c["B"].division # NoDivision
  /\ Save("B", [c["B"] EXCEPT !.status = "Acknowledged"])
  /\ LET tx == BuildDlcFundingTransaction(c["B"]) IN
     Reply("B", << [type |-> "sigs", tx |-> tx, signed |-> c["B"].ourIns \cap coins["B"]] >>)
  /\ UNCHANGED Rest

\* An acknowledgement without signatures is too short for its parser.
AckRefused ==
  /\ Handle("B", "ack") /\ c["B"].division = NoDivision
  /\ Reply("B", <<>>)
  /\ UNCHANGED <<c, Rest>>

\* The funding transaction enters the chain when every input is unspent and signed.
Spendable(tx, signed) ==
  /\ tx.ins \subseteq (signed \cup coins["A"])
  /\ tx.ins \subseteq (coins["A"] \cup coins["B"])

DlcFundingSigsHandler ==
  /\ Handle("A", "sigs")
  /\ LET m == Head(wires["A"]) IN
     IF Spendable(m.tx, m.signed)
     THEN /\ chain' = chain \cup {m.tx}
          /\ coins' = [n \in Nodes |-> coins[n] \ m.tx.ins]
     ELSE UNCHANGED <<chain, coins>>
  /\ watch' = [watch EXCEPT !["A"] = @ \cup {c["A"].outpoint}]
  /\ Save("A", [c["A"] EXCEPT !.status = "Active"])
  /\ Reply("A", << [type |-> "proof"] >>)
  /\ UNCHANGED <<job, up, adrs, events, paid, bound>>

DlcSigProofHandler ==
  /\ Handle("B", "proof")
  /\ watch' = [watch EXCEPT !["B"] = @ \cup {c["B"].outpoint}]
  /\ Save("B", [c["B"] EXCEPT !.status = "Active"])
  /\ Reply("B", <<>>)
  /\ UNCHANGED <<job, up, coins, adrs, chain, events, paid, bound>>

-----------------------------------------------------------------------------
(* Settlement                                                               *)

Settlements == {tx \in chain : "spends" \in DOMAIN tx}
Settled(op) == \E tx \in Settlements : tx.spends = op

SettleValid(k, i, tx) ==
  /\ k.outpoint \in chain /\ ~Settled(k.outpoint)
  /\ i \in DOMAIN k.sigs /\ k.sigs[i] = tx

\* The claim spends the first output with the key of our payout base and the
\* oracle's signature.
ClaimOf(k, i, tx) ==
  IF /\ tx.outs # <<>> /\ tx.outs[1].to = <<k.ourBase, i, k.theirBase>>
     /\ k.division[i] > 2 * FeeUnit
  THEN k.division[i] - 2 * FeeUnit ELSE 0

\* SettleContract checks no status; the network drops transactions that are
\* not valid and nobody is told.
SettleContract(n, i) ==
  LET k == c[n]  tx == SettlementTx(k, i, FALSE) IN
  /\ k.status # None /\ bound.settle < MaxSettle
  /\ bound' = [bound EXCEPT !.settle = @ + 1]
  /\ IF i \notin DOMAIN k.division
     THEN /\ Save(n, [k EXCEPT !.status = "Settling"])
          /\ UNCHANGED <<chain, paid>>
     ELSE /\ Save(n, [k EXCEPT !.status = "Closed"])
          /\ IF SettleValid(k, i, tx)
             THEN /\ chain' = chain \cup {tx}
                  /\ paid' = [paid EXCEPT ![n] = @ + ClaimOf(k, i, tx)]
             ELSE UNCHANGED <<chain, paid>>
  /\ UNCHANGED <<job, wires, up, coins, adrs, watch, events>>

\* The settlement is mined; the wallets that watch the outpoint report it.
Mined(tx) ==
  /\ tx \in Settlements
  /\ events' = [n \in Nodes |-> IF tx.spends \in watch[n] THEN events[n] \cup {tx} ELSE events[n]]
  /\ events' # events
  /\ UNCHANGED <<c, job, wires, up, coins, adrs, chain, watch, paid, bound>>

\* An output that pays our payout address is claimed for a fee.  The event may
\* come again; the claim is then a double spend of our own.
HandleContractOPEvent(n, tx) ==
  LET k == c[n]
      mine == {o \in ToSet(tx.outs) : o.to = k.ourPKH}
      claim == [claims |-> tx, by |-> n]
  IN
  /\ tx \in events[n] /\ k.outpoint = tx.spends
  /\ mine # {}
  /\ IF claim \in chain THEN UNCHANGED <<chain, paid>>
     ELSE /\ chain' = chain \cup {claim}
          /\ paid' = [paid EXCEPT ![n] = @ + (CHOOSE o \in mine : TRUE).value - FeeUnit]
  /\ Save(n, [k EXCEPT !.status = "Closed"])
  /\ UNCHANGED <<job, wires, up, coins, adrs, watch, events, bound>>

-----------------------------------------------------------------------------
(* The surroundings                                                         *)

\* The wallet spends a coin that the contract has picked but not frozen.
SpendElsewhere(n) ==
  /\ bound.spend < MaxSpend
  /\ \E coin \in coins[n] : coins' = [coins EXCEPT ![n] = @ \ {coin}]
  /\ bound' = [bound EXCEPT !.spend = @ + 1]
  /\ UNCHANGED <<c, job, wires, up, adrs, chain, watch, events, paid>>

Disconnect ==
  /\ up /\ bound.drop < MaxDrop
  /\ up' = FALSE
  /\ wires' = [n \in Nodes |-> <<>>]
  /\ bound' = [bound EXCEPT !.drop = @ + 1]
  /\ UNCHANGED <<c, job, coins, adrs, chain, watch, events, paid>>

Reconnect ==
  /\ ~up /\ up' = TRUE
  /\ UNCHANGED <<c, job, wires, coins, adrs, chain, watch, events, paid, bound>>

Drafting ==
  \/ AddContract \/ SetContractOracle \/ SetContractSettlementTime
  \/ SetContractDatafeed \/ SetContractRPoint
  \/ \E coin \in {SharedCoin, OnlyACoin} : SetContractCoinType(coin)
  \/ \E f \in Fundings : SetContractFunding(f[1], f[2])
  \/ \E r \in Ranges : SetContractDivision(r[1], r[2])

Handling ==
  \/ DlcOfferHandler \/ DlcDeclineHandler \/ DlcAcceptHandler
  \/ DlcContractAckHandler \/ AckRefused \/ DlcFundingSigsHandler \/ DlcSigProofHandler

Accepting ==
  \E i \in 1 .. Len(job) :
    AcceptStart(i) \/ AcceptFund(i) \/ AcceptError(i) \/ AcceptSend(i)

Reporting ==
  \E tx \in Settlements :
    \/ Mined(tx)
    \/ \E n \in Nodes : HandleContractOPEvent(n, tx)

DNext ==
  \/ Drafting \/ OfferDlc \/ DeclineDlc \/ AcceptDlc
  \/ Handling \/ Accepting \/ Reporting
  \/ \E n \in Nodes, i \in Outcomes : SettleContract(n, i)
  \/ \E n \in Nodes : SpendElsewhere(n)
  \/ Disconnect \/ Reconnect

\* The message loop and the goroutines run on; users and the network need not act.
DSpec == DInit /\ [][DNext]_dvars /\ WF_dvars(Handling) /\ WF_dvars(Accepting) /\ WF_dvars(Reporting)

-----------------------------------------------------------------------------
(* Properties                                                               *)

FundingTxs == {tx \in chain : "ins" \in DOMAIN tx}

\* A funding transaction that reached the chain, accepted once, is the one both
\* databases will settle from, holds both stakes under both keys, and costs each
\* side its stake and one fee: the messages carried over every part of it.
DlcAgreed ==
  \A tx \in FundingTxs :
    bound.accept = 1 =>
      /\ \A n \in Nodes : c[n].outpoint = tx /\ c[n].ourPub \in tx.keys
      /\ tx.value = c["A"].our + c["B"].our /\ Cardinality(tx.keys) = 2
      /\ \A n \in Nodes : <<InputTotal(c[n].ourIns) - c[n].our - FeeUnit, c[n].ourChange>> \in tx.outs

\* What the range the offerer entered gives it at oracle value i
Share(k, i, r) ==
  LET total == k.our + k.their
      up01  == IF i <= r[2] THEN 0 ELSE IF i >= r[1] THEN total ELSE (total * (i - r[2])) \div (r[1] - r[2])
      dn01  == IF i <= r[1] THEN 0 ELSE IF i >= r[2] THEN total ELSE (total * (i - r[1])) \div (r[2] - r[1])
  IN  IF r[1] > r[2] THEN up01 ELSE total - dn01

Settles(i) == c["A"].status = "Active" /\ c["A"].outpoint \in chain
              /\ ~Settled(c["A"].outpoint) /\ i \in DOMAIN c["A"].division
              /\ SettleContract("A", i)

\* Oracle values that divide the contract, in either direction of the range
Between(i, r) == (r[1] < i /\ i < r[2]) \/ (r[2] < i /\ i < r[1])

\* When the offerer settles a funded contract at a value that leaves both sides
\* more than the fees, the settlement is valid, the offerer gets its share of the
\* range it drew less two fees, and the peer's output holds the rest less one:
\* the floating point division moves at most one satoshi from one to the other,
\* none outside the range, and loses none.
SettlesAsDrawn ==
  [][\A i \in Outcomes :
       /\ Settles(i)
       /\ c["A"].division[i] > 2 * FeeUnit
       /\ c["A"].our + c["A"].their - c["A"].division[i] > FeeUnit
       => \E r \in Ranges, off \in {-1, 0, 1} :
            LET share == Share(c["A"], i, r) + off IN
            /\ Between(i, r) \/ off = 0
            /\ DOMAIN c["A"].division = DOMAIN LinearDivision(r[1], r[2], 0)
            /\ paid'["A"] = paid["A"] + share - 2 * FeeUnit
            /\ \E tx \in chain' \ chain :
                 \E o \in ToSet(tx.outs) :
                    /\ o.to = <<"B", "payoutPKH">>
                    /\ o.value = c["A"].our + c["A"].their - share - FeeUnit
    ]_dvars

\* A contract with a division, accepted once, becomes active on both sides,
\* unless the connection breaks or B cannot fund it; and once its wallet reports
\* a settlement, B claims the output that pays it.
DlcCompletes ==
  /\ (c["B"].status = "Accepting" /\ c["B"].division # NoDivision)
       ~> \/ bound.accept > 1 \/ bound.drop > 0 \/ c["B"].status = "Error"
          \/ \A n \in Nodes : c[n].status \in {"Active", "Settling", "Closed"}
  /\ (events["B"] # {} /\ bound.accept = 1)
       ~> (bound.accept > 1 \/ \E tx \in events["B"] : [claims |-> tx, by |-> "B"] \in chain)
============================================================================
