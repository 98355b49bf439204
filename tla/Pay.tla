-------------------------------- MODULE Pay --------------------------------
(***************************************************************************)
(* Multi-hop payments: multihop.go, and the parts of htlc.go that claim    *)
(* HTLCs with a preimage and time them out.                                *)
(*                                                                         *)
(* Node 1 pays node N along the channels 1 .. N - 1; channel i joins nodes *)
(* i and i + 1 and its HTLCs are offered by node i.  An update of one      *)
(* channel is one step here (HtlcChannel has its messages); what is        *)
(* modelled is what the nodes do between updates: the payment messages,    *)
(* the goroutines that handlers start, the heights of the wallets, crashes *)
(* and channels that fail or are broken.  All channels have one coin type. *)
(***************************************************************************)
EXTENDS Naturals, Integers, Sequences, FiniteSets, SequencesExt

CONSTANTS
    N,               \* nodes on the route
    Amt,             \* amounts to pay
    Capacity,        \* what node i can offer in channel i: MyAmt - MinOutput - Fee
    DefaultLockTime, \* consts.DefaultLockTime
    Leeway,          \* blocks of leeway per hop
    Slack,           \* blocks a node may take to claim or to time out an HTLC
    Skew,            \* blocks the wallets of two nodes may be apart
    Wrap,            \* 2^32, the modulus of lock times
    Faulty,          \* nodes that may crash
    Breakable,       \* channels that may be broken
    MaxPay, MaxHeight, MaxCrash, MaxBreak \* bounds

ASSUME PayAssumption ==
    /\ N \in Nat /\ N >= 3
    /\ Faulty \subseteq 1 .. N /\ Breakable \subseteq 1 .. N - 1
    /\ {DefaultLockTime, Leeway, Slack, Skew, Wrap, MaxPay, MaxHeight, MaxCrash, MaxBreak} \subseteq Nat
    /\ Amt \subseteq Nat /\ Capacity \in [1 .. N - 1 -> Nat]
    /\ Slack < DefaultLockTime
    /\ Slack + Skew + MaxCrash <= DefaultLockTime \* a hop has time to claim, after every missed block
    /\ MaxHeight + N * (DefaultLockTime + Leeway) < Wrap

Node == 1 .. N
Chan == 1 .. N - 1
Hash == 1 .. MaxPay     \* preimages that node N draws, in order
NoHash == 0

VARIABLES
    inprog,   \* InProgMultihop of each node: [amt, hash, pre, ok], pre: a preimage is known
    net,      \* messages to each node; Request and Ack between 1 and N, Setup from the hop before
    task,     \* goroutines of each node: offers and claims
    htlc,     \* HTLC with a hash in a channel: [st, amt, lock]
    chan,     \* "open", "failed" or "closed"
    conn,     \* the nodes of channel i are connected
    height,   \* CurrentHeight of each node's wallet
    tick,     \* a height event waits in HeightEventChan
    drawn,    \* preimages drawn by node N
    faults,   \* crashes and breaks so far
    dropped   \* history: claims and timeouts a node could not carry out, <<node, hash>>

pvars == <<inprog, net, task, htlc, chan, conn, height, tick, drawn, faults, dropped>>

NoHtlc == [st |-> "none", amt |-> 0, lock |-> 0]
Entry(amt, hash, pre) == [amt |-> amt, hash |-> hash, pre |-> pre, ok |-> FALSE]

PInit ==
    /\ inprog = [n \in Node |-> <<>>]
    /\ net = [n \in Node |-> <<>>]
    /\ task = [n \in Node |-> {}]
    /\ htlc = [i \in Chan |-> [k \in Hash |-> NoHtlc]]
    /\ chan = [i \in Chan |-> "open"]
    /\ conn = [i \in Chan |-> TRUE]
    /\ height = [n \in Node |-> 0]
    /\ tick = [n \in Node |-> FALSE]
    /\ drawn = 0
    /\ faults = [crash |-> 0, break |-> 0]
    /\ dropped = {}

-----------------------------------------------------------------------------
Uncleared(i, k) == htlc[i][k].st = "locked"
Offered(i) == {k \in Hash : htlc[i][k].st \in {"locked", "paid"}}
(* State.MyAmt of node i in channel i, less what has to stay there.        *)
Carried(i) == FoldSet(LAMBDA k, sum : sum + htlc[i][k].amt, 0, Offered(i))
Spendable(i) == Capacity[i] - Carried(i)
Usable(i) == chan[i] = "open" /\ conn[i]
Consume(n, out) == net' = [m \in Node |-> (IF m = n THEN Tail(net[m]) ELSE net[m]) \o out[m]]
Nothing == [m \in Node |-> <<>>]
To(m, msg) == [Nothing EXCEPT ![m] = <<msg>>]
Start(n, t) == task' = [task EXCEPT ![n] = @ \cup {t}]
Receiving(n, type) == net[n] # <<>> /\ Head(net[n]).type = type
Mark(n, k, pre) ==
    [j \in DOMAIN inprog[n] |->
        IF inprog[n][j].hash = k /\ ~inprog[n][j].ok
        THEN [inprog[n][j] EXCEPT !.ok = TRUE, !.pre = pre] ELSE inprog[n][j]]

(* The payer records the payment in memory and asks for a hash.  Bound:    *)
(* payments are ordered before the first block.                            *)
PayMultihop(amt) ==
    /\ height[1] = 0
    /\ Len(inprog[1]) < MaxPay
    /\ inprog' = [inprog EXCEPT ![1] = Append(@, Entry(amt, NoHash, FALSE))]
    /\ net' = [net EXCEPT ![N] = Append(@, [type |-> "Request"])]
    /\ UNCHANGED <<task, htlc, chan, conn, height, tick, drawn, faults, dropped>>

(* The receiver draws a preimage, saves it and answers with the hash; it   *)
(* is never told the amount.                                               *)
MultihopPaymentRequestHandler ==
    /\ Receiving(N, "Request")
    /\ drawn < MaxPay
    /\ drawn' = drawn + 1
    /\ inprog' = [inprog EXCEPT ![N] = Append(@, Entry(0, drawn + 1, TRUE))]
    /\ Consume(N, To(1, [type |-> "Ack", hash |-> drawn + 1]))
    /\ UNCHANGED <<task, htlc, chan, conn, height, tick, faults, dropped>>

(* The oldest payment without a hash gets this one, if the first channel   *)
(* can carry it.                                                           *)
Waiting(n) == {j \in DOMAIN inprog[n] : ~inprog[n][j].ok /\ inprog[n][j].hash = NoHash}
FirstLocktime(h) == h + N * (DefaultLockTime + Leeway)

MultihopPaymentAckHandler ==
    /\ Receiving(1, "Ack")
    /\ Consume(1, Nothing)
    /\ LET k == Head(net[1]).hash
           j == CHOOSE x \in Waiting(1) : \A y \in Waiting(1) : x <= y
           amt == inprog[1][j].amt
       IN IF Waiting(1) # {} /\ Usable(1) /\ Spendable(1) >= amt
          THEN /\ inprog' = [inprog EXCEPT ![1][j].hash = k]
               /\ Start(1, [kind |-> "offer", born |-> height[1], hash |-> k, amt |-> amt,
                            lock |-> FirstLocktime(height[1])])
          ELSE UNCHANGED <<inprog, task>>
    /\ UNCHANGED <<htlc, chan, conn, height, tick, drawn, faults, dropped>>

(* Mutant: a hop gives the next one all the time it has.                   *)
NextLocktime_Same(lock, h) == lock

(* The lock time of the next hop, and whether there is room for one, in    *)
(* the arithmetic of uint32.                                               *)
NextLocktime(lock, h) ==
    ((((lock - h) % Wrap) \div DefaultLockTime - 1) * DefaultLockTime + h) % Wrap
TooClose(lock, h) == (lock - DefaultLockTime) % Wrap < (h + DefaultLockTime) % Wrap

(* The setup message reaches the end of channel n - 1.  The receiver       *)
(* knows the preimage and claims; a hop offers the HTLC onwards.           *)
MultihopPaymentSetupHandler(n) ==
    /\ Receiving(n, "Setup")
    /\ Consume(n, Nothing)
    /\ LET k == Head(net[n]).hash
           in == htlc[n - 1][k]
           known == \E j \in DOMAIN inprog[n] : inprog[n][j].hash = k /\ inprog[n][j].pre
           entry == Entry(0, k, FALSE)
       IN CASE Uncleared(n - 1, k) /\ known ->
                 /\ Start(n, [kind |-> "claim", born |-> height[n], hash |-> k])
                 /\ UNCHANGED inprog
            [] Uncleared(n - 1, k) /\ ~known /\ n < N /\ ~TooClose(in.lock, height[n]) ->
                 /\ inprog' = [inprog EXCEPT ![n] = Append(@, entry)]
                 /\ IF Usable(n) /\ Spendable(n) >= in.amt
                    THEN Start(n, [kind |-> "offer", born |-> height[n], hash |-> k, amt |-> in.amt,
                                   lock |-> NextLocktime(in.lock, height[n])])
                    ELSE UNCHANGED task
            [] OTHER -> UNCHANGED <<inprog, task>>
    /\ UNCHANGED <<htlc, chan, conn, height, tick, drawn, faults, dropped>>

-----------------------------------------------------------------------------
(* OfferHTLC, run by the goroutine, then the setup message.  With the peer *)
(* away or the channel closed no answer comes: the call times out and      *)
(* fails the channel.                                                      *)
OfferHTLC(n, t) ==
    /\ t \in task[n] /\ t.kind = "offer"
    /\ task' = [task EXCEPT ![n] = @ \ {t}]
    /\ IF Usable(n) /\ Spendable(n) >= t.amt
       THEN /\ htlc' = [htlc EXCEPT ![n][t.hash] =
                          [st |-> "locked", amt |-> t.amt, lock |-> t.lock]]
            /\ net' = [net EXCEPT ![n + 1] = Append(@, [type |-> "Setup", hash |-> t.hash])]
            /\ UNCHANGED chan
       ELSE /\ chan' = [chan EXCEPT ![n] = IF @ = "open" /\ ~conn[n] THEN "failed" ELSE @]
            /\ UNCHANGED <<htlc, net>>
    /\ UNCHANGED <<inprog, conn, height, tick, drawn, faults, dropped>>

(* ClaimHTLC clears the incoming HTLC with the preimage, on the chain if   *)
(* the channel was closed.  The node before learns the preimage, from      *)
(* PreimageSig or from the spend it watches for, and starts a claim of its *)
(* own; off the chain its RevHandler marks the payment.  A claim that      *)
(* fails is not tried again.                                               *)
ClaimHTLC(n, t) ==
    /\ t \in task[n] /\ t.kind = "claim"
    /\ LET i == n - 1
           k == t.hash
           done == i > 0 /\ Uncleared(i, k) /\ (Usable(i) \/ chan[i] = "closed")
           upstream == [kind |-> "claim", born |-> height[i], hash |-> k]
       IN IF done
          THEN /\ htlc' = [htlc EXCEPT ![i][k].st = "paid"]
               /\ task' = [task EXCEPT ![n] = @ \ {t}, ![i] = @ \cup {upstream}]
               /\ inprog' = [inprog EXCEPT
                    ![n] = Mark(n, k, TRUE),
                    ![i] = IF chan[i] = "open" THEN Mark(i, k, TRUE) ELSE @]
               /\ UNCHANGED dropped
          ELSE /\ task' = [task EXCEPT ![n] = @ \ {t}]
               /\ dropped' = dropped \cup {<<n, k>>}
               /\ UNCHANGED <<htlc, inprog>>
    /\ UNCHANGED <<net, chan, conn, height, tick, drawn, faults>>

(* Mutants: HTLCs of closed channels are passed over; an entry is marked   *)
(* as if a preimage had come.                                              *)
Expired_Open(n) == {k \in Hash : n < N /\ chan[n] # "closed" /\ Uncleared(n, k)
                                  /\ height[n] >= htlc[n][k].lock}
TimedOut_Paid(s, ks) ==
    [j \in DOMAIN s |-> IF s[j].hash \in ks /\ ~s[j].ok
                        THEN [s[j] EXCEPT !.ok = TRUE, !.pre = TRUE] ELSE s[j]]

(* RevHandler takes the payments of HTLCs cleared without a preimage for   *)
(* succeeded, and keeps the zero preimage.                                 *)
TimedOut(s, ks) ==
    [j \in DOMAIN s |-> IF s[j].hash \in ks /\ ~s[j].ok
                        THEN [s[j] EXCEPT !.ok = TRUE, !.pre = FALSE] ELSE s[j]]

(* ClaimHTLCTimeouts, called for each height event: the node's own HTLCs   *)
(* that have expired are cleared without a preimage.  A peer whose wallet  *)
(* is behind drops the message together with its token, and the channel    *)
(* fails.  RevHandler runs at the peer; if an update of the peer's own     *)
(* crosses the timeout, it runs at this node too.                          *)
Expired(n) == {k \in Hash : n < N /\ Uncleared(n, k) /\ height[n] >= htlc[n][k].lock}
Agreed(n) == {k \in Expired(n) : \/ chan[n] = "closed"
                                 \/ Usable(n) /\ height[n + 1] >= htlc[n][k].lock}
ClaimHTLCTimeouts(n) ==
    /\ tick[n]
    /\ tick' = [tick EXCEPT ![n] = FALSE]
    /\ LET agreed == Agreed(n)
           refused == Expired(n) \ agreed
       IN \E crossed \in SUBSET agreed :
          /\ htlc' = [htlc EXCEPT ![n] = [k \in Hash |->
                        IF k \in agreed THEN [@[k] EXCEPT !.st = "refunded"] ELSE @[k]]]
          /\ chan' = [chan EXCEPT ![n] = IF Usable(n) /\ refused # {} THEN "failed" ELSE @]
          /\ inprog' = IF chan[n] = "closed" \/ n = N THEN inprog
                       ELSE [inprog EXCEPT ![n] = TimedOut(@, crossed), ![n + 1] = TimedOut(@, agreed)]
          /\ dropped' = dropped \cup {<<n, k>> : k \in refused}
    /\ UNCHANGED <<net, task, conn, height, drawn, faults>>

-----------------------------------------------------------------------------
(* The environment. *)

(* A block reaches a wallet.  Nodes are prompt: a goroutine is done before *)
(* more than Slack blocks have passed, and a height event is handled       *)
(* before the next block.  Messages may take as long as they like.  An     *)
(* event means something only to a node with HTLCs of its own.  Blocks     *)
(* beyond MaxHeight still bring events.                                    *)
Prompt(n) == ~tick[n] /\ \A t \in task[n] : height[n] < t.born + Slack
NewBlock(n) ==
    /\ \A m \in Node : height[n] < height[m] + Skew /\ Prompt(m)
    /\ height' = [height EXCEPT ![n] = IF @ < MaxHeight THEN @ + 1 ELSE @]
    /\ tick' = [tick EXCEPT ![n] = n < N /\ \E k \in Hash : Uncleared(n, k)]
    /\ UNCHANGED <<inprog, net, task, htlc, chan, conn, drawn, faults, dropped>>

(* The payments that were saved, in their order: those with a hash.        *)
Saved(s) ==
    LET at == {j \in DOMAIN s : s[j].hash # NoHash}
        nth(i) == CHOOSE j \in at : Cardinality({x \in at : x <= j}) = i
    IN [i \in 1 .. Cardinality(at) |-> s[nth(i)]]

(* The node restarts: goroutines, queued messages and the payments without *)
(* a hash are gone, and so are its connections.                            *)
Crash(n) ==
    /\ n \in Faulty /\ faults.crash < MaxCrash
    /\ faults' = [faults EXCEPT !.crash = @ + 1]
    /\ task' = [task EXCEPT ![n] = {}]
    /\ dropped' = dropped \cup {<<n, t.hash>> : t \in {u \in task[n] : u.kind = "claim"}}
    /\ inprog' = [inprog EXCEPT ![n] = Saved(@)]
    /\ net' = [net EXCEPT ![n] = <<>>]
    /\ conn' = [i \in Chan |-> conn[i] /\ n \notin {i, i + 1}]
    /\ tick' = [tick EXCEPT ![n] = FALSE]
    /\ UNCHANGED <<htlc, chan, height, drawn>>

Reconnect(i) ==
    /\ ~conn[i]
    /\ conn' = [conn EXCEPT ![i] = TRUE]
    /\ UNCHANGED <<inprog, net, task, htlc, chan, height, tick, drawn, faults, dropped>>

(* A user breaks the channel; both nodes see the funding output spent.     *)
BreakChannel(i) ==
    /\ i \in Breakable /\ faults.break < MaxBreak
    /\ chan[i] # "closed"
    /\ chan' = [chan EXCEPT ![i] = "closed"]
    /\ faults' = [faults EXCEPT !.break = @ + 1]
    /\ UNCHANGED <<inprog, net, task, htlc, conn, height, tick, drawn, dropped>>

Run(n) == \/ \E t \in task[n] : OfferHTLC(n, t) \/ ClaimHTLC(n, t)
          \/ ClaimHTLCTimeouts(n)
          \/ n = 1 /\ MultihopPaymentAckHandler
          \/ n = N /\ MultihopPaymentRequestHandler
          \/ n > 1 /\ MultihopPaymentSetupHandler(n)

PNext ==
    \/ \E amt \in Amt : PayMultihop(amt)
    \/ \E n \in Node : Run(n) \/ NewBlock(n) \/ Crash(n)
    \/ \E i \in Chan : Reconnect(i) \/ BreakChannel(i)

(* Goroutines and handlers run, blocks keep coming and peers reconnect.    *)
PFair == /\ \A n \in Node : WF_pvars(Run(n)) /\ SF_pvars(NewBlock(n))
         /\ \A i \in Chan : WF_pvars(Reconnect(i))
PSpec == PInit /\ [][PNext]_pvars /\ PFair

-----------------------------------------------------------------------------
(* A hop whose outgoing HTLC was taken with the preimage gets the incoming *)
(* one too, however late the preimage came: the side of the payer cannot   *)
(* take it back first, unless the hop could not claim or time out when it  *)
(* tried to.                                                               *)
HopNeverLoses ==
    \A n \in 2 .. N - 1, k \in Hash :
        htlc[n][k].st = "paid" /\ htlc[n - 1][k].st = "refunded" => <<n, k>> \in dropped

(* A payment that the payer lists as succeeded has reached the receiver,   *)
(* unless the preimage listed with it is zero: then the payer has its      *)
(* money back, for good.                                                   *)
SuccessMeansPaid ==
    \A j \in DOMAIN inprog[1] :
        LET e == inprog[1][j]
        IN e.ok => IF e.pre THEN htlc[N - 1][e.hash].st = "paid" ELSE htlc[1][e.hash].st = "refunded"

(* Every HTLC is in the end paid or refunded, except in a channel that     *)
(* failed.                                                                 *)
HtlcsResolve ==
    \A i \in Chan, k \in Hash :
        Uncleared(i, k) /\ htlc[i][k].lock <= MaxHeight
            ~> (~Uncleared(i, k) \/ chan[i] = "failed")

=============================================================================
