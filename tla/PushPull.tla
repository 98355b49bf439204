------------------------------ MODULE PushPull ------------------------------
(***************************************************************************)
(* Two nodes that push money to each other over one channel                *)
(* (qln/pushpull.go), with the parts of the node the protocol runs in:     *)
(*   - the channel state in the node's database (disk), which every        *)
(*     handler reloads first and saves before it answers;                  *)
(*   - the Qchan instances in memory.  Each has a mutex and a one-slot     *)
(*     channel ClearToSend (cts).  PopulateQchanMap makes a new instance   *)
(*     on every connection and again at the first message of it (gen), and *)
(*     a goroutine fills the slot of each new instance (fill);             *)
(*   - user calls of PushChannel, each on the instance it was given.  Its  *)
(*     mutex is all that covers a call from reload to save: a call that    *)
(*     outlives its connection runs beside the handlers of the next        *)
(*     instance, and either may write over what the other wrote (raced);   *)
(*   - one message handler at a time (the mutex of makeNeoOmniHandler);    *)
(*   - an ordered connection that loses what is in flight when it breaks;  *)
(*   - the wallet's outpoint events, which rewrite the channel record, and *)
(*     BreakChannel, which broadcasts the stored commitment transaction.   *)
(***************************************************************************)
EXTENDS Qchan

CONSTANTS A, B,          \* the two nodes; A funded the channel
          InitAmtA,      \* what A owns in state 0
          CallA, CallB,  \* the calls A's and B's users make (bounds the pushes)
          PushAmt,       \* amounts that users push
          MaxReconnect,  \* how often the connection breaks
          MaxChainOp,    \* breaks and outpoint events per node
          SaveRace,      \* TRUE: others run between the two halves of SaveQchanUtxoData
          Timeouts       \* TRUE: an answer may take longer than ChannelTimeout

ASSUME NodeAssumption == A # B
ASSUME BoundAssumption ==
    /\ InitAmtA \in 0 .. Value
    /\ PushAmt \subseteq Nat
    /\ MaxReconnect \in Nat /\ MaxChainOp \in Nat
    /\ Timeouts \in BOOLEAN /\ SaveRace \in BOOLEAN

(* What FundChannel checks: the funder keeps an output, the other side gets *)
(* one or nothing.                                                         *)
ASSUME FundingAssumption ==
    /\ InitAmtA >= MinOutput + Fee
    /\ Value - InitAmtA = 0 \/ Value - InitAmtA >= MinOutput + Fee

Node == {A, B}
Peer(n) == IF n = A THEN B ELSE A

Call == CallA \cup CallB
CallsOf(n) == IF n = A THEN CallA ELSE CallB

(* Generations of Qchan instances: two per connection but the first, whose *)
(* instance was set up by the funding handlers.                            *)
Gen == 1 .. (1 + 2 * MaxReconnect)

VARIABLES disk,      \* the StatCom in each node's database
          closed,    \* CloseData.Closed in each node's database
          gen,       \* the instance in peer.QCs
          cts,       \* ClearToSend of each instance holds its token
          fill,      \* the goroutine of NewQchanFromChanData has not sent yet
          inited,    \* the first message of this connection was seen
          stuck,     \* instance on which the message handler is blocked, or 0
          failed,    \* instances whose copy of the state is marked Failed
          call,      \* the user calls of PushChannel
          net,       \* messages on their way to each node
          saving,    \* channel records about to be written back
          revoked,   \* history: indexes of the states each node revoked
          bcast,     \* history: indexes of the states each node broadcast
          raced,     \* history: nodes where a save has undone another one
          conns, chainops  \* counters of the bounded environment

ram == <<gen, cts, fill, inited, stuck>>
db == <<disk, closed, failed>>
env == <<conns, chainops, saving>>
hist == <<revoked, bcast, raced>>
vars == <<db, ram, call, net, env, hist>>

(* What a call does, on which instance, and the state it has reloaded and  *)
(* not saved yet, if others can write meanwhile.                           *)
PC == {"idle", "enter", "wait", "failing", "ok", "refused", "failed", "error", "lost"}
Nothing == <<>>
CallState == [pc : PC, gen : Gen \cup {0}, amt : PushAmt \cup {0},
              seen : Seq(StatCom)]

-----------------------------------------------------------------------------
(* The channel as funding leaves it: state 0, a signature for it, and the  *)
(* first three elkrem points and two HTLC bases of the other side.         *)
InitState(amt) ==
    [StateIdx |-> 0, MyAmt |-> amt, Delta |-> 0, Collision |-> 0,
               ElkPoint |-> 0, NextElkPoint |-> 1, N2ElkPoint |-> 2,
               Sig |-> [idx |-> 0, elk |-> 0, own |-> OutAmt(amt), other |-> OutAmt(Value - amt),
                        htlcs |-> {}],
               HTLCIdx |-> 0, InProgHTLC |-> NoHTLC, CollidingHTLC |-> NoHTLC,
               Colliding |-> {}, NextHTLCBase |-> 0, N2HTLCBase |-> 1,
               MyNextHTLCBase |-> 0, MyN2HTLCBase |-> 1, HTLCs |-> <<>>, Failed |-> FALSE]

Init ==
    /\ disk = [n \in Node |-> InitState(IF n = A THEN InitAmtA ELSE Value - InitAmtA)]
    /\ closed = [n \in Node |-> FALSE]
    /\ gen = [n \in Node |-> 1]
    /\ cts = [n \in Node |-> [g \in Gen |-> g = 1]]
    /\ fill = [n \in Node |-> {}]
    /\ inited = [n \in Node |-> TRUE]
    /\ stuck = [n \in Node |-> 0]
    /\ failed = [n \in Node |-> {}]
    /\ call = [n \in Node |-> [c \in Call |->
                              [pc |-> "idle", gen |-> 0, amt |-> 0, seen |-> Nothing]]]
    /\ net = [n \in Node |-> <<>>]
    /\ saving = [n \in Node |-> {}]
    /\ revoked = [n \in Node |-> {}]
    /\ bcast = [n \in Node |-> {}]
    /\ raced = {}
    /\ conns = 0
    /\ chainops = [n \in Node |-> 0]

-----------------------------------------------------------------------------
(* PushChannel, the user's side.                                           *)

(* Who has the mutex of instance g: a handler that is blocked keeps it for *)
(* good, a call has it from its reload to its save.                        *)
Holds(n, c, g) == call[n][c].gen = g /\ call[n][c].seen # Nothing
Unlocked(n, c) == LET g == call[n][c].gen
                  IN stuck[n] # g /\ \A d \in Call \ {c} : ~Holds(n, d, g)

Return(n, c, pc) ==
    call' = [call EXCEPT ![n][c] = [@ EXCEPT !.pc = pc, !.gen = 0, !.seen = Nothing]]

(* Instance g reloads or changes the state: its copy now shows whether the *)
(* channel has failed.  Other instances keep what they had.                *)
Copy(n, g, st) ==
    failed' = [failed EXCEPT ![n] = IF st.Failed THEN @ \cup {g} ELSE @ \ {g}]
Save(n, g, st) == disk' = [disk EXCEPT ![n] = st] /\ Copy(n, g, st)

(* The state that call c works on.                                         *)
View(n, c) == IF call[n][c].seen = Nothing THEN disk[n] ELSE call[n][c].seen[1]

(* Call c saves st, which it made from the state read.  Another instance   *)
(* may have saved since then; or its handler has already reloaded, and     *)
(* what it saves in the end undoes this.                                   *)
CallSave(n, c, read, st) ==
    LET g == call[n][c].gen
    IN \/ /\ Save(n, g, st)
          /\ raced' = IF read = disk[n] THEN raced ELSE raced \cup {n}
       \/ /\ g # gen[n] /\ inited[n] /\ net[n] # <<>> /\ stuck[n] = 0
          /\ Copy(n, g, st)
          /\ raced' = raced \cup {n}
          /\ UNCHANGED disk

(* ReloadQchanState, long before the save: the mutex of instance g keeps   *)
(* everyone out until then but those who use another instance.             *)
OtherInstance(n, g) == gen[n] # g \/ \E c \in Call : call[n][c].gen \notin {0, g}
LoadState(n, c, pc) ==
    /\ OtherInstance(n, call[n][c].gen)
    /\ Copy(n, call[n][c].gen, disk[n])
    /\ call' = [call EXCEPT ![n][c] = [@ EXCEPT !.pc = pc, !.seen = <<disk[n]>>]]
    /\ UNCHANGED <<disk, raced>>

(* FailChannel reloads the state, marks it and saves it.                   *)
FailCall(n, c) ==
    \/ CallSave(n, c, disk[n], FailChannel(disk[n])) /\ Return(n, c, "failed")
    \/ LoadState(n, c, "failing")

(* The RPC looks up the instance; Closed is checked here, and Failed in    *)
(* the instance's copy of the state, long before the channel is ours.      *)
PushStart(n, c, amt) ==
    /\ c \in CallsOf(n)
    /\ call[n][c].pc = "idle"
    /\ amt > 0
    /\ ~closed[n]
    /\ gen[n] \notin failed[n]
    /\ call' = [call EXCEPT ![n][c] = 
                 [pc |-> "enter", gen |-> gen[n], amt |-> amt, seen |-> Nothing]]
    /\ UNCHANGED <<db, ram, net, env, hist>>

(* The balance checks of PushChannel, sign of amt as in the code.          *)
PushAffordable(st, amt) ==
    /\ MyBalance(st) - (Fee - amt) >= MinOutput
    /\ TheirBalance(st) + (amt - Fee) >= MinOutput

HasChannel(n, c) == /\ call[n][c].pc = "enter"
                    /\ Unlocked(n, c)
                    /\ cts[n][call[n][c].gen]

(* A call with the token reloads the state.                                *)
CallReload(n, c) ==
    /\ HasChannel(n, c)
    /\ call[n][c].seen = Nothing
    /\ LoadState(n, c, "enter")
    /\ UNCHANGED <<closed, ram, net, env, revoked, bcast>>

(* Mutant: looks at the slot without emptying it.                          *)
TakeCts_Peek(n, g) == cts' = cts

TakeCts(n, g) == cts' = [cts EXCEPT ![n][g] = FALSE]

(* Not enough money: the token goes back, the call returns an error.       *)
PushRefused(n, c) ==
    /\ HasChannel(n, c)
    /\ ~PushAffordable(View(n, c), call[n][c].amt)
    /\ Copy(n, call[n][c].gen, View(n, c))
    /\ Return(n, c, "refused")
    /\ UNCHANGED <<disk, closed, ram, net, env, hist>>

(* A channel that is not at rest is failed, and the token is not put back. *)
PushNotAtRest(n, c) ==
    /\ HasChannel(n, c)
    /\ PushAffordable(View(n, c), call[n][c].amt)
    /\ View(n, c).Delta # 0
    /\ TakeCts(n, call[n][c].gen)
    /\ FailCall(n, c)
    /\ UNCHANGED <<closed, gen, fill, inited, stuck, net, env, revoked, bcast>>

(* The rest of FailChannel.                                                *)
FailSave(n, c) ==
    /\ call[n][c].pc = "failing"
    /\ CallSave(n, c, View(n, c), FailChannel(View(n, c)))
    /\ Return(n, c, "failed")
    /\ UNCHANGED <<closed, ram, net, env, revoked, bcast>>

(* The push itself: save the negative delta, then sign and send.  If the   *)
(* transaction cannot be built, the call returns with the delta saved and  *)
(* the token gone.                                                         *)
PushSend(n, c) ==
    /\ HasChannel(n, c)
    /\ PushAffordable(View(n, c), call[n][c].amt)
    /\ View(n, c).Delta = 0
    /\ TakeCts(n, call[n][c].gen)
    /\ LET st == [View(n, c) EXCEPT !.Delta = - call[n][c].amt]
       IN /\ CallSave(n, c, View(n, c), st)
          /\ \/ /\ Buildable(DeltaSigState(st))
                /\ net' = [net EXCEPT ![Peer(n)] = Append(@, SendDeltaSig(st))]
                /\ call' = [call EXCEPT ![n][c] = [@ EXCEPT !.pc = "wait", !.seen = Nothing]]
             \/ /\ ~Buildable(DeltaSigState(st))
                /\ Return(n, c, "error")
                /\ UNCHANGED net
    /\ UNCHANGED <<closed, gen, fill, inited, stuck, env, revoked, bcast>>

Waiting(n, c) == call[n][c].pc = "wait" /\ Unlocked(n, c)

(* The token is back: take it, put it back, report success.                *)
PushDone(n, c) ==
    /\ Waiting(n, c)
    /\ cts[n][call[n][c].gen]
    /\ Return(n, c, "ok")
    /\ UNCHANGED <<db, ram, net, env, hist>>

(* ChannelTimeout seconds without seeing the token: the channel is failed. *)
PushTimeout(n, c) ==
    /\ Timeouts
    /\ Waiting(n, c)
    /\ FailCall(n, c)
    /\ UNCHANGED <<closed, ram, net, env, revoked, bcast>>

-----------------------------------------------------------------------------
(* The message handlers.  Each is one step: they run under the mutex of    *)
(* the instance and one at a time.                                         *)

Receiving(n, type) ==
    /\ stuck[n] = 0
    /\ inited[n]
    /\ \A c \in Call : ~Holds(n, c, gen[n])
    /\ net[n] # <<>>
    /\ Head(net[n]).type = type

(* Consume the message, save st, send the reply.                           *)
Answer(n, st, reply) ==
    /\ Save(n, gen[n], st)
    /\ net' = [net EXCEPT ![n] = Tail(@), ![Peer(n)] = @ \o reply]
    /\ revoked' = [revoked EXCEPT ![n] = @ \cup {reply[i].Elk : i \in DOMAIN reply}]
    /\ UNCHANGED raced

Ignore(n) == Answer(n, disk[n], <<>>)
Fail(n) == Answer(n, FailChannel(disk[n]), <<>>)
ReplyREV(st) == IF CanRevoke(st) THEN <<SendREV(st)>> ELSE <<>>

(* Signing after the save: an unbuildable transaction fails the channel.   *)
AnswerSigned(n, st, signed, msg) ==
    \/ Buildable(signed) /\ Answer(n, st, <<msg>>)
    \/ ~Buildable(signed) /\ Answer(n, FailChannel(st), <<>>)

(* Mutant: the slot is not filled again.                                   *)
AssertClearToSend_Forgotten(n) == UNCHANGED <<cts, stuck>>

(* ClearToSend <- true: blocks the handler if the slot is full.            *)
AssertClearToSend(n) ==
    \/ /\ ~cts[n][gen[n]]
       /\ cts' = [cts EXCEPT ![n][gen[n]] = TRUE]
       /\ UNCHANGED stuck
    \/ /\ cts[n][gen[n]]
       /\ stuck' = [stuck EXCEPT ![n] = gen[n]]
       /\ UNCHANGED cts

(* DeltaSigHandler takes the token; without one it is a collision.         *)
DeltaSigHandler(n) ==
    /\ Receiving(n, "DeltaSig")
    /\ TakeCts(n, gen[n])
    /\ LET m == Head(net[n])
           collision == ~cts[n][gen[n]]
           seen == IF collision THEN MarkDeltaCollision(disk[n], m.Delta) ELSE disk[n]
           saved == DeltaSigSaved(disk[n], seen, m.Delta, m.Sig, collision)
           good == DeltaSigOK(seen, m.Delta, m.Sig, collision)
       IN \/ closed[n] /\ Ignore(n)
          \/ ~closed[n] /\ seen.Delta > 0 /\ Answer(n, disk[n], ReplyREV(seen))
          \/ ~closed[n] /\ seen.Delta <= 0 /\ ~good /\ Fail(n)
          \/ /\ ~closed[n] /\ seen.Delta <= 0 /\ good
             /\ IF DeltaSigGap(saved)
                THEN AnswerSigned(n, saved, GapSigRevState(saved), SendGapSigRev(saved))
                ELSE AnswerSigned(n, saved, SigRevState(saved), SendSigRev(saved))
    /\ UNCHANGED <<closed, gen, fill, inited, stuck, call, env, bcast>>

(* GapSigRevHandler leaves the channel expecting a Rev.                    *)
GapSigRevHandler(n) ==
    /\ Receiving(n, "GapSigRev")
    /\ LET m == Head(net[n])
           good == GapSigRevExpected(disk[n]) /\ GapSigRevOK(disk[n], m)
           saved == GapSigRevSaved(disk[n], m)
       IN \/ ~good /\ Fail(n)
          \/ good /\ Answer(n, saved, <<SendREV(saved)>>)
    /\ UNCHANGED <<closed, ram, call, env, bcast>>

(* SigRevHandler; with nothing pending the last Rev is repeated.           *)
SigRevHandler(n) ==
    /\ Receiving(n, "SigRev")
    /\ LET m == Head(net[n])
           st == disk[n]
           good == st.Delta <= 0 /\ SigRevExpected(st) /\ SigRevOK(st, m)
           saved == SigRevSaved(st, m)
       IN \/ /\ NothingPending(st)
             /\ Answer(n, IF CanRevoke(st) THEN st ELSE FailChannel(st), ReplyREV(st))
             /\ UNCHANGED <<cts, stuck>>
          \/ /\ ~NothingPending(st) /\ ~good
             /\ Fail(n)
             /\ UNCHANGED <<cts, stuck>>
          \/ /\ ~NothingPending(st) /\ good
             /\ Answer(n, saved, <<SendREV(saved)>>)
             /\ AssertClearToSend(n)
    /\ UNCHANGED <<closed, gen, fill, inited, call, env, bcast>>

(* RevHandler takes MultihopMutex for every HTLC it clears and gives it    *)
(* back only when it returns: the second HTLC of one Rev waits for ever,   *)
(* before anything is saved, with the channel locked.                      *)
RelocksMultihop(st) ==
    LET settling == {i \in DOMAIN st.HTLCs : st.HTLCs[i].Clearing /\ ~st.HTLCs[i].Cleared}
    IN \E i, j \in settling : i # j
HangOnMultihop(n) == stuck' = [stuck EXCEPT ![n] = gen[n]] /\ UNCHANGED cts

(* RevHandler; a Rev that meets a push of ours in flight asks for a repeat.*)
RevHandler(n) ==
    /\ Receiving(n, "Rev")
    /\ LET m == Head(net[n])
           st == disk[n]
           good == IngestElkrem(st, m.Elk)
       IN \/ /\ NothingPending(st)
             /\ Ignore(n)
             /\ UNCHANGED <<cts, stuck>>
          \/ /\ st.Delta < 0
             /\ Answer(n, st, ReplyREV(st))
             /\ UNCHANGED <<cts, stuck>>
          \/ /\ ~NothingPending(st) /\ st.Delta >= 0 /\ ~good
             /\ Fail(n)
             /\ UNCHANGED <<cts, stuck>>
          \/ /\ ~NothingPending(st) /\ st.Delta >= 0 /\ good
             /\ IF RelocksMultihop(st)
                THEN Ignore(n) /\ HangOnMultihop(n)
                ELSE Answer(n, RevSaved(st, m), <<>>) /\ AssertClearToSend(n)
    /\ UNCHANGED <<closed, gen, fill, inited, call, env, bcast>>

-----------------------------------------------------------------------------
(* Instances, connections, crashes.                                        *)

(* NewQchanFromChanData: a copy of the stored state, an empty slot and a   *)
(* goroutine that will fill it.                                            *)
PopulateQchanMap(S) ==
    /\ gen' = [n \in Node |-> IF n \in S THEN gen[n] + 1 ELSE gen[n]]
    /\ failed' = [n \in Node |-> IF n \in S /\ disk[n].Failed
                                 THEN failed[n] \cup {gen[n] + 1} ELSE failed[n]]

NewFill(n, running) == running \cup {gen[n] + 1}

(* The first message of a connection makes the handler repopulate.         *)
Repopulate(n) ==
    /\ stuck[n] = 0
    /\ ~inited[n]
    /\ PopulateQchanMap({n})
    /\ fill' = [fill EXCEPT ![n] = NewFill(n, @)]
    /\ inited' = [inited EXCEPT ![n] = TRUE]
    /\ UNCHANGED <<disk, closed, cts, stuck, call, net, env, hist>>

FirstMessage(n) == net[n] # <<>> /\ Repopulate(n)

(* The goroutine of an instance that is still in use.                      *)
InUse(n) == {gen[n]} \cup {call[n][c].gen : c \in Call}
FillClearToSend(n, g) ==
    /\ g \in InUse(n)
    /\ g \in fill[n]
    /\ ~cts[n][g]
    /\ cts' = [cts EXCEPT ![n][g] = TRUE]
    /\ fill' = [fill EXCEPT ![n] = @ \ {g}]
    /\ UNCHANGED <<db, gen, inited, stuck, call, net, env, hist>>

(* The connection breaks and is made again; the nodes in S also restart,   *)
(* which ends their calls and goroutines.  Nothing is sent again.          *)
Reconnect(S) ==
    /\ conns < MaxReconnect
    /\ conns' = conns + 1
    /\ net' = [n \in Node |-> <<>>]
    /\ inited' = [n \in Node |-> FALSE]
    /\ PopulateQchanMap(Node)
    /\ fill' = [n \in Node |-> NewFill(n, IF n \in S THEN {} ELSE fill[n])]
    /\ stuck' = [n \in Node |-> IF n \in S THEN 0 ELSE stuck[n]]
    /\ call' = [n \in Node |-> [c \in Call |->
          IF n \in S /\ call[n][c].pc \in {"enter", "wait", "failing"}
          THEN [call[n][c] EXCEPT !.pc = "lost", !.gen = 0, !.seen = Nothing] ELSE call[n][c]]]
    /\ saving' = [n \in Node |-> IF n \in S THEN {} ELSE saving[n]]
    /\ UNCHANGED <<disk, closed, cts, chainops, hist>>

-----------------------------------------------------------------------------
(* The chain.                                                              *)

(* SaveQchanUtxoData reads the whole channel record and writes it back, in *)
(* two database transactions and under no lock.                            *)
SaveQchanUtxoData(n, nowClosed) ==
    \/ /\ ~SaveRace
       /\ closed' = [closed EXCEPT ![n] = nowClosed]
       /\ UNCHANGED saving
    \/ /\ SaveRace
       /\ saving' = [saving EXCEPT ![n] = @ \cup {[state |-> disk[n], closed |-> nowClosed]}]
       /\ UNCHANGED closed

SaveQChan(n, rec) ==
    /\ disk' = [disk EXCEPT ![n] = rec.state]
    /\ raced' = IF rec.state = disk[n] THEN raced ELSE raced \cup {n}
    /\ closed' = [closed EXCEPT ![n] = rec.closed]
    /\ saving' = [saving EXCEPT ![n] = @ \ {rec}]
    /\ UNCHANGED <<failed, ram, call, net, conns, chainops, revoked, bcast>>

ChainOp(n) == /\ chainops[n] < MaxChainOp
              /\ chainops' = [chainops EXCEPT ![n] = @ + 1]

(* BreakChannel, on an instance of its own, under no lock.  Closed is set  *)
(* in that instance, after the record was saved.                           *)
BreakChannel(n) ==
    /\ ChainOp(n)
    /\ ~closed[n]
    /\ Buildable(BreakState(disk[n]))
    /\ bcast' = [bcast EXCEPT ![n] = @ \cup {disk[n].StateIdx}]
    /\ SaveQchanUtxoData(n, closed[n])
    /\ UNCHANGED <<disk, failed, ram, call, net, conns, revoked, raced>>

(* OPEventHandler hears that the funding outpoint was confirmed or spent.  *)
OPEventHandler(n, spend) ==
    /\ ChainOp(n)
    /\ spend => \E m \in Node : bcast[m] # {}
    /\ SaveQchanUtxoData(n, closed[n] \/ spend)
    /\ UNCHANGED <<disk, failed, ram, call, net, conns, hist>>

-----------------------------------------------------------------------------
Consume(n) == DeltaSigHandler(n) \/ GapSigRevHandler(n) \/ SigRevHandler(n) \/ RevHandler(n)
Handle(n) == Consume(n) \/ FirstMessage(n)

(* A call from its reload to its answer.                                   *)
CallStep(n, c) == CallReload(n, c) \/ FailSave(n, c) \/ PushDone(n, c)
UserCall(n, c) == PushRefused(n, c) \/ PushNotAtRest(n, c) \/ PushSend(n, c) \/ CallStep(n, c)

Environment ==
    \/ \E S \in SUBSET Node : Reconnect(S)
    \/ \E n \in Node : BreakChannel(n) \/ (\E spend \in BOOLEAN : OPEventHandler(n, spend))
    \/ \E n \in Node : \E rec \in saving[n] : SaveQChan(n, rec)

Next ==
    \/ \E n \in Node : Handle(n) \/ (\E g \in Gen : FillClearToSend(n, g))
    \/ \E n \in Node, c \in Call :
          (\E amt \in PushAmt : PushStart(n, c, amt)) \/ UserCall(n, c) \/ PushTimeout(n, c)
    \/ Environment

Spec == Init /\ [][Next]_vars

-----------------------------------------------------------------------------
(* Every variable has its type.                                            *)
TypeOK ==
    /\ disk \in [Node -> StatCom]
    /\ closed \in [Node -> BOOLEAN]
    /\ failed \in [Node -> SUBSET Gen]
    /\ gen \in [Node -> Gen]
    /\ cts \in [Node -> [Gen -> BOOLEAN]]
    /\ fill \in [Node -> SUBSET Gen]
    /\ inited \in [Node -> BOOLEAN]
    /\ stuck \in [Node -> Gen \cup {0}]
    /\ call \in [Node -> [Call -> CallState]]
    /\ net \in [Node -> Seq(Messages)]
    /\ saving \in [Node -> SUBSET [state : StatCom, closed : BOOLEAN]]
    /\ revoked \in [Node -> SUBSET Nat]
    /\ bcast \in [Node -> SUBSET Nat]
    /\ raced \subseteq Node
    /\ conns \in 0 .. MaxReconnect
    /\ chainops \in [Node -> 0 .. MaxChainOp]

(* Only an undone save can leave a node with a state that it has revoked:  *)
(* otherwise, whatever was sent in a SigRev, GapSigRev or Rev, the         *)
(* database is already past it, across timeouts, lost messages, restarts,  *)
(* calls on old instances and the events of the wallet.                    *)
RevocationSafety ==
    \A n \in Node \ raced : \A i \in revoked[n] : i < disk[n].StateIdx

(* At every moment, in the middle of an update or a collision too, the     *)
(* stored signature is one for the transaction BreakChannel would rebuild  *)
(* from the stored state, and that transaction can be built.               *)
Breakable ==
    \A n \in Node : VerifySigs(BreakState(disk[n]), disk[n].Sig)

(* A node that expects no Rev has got one for every state before its own,  *)
(* so the money it counts as received cannot be taken back by an old       *)
(* transaction of the peer.                                                *)
Final ==
    \A n \in Node : disk[n].Delta <= 0 /\ disk[n].Collision = 0
        => 0 .. (disk[n].StateIdx - 1) \subseteq revoked[Peer(n)]

(* The push of n that waits for an answer, and whether the peer holds a    *)
(* state that contains it.                                                 *)
Out(n) == IF disk[n].Delta < 0 THEN - disk[n].Delta ELSE 0
Taken(n) ==
    LET p == disk[Peer(n)]
    IN /\ disk[n].Delta < 0
       /\ p.Collision > 0 \/ p.StateIdx = disk[n].StateIdx + 1

Books == INSTANCE Ledger WITH
            Opening <- [n \in Node |-> IF n = A THEN InitAmtA ELSE Value - InitAmtA],
            Amount <- PushAmt \ {0},
            book <- [n \in Node |-> disk[n].MyAmt],
            out <- [n \in Node |-> Out(n)],
            taken <- [n \in Node |-> Taken(n)]

(* Until the connection breaks, every step of the protocol is a step of    *)
(* the ledger: money is never deducted before the peer holds it, never     *)
(* credited twice, never more than the payer owns, and a push is given up  *)
(* only if the peer does not hold it.  Nothing is sent again after a       *)
(* break, so a push may then stay between the two books for good.          *)
ImplementsLedger ==
    Books!LedgerInit /\ [][conns' = 0 => Books!LedgerNext]_<<Books!ledger, conns>>

Returned == \A n \in Node, c \in Call : call[n][c].pc \notin {"enter", "wait", "failing"}
AtRest == \A n \in Node : disk[n].Delta = 0 /\ net[n] = <<>>

(* Whenever both databases are at rest, and neither has lost a save, they  *)
(* describe the same state: its number, its split of the money, and the    *)
(* elkrem points of the next two.                                          *)
Agreement ==
    AtRest /\ raced = {} => /\ disk[A].MyAmt + disk[B].MyAmt = Value
              /\ \A n \in Node :
                    LET p == disk[Peer(n)]
                    IN /\ disk[n].StateIdx = p.StateIdx
                       /\ disk[n].ElkPoint = p.StateIdx
                       /\ disk[n].NextElkPoint = p.StateIdx + 1
                       /\ disk[n].N2ElkPoint = p.StateIdx + 2

(* What a node's users were told was pushed.                               *)
Confirmed(n) == MapThenSumSet(LAMBDA c : IF call[n][c].pc = "ok" THEN call[n][c].amt ELSE 0, Call)

(* No handler is blocked on ClearToSend with the channel's mutex held.     *)
NeverStuck == \A n \in Node : stuck[n] = 0

(* Two honest nodes whose pushes fit their balances never fail a channel   *)
(* while the connection lasts, collisions included.                        *)
NeverFails == \A n \in Node : ~disk[n].Failed

=============================================================================
