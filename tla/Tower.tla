------------------------------- MODULE Tower -------------------------------
(***************************************************************************)
(* A watchtower (watchtower/) and one of its customers (qln/justicetx.go). *)
(* ElkremStore has the revocation hashes and the txids of one channel in   *)
(* the tower's database; here are the messages that lead there, the blocks *)
(* the tower reads, and the justice transactions it sends out.             *)
(*                                                                         *)
(* The channel belongs to a customer that runs qln's code, or (lit FALSE)  *)
(* to any node that speaks the messages and may send any of Revealed.  Of  *)
(* the former, cust holds the channel state, the justice signatures in its *)
(* own database (sigs), and how far it believes the tower is (WatchUpTo).  *)
(* A transaction is known by its txid; the hash it can be punished with is *)
(* the one that came with that txid, if it has an output to take at all:   *)
(* the customer may have given the txid of any transaction.                *)
(***************************************************************************)
EXTENDS ElkremStore

CONSTANTS Customer,   \* the root of the hashes the customer is given
          MaxState,   \* states the customer's channel goes through
          MaxSync,    \* calls of the Watch command
          MaxBad      \* watched transactions that are mined

ASSUME CustomerAssumption == Customer \in Root /\ MaxState \in 0 .. maxIndex /\ {MaxSync, MaxBad} \subseteq Nat

VARIABLES known,    \* the tower has a bucket for the channel
          mined,    \* history: watched transactions that came in a block
          chase,    \* history: those of them without the output described
          pool,     \* transactions that a justice transaction was sent out for
          cust,     \* [lit, StateIdx, WatchUpTo, sigs, syncs] of the customer
          down      \* the nodes that have panicked

tvars == <<vars, known, mined, chase, pool, cust, down>>

TInit ==
    /\ Init
    /\ known = FALSE
    /\ mined = {}
    /\ chase = {}
    /\ pool = {}
    /\ cust \in [lit : BOOLEAN, StateIdx : {0}, WatchUpTo : {0}, sigs : {{}}, syncs : {0}]
    /\ down = {}

-----------------------------------------------------------------------------
(* The tower.                                                              *)

(* NewChannel: CreateBucket refuses a channel that is there already.       *)
NewChannel ==
    /\ ~cust.lit
    /\ ~known
    /\ known' = TRUE
    /\ UNCHANGED <<vars, mined, chase, pool, cust, down>>

(* UpdateChannel, for a channel with a bucket, under a fresh txid; once    *)
(* a transaction of the channel is mined, there are no more states.        *)
Update ==
    /\ ~cust.lit
    /\ "tower" \notin down
    /\ known
    /\ mined = {}
    /\ Next
    /\ UNCHANGED <<known, mined, chase, pool, cust, down>>

(* Mutant: the state number in the database counts from one.               *)
BuildJusticeTx_Next(txid, outs) ==
    LET end == ReceiverAtIndex(store, txids[txid])
    IN end.i = txids[txid] /\ end.i < UpTo(store) /\ end.sha \in outs

(* BuildJusticeTx: the hash of the stored state number and the description *)
(* make the script that one of the transaction's outputs must have; outs   *)
(* are the hashes that its outputs' scripts are made of.  It is an error   *)
(* if the hash cannot be made or no output matches.                        *)
BuildJusticeTx(txid, outs) ==
    LET end == ReceiverAtIndex(store, txids[txid])
    IN end.i = txids[txid] /\ end.sha \in outs

(* BlockHandler, for a block that holds a transaction the tower looks for: *)
(* one with the output its customer described, or another.  An error of    *)
(* BuildJusticeTx is logged, and its nil result used.                      *)
BlockHandler(txid) ==
    /\ "tower" \notin down
    /\ txid \notin mined /\ Cardinality(mined) < MaxBad
    /\ mined' = mined \cup {txid}
    /\ \E outs \in {{given[txid]}, {}} :
          LET built == BuildJusticeTx(txid, outs)
          IN /\ chase' = IF outs = {} THEN chase \cup {txid} ELSE chase
             /\ pool' = IF built THEN pool \cup {txid} ELSE pool
             /\ down' = IF built THEN down ELSE down \cup {"tower"}
    /\ UNCHANGED <<vars, known, cust>>

-----------------------------------------------------------------------------
(* The customer.                                                           *)

(* The receiver of a channel that was just loaded, and the hash it gives   *)
(* for index w: reading an empty one panics, one that is too short errs.   *)
NewElkremReceiver == <<>>
AtIndex(nodes, w) == CASE nodes = <<>> -> "panic"
                       [] nodes # <<>> /\ w > UpTo(nodes) -> "error"
                       [] OTHER -> "ok"

(* The handlers that take a revocation end in BuildJusticeSig for the      *)
(* state just revoked, with a receiver that was made by the reload and     *)
(* holds the one hash the message brought.                                 *)
BuildJusticeSig(i) ==
    LET rcv == AddNext(NewElkremReceiver, SenderAtIndex(Customer, i))
    IN IF AtIndex(rcv, i) = "ok" THEN cust.sigs \cup {i} ELSE cust.sigs

Revoked ==
    /\ cust.lit
    /\ "customer" \notin down
    /\ cust.StateIdx < MaxState
    /\ cust' = [cust EXCEPT !.StateIdx = @ + 1, !.sigs = BuildJusticeSig(cust.StateIdx)]
    /\ UNCHANGED <<vars, known, mined, chase, pool, down>>

(* SyncWatch sends a description, unless some state was sent before, and   *)
(* then state after state: SendWatchComMsg reads the signature first and   *)
(* the hash after it.  WatchUpTo is saved only if all went well.           *)
ToSend == IF cust.WatchUpTo = 0 THEN 0 .. cust.StateIdx - 1
          ELSE cust.WatchUpTo + 1 .. cust.StateIdx - 1
SendWatchComMsg(i) == IF i \notin cust.sigs THEN "error" ELSE AtIndex(NewElkremReceiver, i)
Outcomes == {SendWatchComMsg(i) : i \in {j \in ToSend : \A k \in ToSend : k < j => SendWatchComMsg(k) = "ok"}}

SyncWatch ==
    /\ cust.lit
    /\ "customer" \notin down
    /\ cust.syncs < MaxSync
    /\ cust.WatchUpTo + 2 <= cust.StateIdx
    /\ known' = (known \/ (cust.WatchUpTo = 0 /\ "tower" \notin down))
    /\ cust' = [cust EXCEPT !.syncs = @ + 1,
                            !.WatchUpTo = IF Outcomes = {"ok"} THEN cust.StateIdx - 1 ELSE @]
    /\ down' = IF "panic" \in Outcomes THEN down \cup {"customer"} ELSE down
    /\ UNCHANGED <<vars, mined, chase, pool>>

(* The customer's node is started again; only the database is left.        *)
Restart ==
    /\ "customer" \in down
    /\ down' = down \ {"customer"}
    /\ UNCHANGED <<vars, known, mined, chase, pool, cust>>

TNext ==
    \/ NewChannel \/ Update \/ (\E t \in DOMAIN txids : BlockHandler(t))
    \/ Revoked \/ SyncWatch \/ Restart

TSpec == TInit /\ [][TNext]_tvars

-----------------------------------------------------------------------------
(* The tower answers every revoked transaction it was told of: whatever    *)
(* hashes and txids it took before and after, from an honest sender or     *)
(* another, BuildJusticeTx finds the output of every transaction that has  *)
(* the one its description and hash make.  Nothing but the txid of a       *)
(* transaction without such an output, which an honest customer never      *)
(* gives, makes BuildJusticeTx fail and brings the tower down.             *)
JusticeServed ==
    /\ pool = mined \ chase
    /\ "tower" \in down => chase # {}

=============================================================================
