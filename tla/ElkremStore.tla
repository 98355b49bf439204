----------------------------- MODULE ElkremStore -----------------------------
(***************************************************************************)
(* The revocation hashes of one channel as a watchtower stores them        *)
(* (UpdateChannel in watchtower/watchdb.go): each message brings one hash, *)
(* for the index after the last; the receiver is read from the database,   *)
(* extended and written back in one transaction.                           *)
(*                                                                         *)
(* The node that sends the messages may send any hash that it can make;    *)
(* an honest one sends those of one root, in order.                        *)
(***************************************************************************)
EXTENDS Elkrem, FiniteSets

VARIABLES store,   \* the receiver in the channel's bucket
          txids,   \* the bucket of txids: the state number saved for each
          given    \* history: the hashes that were accepted

vars == <<store, txids, given>>

Init == store = <<>> /\ txids = <<>> /\ given = <<>>

(* Put of a bucket: the key's value is written, over an older one.         *)
Put(bucket, key, value) ==
    [k \in DOMAIN bucket \cup {key} |-> IF k = key THEN value ELSE bucket[k]]

(* A message m brings a hash and the txid of the state it revokes.         *)
UpdateChannel(m) ==
    /\ Readable(store)
    /\ Fits(store, m.Elk)
    /\ Writable(AddNext(store, m.Elk))
    /\ store' = AddNext(store, m.Elk)
    /\ txids' = Put(txids, m.ParTxid, UpTo(store'))
    /\ given' = Put(given, m.ParTxid, m.Elk)

(* Every hash that some sender can make.                                   *)
Revealed == {SenderAtIndex(r, w) : r \in Root, w \in 0 .. maxIndex}

ElkremNode == [H : Nat, I : Nat, Sha : Revealed]

(* Messages come until the sender's tree is used up.  Each state of a      *)
(* channel has a transaction of its own: its txid is the number of the     *)
(* message that brings it.                                                 *)
Next ==
    /\ NextIndex(store) <= maxIndex
    /\ \E elk \in Revealed :
          UpdateChannel([Elk |-> elk, ParTxid |-> Cardinality(DOMAIN given)])

Spec == Init /\ [][Next]_vars

-----------------------------------------------------------------------------
(* The stack is one of nodes whose hashes were revealed by some sender.    *)
TypeOK == store \in Seq(ElkremNode)

(* Nothing that was accepted is lost: for the state number saved with any  *)
(* txid, the receiver makes exactly the hash that came with that txid,     *)
(* whoever gave it and however many nodes it has thrown away since.        *)
Recoverable ==
    \A t \in DOMAIN txids :
        LET end == ReceiverAtIndex(store, txids[t])
        IN end.i = txids[t] /\ end.sha = given[t]

(* A channel whose hashes all came from one root accepts that root's next  *)
(* one, up to the last index of the tree: AddNext finds it fitting, and    *)
(* the stack can be written and read back.                                 *)
HonestAccepted ==
    \A r \in Root :
        /\ \A w \in DOMAIN given : given[w] = SenderAtIndex(r, w)
        /\ Cardinality(DOMAIN given) <= maxIndex
        => LET elk == SenderAtIndex(r, Cardinality(DOMAIN given))
           IN Readable(store) /\ Fits(store, elk) /\ Writable(AddNext(store, elk))

(* The heights in the stack fall from bottom to top, except that the top   *)
(* two may be equal: a parent is due exactly when they are.                *)
HeightsFall ==
    /\ \A k \in 1 .. Len(store) - 1 : store[k].H >= store[k + 1].H
    /\ \A k \in 1 .. Len(store) - 2 : store[k].H > store[k + 1].H

=============================================================================
