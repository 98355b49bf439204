------------------------------ MODULE LitScript ------------------------------
(* The scripts lit pays to and the witnesses it assembles to spend them.   *)
(* Keys are numbers, ordered as their encodings are.                        *)
EXTENDS Script

Script(ops) == Elem("script", ops)
AddInt64(n) == IF \E x \in DOMAIN SmallInt : SmallInt[x] = n
               THEN Op(CHOOSE x \in DOMAIN SmallInt : SmallInt[x] = n) ELSE AddData(IntOf(n))

P2WSHify(script) == <<Op("0"), AddData(Sha256(Script(script)))>>
DirectWPKHScript(key) == <<Op("0"), AddData(Hash160(Pub(key)))>>
PayToPubKeyHashScript(key) == payToPubKeyHashScript(Hash160(Pub(key)))

CommitScript(RKey, TKey, delay) ==
    <<Op("IF"), AddData(Pub(RKey)), Op("ELSE"), AddInt64(delay), Op("NOP3"), Op("DROP"),
      AddData(Pub(TKey)), Op("ENDIF"), Op("CHECKSIG")>>

Swapped(aPub, bPub) == aPub < bPub
FundTxScript(aPub, bPub) ==
    LET k == IF Swapped(aPub, bPub) THEN <<bPub, aPub>> ELSE <<aPub, bPub>>
    IN <<Op("2"), AddData(Pub(k[1])), AddData(Pub(k[2])), Op("2"), Op("CHECKMULTISIG")>>

\* Revocation key and signature, or else what depends on the item's length.
HTLCScript(revPub, remotePub, byLength) ==
    Ops(<<"DUP", "HASH160">>) \o <<AddData(Hash160(Pub(revPub)))>> \o Ops(<<"EQUAL", "IF", "CHECKSIG", "ELSE">>)
    \o <<AddData(Pub(remotePub))>> \o Ops(<<"SWAP", "SIZE">>) \o <<AddInt64(16), Op("EQUAL")>>
    \o byLength \o Ops(<<"ENDIF", "ENDIF">>)
CheckPreimage(R) == <<Op("SHA256"), AddData(Sha256(R)), Op("EQUALVERIFY")>>
Both(localPub) == <<AddInt64(2), Op("SWAP"), AddData(Pub(localPub)), AddInt64(2), Op("CHECKMULTISIG")>>

ReceiveHTLCScript_NoLock(revPub, remotePub, R, localPub, locktime) ==
    HTLCScript(revPub, remotePub,
        <<Op("IF")>> \o CheckPreimage(R) \o Both(localPub) \o Ops(<<"ELSE", "DROP", "CHECKSIG">>))
ReceiveHTLCScript(revPub, remotePub, R, localPub, locktime) ==
    HTLCScript(revPub, remotePub,
        <<Op("IF")>> \o CheckPreimage(R) \o Both(localPub)
        \o <<Op("ELSE"), Op("DROP"), AddInt64(locktime), Op("CHECKLOCKTIMEVERIFY"), Op("DROP"), Op("CHECKSIG")>>)
OfferHTLCScript(revPub, remotePub, R, localPub) ==
    HTLCScript(revPub, remotePub,
        Ops(<<"NOTIF", "DROP">>) \o Both(localPub)
        \o <<Op("ELSE")>> \o CheckPreimage(R) \o <<Op("CHECKSIG")>>)

\* k: who holds which key, from my side.
GenHTLCScript_Direction(k, incoming, mine) ==
    IF ~incoming THEN OfferHTLCScript(k.rev, IF mine THEN k.theirs ELSE k.my, k.R, IF mine THEN k.my ELSE k.theirs)
    ELSE ReceiveHTLCScript(k.rev, IF mine THEN k.theirs ELSE k.my, k.R, IF mine THEN k.my ELSE k.theirs, k.locktime)
GenHTLCScript(k, incoming, mine) ==
    LET remotePub == IF mine THEN k.theirs ELSE k.my
        localPub == IF mine THEN k.my ELSE k.theirs
    IN IF incoming # mine THEN OfferHTLCScript(k.rev, remotePub, k.R, localPub)
       ELSE ReceiveHTLCScript(k.rev, remotePub, k.R, localPub, k.locktime)

-----------------------------------------------------------------------------
\* A spend: the output's script, the input's script and witness, and the two
\* fields of the transaction that scripts look at.
Spend(pkScript, sigScript, witness, lockTime, sequence) ==
    [pk |-> pkScript, sigScript |-> sigScript, witness |-> witness,
     lockTime |-> lockTime, sequence |-> sequence]

SpendMultiSigWitStack(pre, sigA, sigB) == <<Nil, sigA, sigB, Script(pre)>>

\* SignBreakTx, CloseReqHandler and SettleContract spend the 2 of 2.
SignBreakTx(my, their) ==
    LET pre == FundTxScript(my, their)
    IN Spend(P2WSHify(pre), <<>>,
             IF Swapped(my, their) THEN SpendMultiSigWitStack(pre, SigOf(their, pre), SigOf(my, pre))
             ELSE SpendMultiSigWitStack(pre, SigOf(my, pre), SigOf(their, pre)),
             0, 0)

\* The wallet signs by the output's mode; a P2WSH coin brings its own items.
SignP2PKH(key) ==
    LET pk == PayToPubKeyHashScript(key)
    IN Spend(pk, <<AddData(SigOf(key, pk)), AddData(Pub(key))>>, <<>>, 0, MaxTxInSequenceNum)
SignP2WPKH(key) ==
    Spend(DirectWPKHScript(key), <<>>, <<SigOf(key, PayToPubKeyHashScript(key)), Pub(key)>>, 0, MaxTxInSequenceNum)
SignP2WSH(pk, key, preSigStack, script, seq) ==
    Spend(pk, <<>>, <<SigOf(key, script)>> \o preSigStack \o <<Script(script)>>, 0, seq)

\* The outputs of a commitment: mine after the delay, theirs by justice.
CollectTimeout(k) ==
    LET script == CommitScript(k.rev, k.my, k.delay)
    IN SignP2WSH(P2WSHify(script), k.my, <<Nil>>, script, k.delay)
CollectJustice(k) ==
    LET script == CommitScript(k.rev, k.theirs, k.delay)
    IN SignP2WSH(P2WSHify(script), k.rev, <<Small(<<1>>)>>, script, MaxTxInSequenceNum)

\* SignClaimTx, by SettleContract: the combined key at once.
SignClaimTx(k) ==
    LET script == CommitScript(k.rev, k.theirs, 5)
    IN Spend(P2WSHify(script), <<>>, <<SigOf(k.rev, script), Small(<<1>>), Script(script)>>, 0, MaxTxInSequenceNum)

\* On my own transaction through the one both signed in advance, on theirs
\* directly; with the preimage if incoming, after the lock time if not.
ClaimHTLCOnChain(k, incoming, mine) ==
    LET script == GenHTLCScript(k, incoming, mine)
        R == IF incoming THEN k.R ELSE Nil
    IN Spend(P2WSHify(script), <<>>,
             IF mine THEN <<Nil, SigOf(k.theirs, script), SigOf(k.my, script), R, Script(script)>>
             ELSE <<SigOf(k.my, script), R, Script(script)>>,
             IF incoming THEN 0 ELSE k.locktime, 0)

\* What the network's nodes run.  "strict" stands for the flags on encodings
\* and on the dummy of OP_CHECKMULTISIG, "csv" for the rule on OP_NOP3 that
\* this engine does not have.
NetworkFlags == {"bip16", "strict", "minimal", "cltv", "csv", "clean_stack"}
Accepts(s) == Execute([flags |-> NetworkFlags, lockTime |-> s.lockTime, sequence |-> s.sequence],
                      s.sigScript, s.pk, s.witness)
=============================================================================
