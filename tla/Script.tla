------------------------------- MODULE Script -------------------------------
(* Package txscript: the stack machine that decides whether an input may   *)
(* spend an output.  A stack item of up to five bytes is its bytes, so that *)
(* numbers, booleans and their odd encodings are told apart as the engine   *)
(* does; keys, hashes, signatures, preimages and scripts are symbols with a *)
(* length.  A signature names its key and the script it commits to.         *)
EXTENDS Integers, SequencesExt

Elem(kind, v) == [kind |-> kind, v |-> v]
Small(v) == Elem("bytes", v)
Pub(key) == Elem("pub", key)
SigOf(key, script) == Elem("sig", <<key, script>>)
Hash160(x) == Elem("hash160", x)
Sha256(x) == Elem("sha256", x)
Digest(h, x) == Elem(h, x)
Nil == Small(<<>>)

\* A parsed opcode, and the script builder's two ways to push.
Op(name) == [op |-> name, data |-> Nil]
AddData(x) == [op |-> "DATA", data |-> x]
Ops(names) == [i \in DOMAIN names |-> Op(names[i])]

DigestSize == [hash160 |-> 20, ripemd160 |-> 20, sha1 |-> 20, sha256 |-> 32, hash256 |-> 32]
\* Lengths: a preimage is <<its name, its length>>, a script has one byte an
\* opcode and the data.
FlatSize(x) == CASE x.kind = "bytes" -> Len(x.v)
                 [] x.kind = "pub" -> 33
                 [] x.kind = "sig" -> 72
                 [] x.kind = "preimage" -> x.v[2]
                 [] OTHER -> DigestSize[x.kind]
RECURSIVE ScriptSize(_)
ScriptSize(pops) == IF pops = <<>> THEN 0 ELSE 1 + FlatSize(Head(pops).data) + ScriptSize(Tail(pops))
SizeOfItem(x) == IF x.kind = "script" THEN ScriptSize(x.v) ELSE FlatSize(x)

-----------------------------------------------------------------------------
\* Script numbers: little endian, the sign in the top bit of the last byte.
Magnitude(n) == LET a == IF n < 0 THEN -n ELSE n
                    k == CHOOSE i \in 0..3 :   \* bound: three bytes
                         a < 256^i /\ (i = 0 \/ a >= 256^(i - 1))
                IN [i \in 1..k |-> (a \div 256^(i - 1)) % 256]
NumBytes_NoExtraByte(n) == IF n = 0 THEN <<>> ELSE Magnitude(n)
NumBytes(n) ==
    LET m == Magnitude(n)
        sign == IF n < 0 THEN 128 ELSE 0
    IN IF n = 0 THEN <<>>
       ELSE IF Last(m) >= 128 THEN Append(m, sign)
       ELSE [m EXCEPT ![Len(m)] = @ + sign]
checkMinimalDataEncoding(v) ==
    Len(v) = 0 \/ Last(v) % 128 # 0 \/ (Len(v) > 1 /\ v[Len(v) - 1] >= 128)
RECURSIVE LittleEndian(_)
LittleEndian(v) == IF v = <<>> THEN 0 ELSE Head(v) + 256 * LittleEndian(Tail(v))
NumValue(v) ==
    LET a == LittleEndian([v EXCEPT ![Len(v)] = @ % 128])
    IN IF v = <<>> THEN 0 ELSE IF Last(v) >= 128 THEN -a ELSE a
IsScriptNum(x, minimal, len) ==
    /\ SizeOfItem(x) <= len
    /\ minimal => checkMinimalDataEncoding(x.v)
asBool(x) == x.kind = "bytes" => \E i \in DOMAIN x.v : /\ x.v[i] # 0
                                                       /\ ~(i = Len(x.v) /\ x.v[i] = 128)
IntOf(n) == Small(NumBytes(n))
fromBool(b) == IF b THEN Small(<<1>>) ELSE Nil

-----------------------------------------------------------------------------
\* The machine: the data, alternate and conditional stacks, tops last, the
\* operations counted, where the last OP_CODESEPARATOR was.  env is what it
\* runs on: the flags, the transaction's lock time and this input's sequence.
Engine == [d |-> <<>>, a |-> <<>>, c |-> <<>>, numOps |-> 0, sep |-> 0, ok |-> TRUE]
Fail(vm) == [vm EXCEPT !.ok = FALSE]

Peek(vm, i) == vm.d[Len(vm.d) - i]
Holds(vm, n) == n >= 0 /\ Len(vm.d) >= n
Push(vm, x) == IF vm.ok THEN [vm EXCEPT !.d = Append(@, x)] ELSE vm
nipN(vm, i) == IF vm.ok /\ i >= 0 /\ Holds(vm, i + 1)
               THEN [vm EXCEPT !.d = RemoveAt(@, Len(@) - i)] ELSE Fail(vm)
PickN(vm, n) == IF vm.ok /\ n >= 0 /\ Holds(vm, n + 1) THEN Push(vm, Peek(vm, n)) ELSE Fail(vm)
RollN(vm, n) == IF vm.ok /\ n >= 0 /\ Holds(vm, n + 1) THEN Push(nipN(vm, n), Peek(vm, n)) ELSE Fail(vm)
\* What the loops over PopByteArray, nipN, PeekN and RollN come to: the items
\* at positions ps, counted from the top, on top of all but the last n.
Top(vm, n, ps) ==
    IF vm.ok /\ n >= 0 /\ Holds(vm, n)
    THEN [vm EXCEPT !.d = SubSeq(@, 1, Len(@) - n) \o [i \in DOMAIN ps |-> @[Len(@) - ps[i]]]]
    ELSE Fail(vm)
Down(from, to) == [i \in 1..from - to + 1 |-> from - i + 1]
DropN(vm, n) == Top(vm, n, <<>>)
DupN(vm, n) == Top(vm, n, Down(n - 1, 0) \o Down(n - 1, 0))
RotN(vm, n) == Top(vm, 3 * n, Down(2 * n - 1, 0) \o Down(3 * n - 1, 2 * n))
SwapN(vm, n) == Top(vm, 2 * n, Down(n - 1, 0) \o Down(2 * n - 1, n))
OverN(vm, n) == Top(vm, 2 * n, Down(2 * n - 1, 0) \o Down(2 * n - 1, n))
Tuck(vm) == IF Holds(vm, 2)
            THEN [vm EXCEPT !.d = SubSeq(@, 1, Len(@) - 2) \o <<Peek(vm, 0), Peek(vm, 1), Peek(vm, 0)>>]
            ELSE Fail(vm)

\* PopInt, n of them: the values, the top one first.
PopsInts(vm, env, n) ==
    Holds(vm, n) /\ \A i \in 0..n - 1 : IsScriptNum(Peek(vm, i), "minimal" \in env.flags, 4)
PopInt(vm, i) == NumValue(Peek(vm, i).v)
Truth(b) == IF b THEN 1 ELSE 0
ReplaceTop(vm, x) == IF Holds(vm, 1) THEN Push(DropN(vm, 1), x) ELSE Fail(vm)

-----------------------------------------------------------------------------
\* The handlers.
isBranchExecuting(vm) == vm.c = <<>> \/ Last(vm.c) = "true"

Branch(vm, wanted) ==
    IF ~isBranchExecuting(vm) THEN [vm EXCEPT !.c = Append(@, "skip")]
    ELSE IF ~Holds(vm, 1) THEN Fail(vm)
    ELSE [DropN(vm, 1) EXCEPT !.c = Append(@, IF asBool(Peek(vm, 0)) = wanted THEN "true" ELSE "false")]
opcodeIf(vm) == Branch(vm, TRUE)
opcodeNotIf(vm) == Branch(vm, FALSE)
opcodeElse(vm) ==
    IF vm.c = <<>> THEN Fail(vm)
    ELSE [vm EXCEPT !.c[Len(vm.c)] = CASE @ = "true" -> "false" [] @ = "false" -> "true" [] OTHER -> @]
opcodeEndif(vm) == IF vm.c = <<>> THEN Fail(vm) ELSE [vm EXCEPT !.c = Front(@)]
opcodeVerify(vm) == IF vm.ok /\ Holds(vm, 1) /\ asBool(Peek(vm, 0)) THEN DropN(vm, 1) ELSE Fail(vm)
opcodeNop(vm, env, name) ==
    IF name # "NOP" /\ "discourage_nops" \in env.flags THEN Fail(vm) ELSE vm

LockTimeThreshold == 500000000
MaxTxInSequenceNum == -1      \* 0xffffffff in 32 bits
opcodeCheckLockTimeVerify(vm, env) ==
    LET lockTime == NumValue(Peek(vm, 0).v)
    IN IF "cltv" \notin env.flags THEN opcodeNop(vm, env, "NOP2")
       ELSE IF /\ Holds(vm, 1)
               /\ IsScriptNum(Peek(vm, 0), "minimal" \in env.flags, 5)
               /\ lockTime >= 0
               /\ (lockTime < LockTimeThreshold) = (env.lockTime < LockTimeThreshold)
               /\ lockTime <= env.lockTime
               /\ env.sequence # MaxTxInSequenceNum
            THEN vm ELSE Fail(vm)
\* OP_NOP3 as the network reads it: the input must be as old as the item says.
opcodeCheckSequenceVerify(vm, env) ==
    IF "csv" \notin env.flags THEN opcodeNop(vm, env, "NOP3")
    ELSE IF Holds(vm, 1) /\ env.sequence # MaxTxInSequenceNum /\ NumValue(Peek(vm, 0).v) <= env.sequence
         THEN vm ELSE Fail(vm)

opcodeToAltStack(vm) ==
    IF Holds(vm, 1) THEN [DropN(vm, 1) EXCEPT !.a = Append(@, Peek(vm, 0))] ELSE Fail(vm)
opcodeFromAltStack(vm) ==
    IF vm.a # <<>> THEN Push([vm EXCEPT !.a = Front(@)], Last(vm.a)) ELSE Fail(vm)
opcode2Drop(vm) == DropN(vm, 2)
opcode2Dup(vm) == DupN(vm, 2)
opcode3Dup(vm) == DupN(vm, 3)
opcode2Over(vm) == OverN(vm, 2)
opcode2Rot(vm) == RotN(vm, 2)
opcode2Swap(vm) == SwapN(vm, 2)
opcodeIfDup(vm) == IF ~Holds(vm, 1) THEN Fail(vm)
                   ELSE IF asBool(Peek(vm, 0)) THEN Push(vm, Peek(vm, 0)) ELSE vm
opcodeDepth(vm) == Push(vm, IntOf(Len(vm.d)))
opcodeDrop(vm) == DropN(vm, 1)
opcodeDup(vm) == DupN(vm, 1)
opcodeNip(vm) == nipN(vm, 1)
opcodeOver(vm) == OverN(vm, 1)
opcodePick(vm, env) ==
    IF PopsInts(vm, env, 1) THEN PickN(DropN(vm, 1), PopInt(vm, 0)) ELSE Fail(vm)
opcodeRoll(vm, env) ==
    IF PopsInts(vm, env, 1) THEN RollN(DropN(vm, 1), PopInt(vm, 0)) ELSE Fail(vm)
opcodeRot(vm) == RotN(vm, 1)
opcodeSwap(vm) == SwapN(vm, 1)
opcodeTuck(vm) == Tuck(vm)
opcodeSize(vm) == IF Holds(vm, 1) THEN Push(vm, IntOf(SizeOfItem(Peek(vm, 0)))) ELSE Fail(vm)
opcodeEqual(vm) ==
    IF Holds(vm, 2) THEN Push(DropN(vm, 2), fromBool(Peek(vm, 0) = Peek(vm, 1))) ELSE Fail(vm)

\* On numbers: what is pushed for x, the one below the top, and y, the top.
opcode1Add(y) == y + 1
opcode1Sub(y) == y - 1
opcodeNegate(y) == -y
opcodeAbs(y) == IF y < 0 THEN -y ELSE y
opcodeNot(y) == Truth(y = 0)
opcode0NotEqual(y) == Truth(y # 0)
opcodeAdd(x, y) == x + y
opcodeSub(x, y) == x - y
opcodeBoolAnd(x, y) == Truth(x # 0 /\ y # 0)
opcodeBoolOr(x, y) == Truth(x # 0 \/ y # 0)
opcodeNumEqual(x, y) == Truth(x = y)
opcodeNumNotEqual(x, y) == Truth(x # y)
opcodeLessThan(x, y) == Truth(x < y)
opcodeGreaterThan(x, y) == Truth(x > y)
opcodeLessThanOrEqual(x, y) == Truth(x <= y)
opcodeGreaterThanOrEqual(x, y) == Truth(x >= y)
opcodeMin(x, y) == IF x < y THEN x ELSE y
opcodeMax(x, y) == IF x > y THEN x ELSE y
opcodeWithin(x, min, max) == Truth(x >= min /\ x < max)

opcodeRipemd160(vm) == ReplaceTop(vm, Digest("ripemd160", Peek(vm, 0)))
opcodeSha1(vm) == ReplaceTop(vm, Digest("sha1", Peek(vm, 0)))
opcodeSha256(vm) == ReplaceTop(vm, Sha256(Peek(vm, 0)))
opcodeHash160(vm) == ReplaceTop(vm, Hash160(Peek(vm, 0)))
opcodeHash256(vm) == ReplaceTop(vm, Digest("hash256", Peek(vm, 0)))

\* Encodings: what is no signature or no key ends the script when they are
\* checked, and merely fails to verify when they are not.
strict(env) == "strict" \in env.flags
SigEncoded(x, env) == strict(env) => x.kind = "sig"
checkPubKeyEncoding(x, env) == strict(env) => x.kind = "pub"
Verify(sig, pub, subScript) == sig.kind = "sig" /\ pub.kind = "pub" /\ sig.v = <<pub.v, subScript>>

opcodeCheckSig(vm, env, subScript) ==
    LET pub == Peek(vm, 0)
        sig == Peek(vm, 1)
        rest == DropN(vm, 2)
    IN IF ~Holds(vm, 2) THEN Fail(vm)
       ELSE IF SizeOfItem(sig) = 0 THEN Push(rest, fromBool(FALSE))
       ELSE IF ~(SigEncoded(sig, env) /\ checkPubKeyEncoding(pub, env)) THEN Fail(vm)
       ELSE Push(rest, fromBool(Verify(sig, pub, subScript)))

\* One turn of the loop: key k against the first signature not yet matched.
TryKey(sigs, keys, env, subScript, m, k) ==
    LET left == Len(sigs) - m.sig
        sig == sigs[m.sig + 1]
    IN IF ~m.ok \/ left = 0 \/ m.gone THEN m
       ELSE IF left > Len(keys) - k + 1 THEN [m EXCEPT !.gone = TRUE]
       ELSE IF SizeOfItem(sig) = 0 THEN m
       ELSE IF ~SigEncoded(sig, env) THEN [m EXCEPT !.ok = FALSE]
       ELSE IF sig.kind # "sig" THEN m
       ELSE IF ~checkPubKeyEncoding(keys[k], env) THEN [m EXCEPT !.ok = FALSE]
       ELSE IF Verify(sig, keys[k], subScript) THEN [m EXCEPT !.sig = @ + 1] ELSE m

RECURSIVE TryKeys(_, _, _, _, _, _)
TryKeys(sigs, keys, env, subScript, m, k) ==
    IF k > Len(keys) THEN m
    ELSE TryKeys(sigs, keys, env, subScript, TryKey(sigs, keys, env, subScript, m, k), k + 1)

opcodeCheckMultiSig(vm, env, subScript) ==
    LET numPubKeys == PopInt(vm, 0)
        numSignatures == PopInt(vm, numPubKeys + 1)
        keys == [i \in 1..numPubKeys |-> Peek(vm, i)]
        sigs == [i \in 1..numSignatures |-> Peek(vm, numPubKeys + 1 + i)]
        all == numPubKeys + numSignatures + 3      \* with the two counts and the dummy
        loop == TryKeys(sigs, keys, env, subScript, [sig |-> 0, ok |-> TRUE, gone |-> FALSE], 1)
        counted == [vm EXCEPT !.numOps = @ + numPubKeys]
    IN IF ~PopsInts(vm, env, 1) \/ numPubKeys \notin 0..20 \/ counted.numOps > 201
          \/ ~Holds(vm, numPubKeys + 2)
          \/ ~IsScriptNum(Peek(vm, numPubKeys + 1), "minimal" \in env.flags, 4)
       THEN Fail(vm)
       ELSE IF numSignatures \notin 0..numPubKeys \/ ~Holds(vm, all)
               \/ (strict(env) /\ SizeOfItem(Peek(vm, all - 1)) # 0) \/ ~loop.ok
       THEN Fail(vm)
       ELSE Push(DropN(counted, all), fromBool(loop.sig = Len(sigs)))

-----------------------------------------------------------------------------
isDisabled == {"CAT", "SUBSTR", "LEFT", "RIGHT", "INVERT", "AND", "OR", "XOR", "2MUL", "2DIV",
               "MUL", "DIV", "MOD", "LSHIFT", "RSHIFT"}
alwaysIllegal == {"VERIF", "VERNOTIF"}
isConditional == {"IF", "NOTIF", "ELSE", "ENDIF"}
IsPush == {"DATA", "0", "1NEGATE", "RESERVED", "1", "2", "16"}   \* bound: the small numbers used
SmallInt == [x \in {"0", "1NEGATE", "1", "2", "16"} |->
                CASE x = "0" -> 0 [] x = "1NEGATE" -> -1 [] x = "1" -> 1 [] x = "2" -> 2 [] x = "16" -> 16]
MaxOpsPerScript == 201
MaxScriptElementSize == 520
maxStackSize == 1000

StackHandler(vm, env, name) ==
    CASE name = "2DROP" -> opcode2Drop(vm) [] name = "2DUP" -> opcode2Dup(vm)
      [] name = "3DUP" -> opcode3Dup(vm) [] name = "2OVER" -> opcode2Over(vm)
      [] name = "2ROT" -> opcode2Rot(vm) [] name = "2SWAP" -> opcode2Swap(vm)
      [] name = "IFDUP" -> opcodeIfDup(vm) [] name = "DEPTH" -> opcodeDepth(vm)
      [] name = "DROP" -> opcodeDrop(vm) [] name = "DUP" -> opcodeDup(vm)
      [] name = "NIP" -> opcodeNip(vm) [] name = "OVER" -> opcodeOver(vm)
      [] name = "PICK" -> opcodePick(vm, env) [] name = "ROLL" -> opcodeRoll(vm, env)
      [] name = "ROT" -> opcodeRot(vm) [] name = "SWAP" -> opcodeSwap(vm)
      [] name = "TUCK" -> opcodeTuck(vm) [] name = "SIZE" -> opcodeSize(vm)
      [] name = "TOALTSTACK" -> opcodeToAltStack(vm) [] name = "FROMALTSTACK" -> opcodeFromAltStack(vm)
UnaryOps == {"1ADD", "1SUB", "NEGATE", "ABS", "NOT", "0NOTEQUAL"}
NumberHandler(vm, env, name) ==
    LET pops == IF name \in UnaryOps THEN 1 ELSE IF name = "WITHIN" THEN 3 ELSE 2
        n(i) == PopInt(vm, i)
        value == CASE name = "1ADD" -> opcode1Add(n(0)) [] name = "1SUB" -> opcode1Sub(n(0))
                   [] name = "NEGATE" -> opcodeNegate(n(0)) [] name = "ABS" -> opcodeAbs(n(0))
                   [] name = "NOT" -> opcodeNot(n(0)) [] name = "0NOTEQUAL" -> opcode0NotEqual(n(0))
                   [] name = "ADD" -> opcodeAdd(n(1), n(0)) [] name = "SUB" -> opcodeSub(n(1), n(0))
                   [] name = "BOOLAND" -> opcodeBoolAnd(n(1), n(0)) [] name = "BOOLOR" -> opcodeBoolOr(n(1), n(0))
                   [] name = "NUMEQUAL" -> opcodeNumEqual(n(1), n(0))
                   [] name = "NUMNOTEQUAL" -> opcodeNumNotEqual(n(1), n(0))
                   [] name = "LESSTHAN" -> opcodeLessThan(n(1), n(0))
                   [] name = "GREATERTHAN" -> opcodeGreaterThan(n(1), n(0))
                   [] name = "LESSTHANOREQUAL" -> opcodeLessThanOrEqual(n(1), n(0))
                   [] name = "GREATERTHANOREQUAL" -> opcodeGreaterThanOrEqual(n(1), n(0))
                   [] name = "MIN" -> opcodeMin(n(1), n(0)) [] name = "MAX" -> opcodeMax(n(1), n(0))
                   [] name = "WITHIN" -> opcodeWithin(n(2), n(1), n(0))
    IN IF PopsInts(vm, env, pops) THEN Push(DropN(vm, pops), IntOf(value)) ELSE Fail(vm)
StackOps == {"2DROP", "2DUP", "3DUP", "2OVER", "2ROT", "2SWAP", "IFDUP", "DEPTH", "DROP", "DUP", "NIP",
             "OVER", "PICK", "ROLL", "ROT", "SWAP", "TUCK", "SIZE", "TOALTSTACK", "FROMALTSTACK"}
NumberOps == UnaryOps \cup
             {"ADD", "SUB", "BOOLAND", "BOOLOR", "NUMEQUAL", "NUMNOTEQUAL", "LESSTHAN", "GREATERTHAN",
              "LESSTHANOREQUAL", "GREATERTHANOREQUAL", "MIN", "MAX", "WITHIN"}

opfunc(vm, env, script, i) ==
    LET name == script[i].op
        subScript == SubSeq(script, vm.sep + 1, Len(script))
    IN CASE name = "DATA" -> Push(vm, script[i].data)
         [] name \in DOMAIN SmallInt -> Push(vm, IntOf(SmallInt[name]))
         [] name \in StackOps -> StackHandler(vm, env, name)
         [] name \in NumberOps -> NumberHandler(vm, env, name)
         [] name = "NUMEQUALVERIFY" -> opcodeVerify(NumberHandler(vm, env, "NUMEQUAL"))
         [] name = "IF" -> opcodeIf(vm) [] name = "NOTIF" -> opcodeNotIf(vm)
         [] name = "ELSE" -> opcodeElse(vm) [] name = "ENDIF" -> opcodeEndif(vm)
         [] name = "VERIFY" -> opcodeVerify(vm)
         [] name = "EQUAL" -> opcodeEqual(vm) [] name = "EQUALVERIFY" -> opcodeVerify(opcodeEqual(vm))
         [] name = "RIPEMD160" -> opcodeRipemd160(vm) [] name = "SHA1" -> opcodeSha1(vm)
         [] name = "SHA256" -> opcodeSha256(vm) [] name = "HASH160" -> opcodeHash160(vm)
         [] name = "HASH256" -> opcodeHash256(vm)
         [] name = "CODESEPARATOR" -> [vm EXCEPT !.sep = i]
         [] name = "CHECKSIG" -> opcodeCheckSig(vm, env, subScript)
         [] name = "CHECKSIGVERIFY" -> opcodeVerify(opcodeCheckSig(vm, env, subScript))
         [] name = "CHECKMULTISIG" -> opcodeCheckMultiSig(vm, env, subScript)
         [] name = "CHECKMULTISIGVERIFY" -> opcodeVerify(opcodeCheckMultiSig(vm, env, subScript))
         [] name = "CHECKLOCKTIMEVERIFY" -> opcodeCheckLockTimeVerify(vm, env)
         [] name = "NOP3" -> opcodeCheckSequenceVerify(vm, env)
         [] name \in {"NOP", "NOP1"} -> opcodeNop(vm, env, name)
         [] OTHER -> Fail(vm)             \* OP_RETURN, the reserved and the invalid ones

executeOpcode(vm, env, script, i) ==
    LET pop == script[i]
        counted == [vm EXCEPT !.numOps = @ + Truth(pop.op \notin IsPush)]
    IN IF \/ pop.op \in isDisabled \cup alwaysIllegal
          \/ counted.numOps > MaxOpsPerScript
          \/ SizeOfItem(pop.data) > MaxScriptElementSize
       THEN Fail(vm)
       ELSE IF ~isBranchExecuting(vm) /\ pop.op \notin isConditional THEN counted
       ELSE opfunc(counted, env, script, i)

WithinStackSize(vm) == IF Len(vm.d) + Len(vm.a) > maxStackSize THEN Fail(vm) ELSE vm
Step(vm, env, script, i) ==
    IF vm.ok THEN WithinStackSize(executeOpcode(vm, env, script, i)) ELSE vm
RECURSIVE StepsFrom(_, _, _, _)
StepsFrom(vm, env, script, i) ==
    IF i > Len(script) THEN vm ELSE StepsFrom(Step(vm, env, script, i), env, script, i + 1)
\* One script to its end: no IF may straddle, the alternate stack is dropped.
AtEnd(vm) == IF vm.c # <<>> THEN Fail(vm) ELSE [vm EXCEPT !.a = <<>>, !.numOps = 0, !.sep = 0]
RunScript(vm, env, script) == AtEnd(StepsFrom(vm, env, script, 1))

\* Templates.
isScriptHash(script) == /\ Len(script) = 3 /\ script[1] = Op("HASH160") /\ script[3] = Op("EQUAL")
                        /\ script[2].op = "DATA" /\ SizeOfItem(script[2].data) = 20
isWitnessProgram(script) == /\ Len(script) = 2 /\ script[1].op \in DOMAIN SmallInt \ {"1NEGATE"}
                            /\ script[2].op = "DATA" /\ SizeOfItem(script[2].data) \in 2..40
isPushOnly(script) == \A i \in DOMAIN script : script[i].op \in IsPush
payToPubKeyHashScript(hash) == <<Op("DUP"), Op("HASH160"), AddData(hash), Op("EQUALVERIFY"), Op("CHECKSIG")>>

CheckErrorCondition(vm, env, finalScript, witness) ==
    /\ vm.ok
    /\ (finalScript /\ (witness \/ "clean_stack" \in env.flags)) => Len(vm.d) = 1
    /\ Len(vm.d) >= 1 /\ asBool(Last(vm.d))

\* The witness of version 0 takes the stack's place.
verifyWitnessProgram(vm, env, program, witness) ==
    LET hash == program[2].data
    IN IF ~vm.ok \/ \E i \in DOMAIN witness : SizeOfItem(witness[i]) > MaxScriptElementSize THEN Fail(vm)
       ELSE IF program[1] # Op("0") THEN Fail(vm)     \* upgradeable versions are discouraged
       ELSE IF SizeOfItem(hash) = 20
       THEN IF Len(witness) # 2 THEN Fail(vm)
            ELSE RunScript([vm EXCEPT !.d = witness], env, payToPubKeyHashScript(hash))
       ELSE IF SizeOfItem(hash) # 32 \/ witness = <<>> \/ Sha256(Last(witness)) # hash THEN Fail(vm)
       ELSE RunScript([vm EXCEPT !.d = Front(witness)], env, Last(witness).v)

Redeem(second, first, env) ==
    IF CheckErrorCondition(second, env, FALSE, FALSE)
    THEN RunScript([second EXCEPT !.d = Front(first.d)], env, Last(first.d).v) ELSE Fail(second)
\* After scriptSig, pkScript; after that a pay-to-script-hash script, what
\* scriptSig left below it being its stack, and last the witness.
RunPkScript(first, env, pkScript, bip16) ==
    IF bip16 THEN Redeem(RunScript(first, env, pkScript), first, env) ELSE RunScript(first, env, pkScript)
Verdict(vm, env, program, witness) ==
    IF program = <<>> THEN CheckErrorCondition(vm, env, TRUE, FALSE)
    ELSE CheckErrorCondition(verifyWitnessProgram(vm, env, program, witness), env, TRUE, TRUE)

\* NewEngine's conditions, then the scripts in turn, then the verdict.
Execute(env, sigScript, pkScript, witness) ==
    LET bip16 == "bip16" \in env.flags /\ isScriptHash(pkScript)
        nested == bip16 /\ Len(sigScript) = 1 /\ sigScript[1].data.kind = "script"
                        /\ isWitnessProgram(sigScript[1].data.v)
        native == isWitnessProgram(pkScript)
        program == IF native THEN pkScript ELSE IF nested THEN sigScript[1].data.v ELSE <<>>
    IN /\ bip16 => isPushOnly(sigScript)
       /\ native => sigScript = <<>>
       /\ (~native /\ ~nested) => witness = <<>>
       /\ Verdict(RunPkScript(RunScript(Engine, env, sigScript), env, pkScript, bip16), env, program, witness)
=============================================================================
