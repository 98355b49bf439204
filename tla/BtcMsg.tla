------------------------------- MODULE BtcMsg -------------------------------
(* Bitcoin's messages as package wire writes and reads them: BtcEncode and *)
(* BtcDecode of each, at protocol version pver, what BtcEncode refuses, and *)
(* the length limit that WriteMessage and ReadMessage put on each.         *)
EXTENDS Codec

MultipleAddressVersion == 209
NetAddressTimeVersion  == 31402
BIP0031Version == 60000
BIP0035Version == 60002
BIP0037Version == 70001
RejectVersion  == 70002
SendHeadersVersion == 70012

MaxVarIntPayload  == 9
MaxMessagePayload == 33554432
MaxBlockPayload   == 4000000
MaxInvPerMsg      == 50000
MaxAddrPerMsg     == 1000
MaxUserAgentLen   == 256
MaxBlockLocatorsPerMsg  == 500
MaxBlockHeadersPerMsg   == 2000
MaxFilterAddDataSize    == 520
MaxFilterLoadFilterSize == 36000
MaxBlockHeaderPayload   == 16 + 32 * 2 + 500

\* A command: the versions that know it, what is written and read, the most
\* entries or bytes BtcEncode lets its lists have, and MaxPayloadLength.
Command(name, valid, put, get, limits, max) ==
    [name |-> name, valid |-> valid, put |-> Layout(put), get |-> Layout(get),
     limits |-> limits, max |-> max]
NoLists == [f \in {} |-> 0]

-----------------------------------------------------------------------------
(* Transactions and blocks *)

WriteTxIn == Hash("PreviousOutPoint") \o LE("PreviousOutPoint", 4) \o VarBytes("SignatureScript")
             \o LE("Sequence", 4)
ReadTxIn  == Hash("PreviousOutPoint") \o LE("PreviousOutPoint", 4) \o VarBytes("SignatureScript")
             \o LE("Sequence", 4)
WriteTxOut == LE("Value", 8) \o VarBytes("PkScript")
ReadTxOut  == LE("Value", 8) \o VarBytes("PkScript")
WriteTxWitness == List("Witness", "varint", VarBytes("item"))
ReadTxWitness  == List("Witness", "varint", VarBytes("item"))

\* A transaction in encoding enc: version, marker and flag when some input has
\* a witness, inputs, outputs, one witness for each input, lock time.
BtcEncode(enc) ==
    LE("Version", 4)
    \o Marked(enc, List("TxIn", "varint", WriteTxIn) \o List("TxOut", "varint", WriteTxOut)
                   \o Each("Witnesses", "TxIn", WriteTxWitness),
                   List("TxIn", "varint", WriteTxIn) \o List("TxOut", "varint", WriteTxOut))
    \o LE("LockTime", 4)
BtcDecode(enc) ==
    LE("Version", 4)
    \o Marked(enc, List("TxIn", "varint", ReadTxIn) \o List("TxOut", "varint", ReadTxOut)
                   \o Each("Witnesses", "TxIn", ReadTxWitness),
                   List("TxIn", "varint", ReadTxIn) \o List("TxOut", "varint", ReadTxOut))
    \o LE("LockTime", 4)

\* The sizes that fee calculations and length fields rely on.
TxInSize(m)  == 40 + VarIntSerializeSize(m["SignatureScript"]) + m["SignatureScript"]
TxOutSize(m) == 8 + VarIntSerializeSize(m["PkScript"]) + m["PkScript"]
TxWitnessSize(m) ==
    VarIntSerializeSize(m["Witness"]) + m["Witness"] * (VarIntSerializeSize(m["item"]) + m["item"])
SerializeSizeStripped(m) ==
    8 + VarIntSerializeSize(m["TxIn"]) + VarIntSerializeSize(m["TxOut"])
      + m["TxIn"] * TxInSize(m) + m["TxOut"] * TxOutSize(m)
SerializeSize_NoFlag(m) ==
    SerializeSizeStripped(m) + IF HasWitness(m) THEN m["TxIn"] * TxWitnessSize(m) ELSE 0
SerializeSize(m) ==
    SerializeSizeStripped(m) + IF HasWitness(m) THEN 2 + m["TxIn"] * TxWitnessSize(m) ELSE 0

\* Where each output's script starts, for a transaction whose inputs all have
\* a witness or all have none.
PkScriptLoc(m, i) ==
    4 + VarIntSerializeSize(m["TxIn"]) + VarIntSerializeSize(m["TxOut"])
      + (IF HasWitness(m) THEN 2 ELSE 0) + m["TxIn"] * TxInSize(m)
      + i * TxOutSize(m) - m["PkScript"]

WriteBlockHeader == LE("Version", 4) \o Hash("PrevBlock") \o Hash("MerkleRoot") \o LE("Timestamp", 4)
                    \o LE("Bits", 4) \o LE("Nonce", 4)
ReadBlockHeader  == LE("Version", 4) \o Hash("PrevBlock") \o Hash("MerkleRoot") \o LE("Timestamp", 4)
                    \o LE("Bits", 4) \o LE("Nonce", 4)

MsgTx(pver, enc) == Command("tx", TRUE, <<BtcEncode(enc)>>, <<BtcDecode(enc)>>, NoLists, MaxBlockPayload)

MsgBlock(pver, enc) == Command("block", TRUE,
    <<WriteBlockHeader, List("Transactions", "varint", BtcEncode(enc))>>,
    <<ReadBlockHeader, List("Transactions", "varint", BtcDecode(enc))>>, NoLists, MaxBlockPayload)

\* Every header is followed by a transaction count, which is zero.
MsgHeaders(pver) == Command("headers", TRUE,
    <<List("Headers", "varint", WriteBlockHeader \o List("NoTx", "varint", <<>>))>>,
    <<List("Headers", "varint", ReadBlockHeader \o List("NoTx", "varint", <<>>))>>,
    [f \in {"Headers", "NoTx"} |-> IF f = "NoTx" THEN 0 ELSE MaxBlockHeadersPerMsg],
    MaxVarIntPayload + (MaxBlockHeaderPayload + 1) * MaxBlockHeadersPerMsg)

MsgMerkleBlock(pver) == Command("merkleblock", pver >= BIP0037Version,
    <<WriteBlockHeader, LE("Transactions", 4), List("Hashes", "varint", Hash("hash")), VarBytes("Flags")>>,
    <<ReadBlockHeader, LE("Transactions", 4), List("Hashes", "varint", Hash("hash")), VarBytes("Flags")>>,
    NoLists, MaxBlockPayload)

-----------------------------------------------------------------------------
(* Addresses and versions *)

WriteNetAddress(f, pver, ts) ==
    (IF ts /\ pver >= NetAddressTimeVersion THEN LE(f, 4) ELSE <<>>)
    \o LE(f, 8) \o Raw(f, 16) \o BE(f, 2)
ReadNetAddress(f, pver, ts) ==
    (IF ts /\ pver >= NetAddressTimeVersion THEN LE(f, 4) ELSE <<>>)
    \o LE(f, 8) \o Raw(f, 16) \o BE(f, 2)
MaxNetAddressPayload(pver) == 26 + IF pver >= NetAddressTimeVersion THEN 4 ELSE 0

MsgAddr(pver) == Command("addr", TRUE,
    <<List("AddrList", "varint", WriteNetAddress("na", pver, TRUE))>>,
    <<List("AddrList", "varint", ReadNetAddress("na", pver, TRUE))>>,
    [f \in {"AddrList"} |-> IF pver < MultipleAddressVersion THEN 1 ELSE MaxAddrPerMsg],
    MaxVarIntPayload + MaxNetAddressPayload(pver)
                       * IF pver < MultipleAddressVersion THEN 1 ELSE MaxAddrPerMsg)

\* The reader takes a version message that ends early; the writer leaves out
\* the relay flag before BIP 37.
MsgVersion(pver) == Command("version", TRUE,
    <<LE("ProtocolVersion", 4), LE("Services", 8), LE("Timestamp", 8),
      WriteNetAddress("AddrYou", pver, FALSE), WriteNetAddress("AddrMe", pver, FALSE), LE("Nonce", 8),
      VarBytes("UserAgent"), LE("LastBlock", 4),
      IF pver >= BIP0037Version THEN U8("RelayTx") ELSE <<>> >>,
    <<LE("ProtocolVersion", 4), LE("Services", 8), LE("Timestamp", 8),
      ReadNetAddress("AddrYou", pver, FALSE), ReadNetAddress("AddrMe", pver, FALSE),
      IfLeft(LE("Nonce", 8)), IfLeft(VarBytes("UserAgent")), IfLeft(LE("LastBlock", 4)),
      IfLeft(U8("RelayTx"))>>,
    [f \in {"UserAgent"} |-> MaxUserAgentLen],
    33 + MaxNetAddressPayload(pver) * 2 + MaxVarIntPayload + MaxUserAgentLen)

-----------------------------------------------------------------------------
(* Inventories and requests *)

InvVect == LE("Type", 4) \o Hash("Hash")
Inventory(name) == Command(name, TRUE,
    <<List("InvList", "varint", InvVect)>>, <<List("InvList", "varint", InvVect)>>,
    [f \in {"InvList"} |-> MaxInvPerMsg], MaxVarIntPayload + MaxInvPerMsg * (4 + 32))
MsgInv(pver)      == Inventory("inv")
MsgGetData(pver)  == Inventory("getdata")
MsgNotFound(pver) == Inventory("notfound")

Locator(name) == Command(name, TRUE,
    <<LE("ProtocolVersion", 4), List("BlockLocatorHashes", "varint", Hash("hash")), Hash("HashStop")>>,
    <<LE("ProtocolVersion", 4), List("BlockLocatorHashes", "varint", Hash("hash")), Hash("HashStop")>>,
    [f \in {"BlockLocatorHashes"} |-> MaxBlockLocatorsPerMsg],
    4 + MaxVarIntPayload + MaxBlockLocatorsPerMsg * 32 + 32)
MsgGetBlocks(pver)  == Locator("getblocks")
MsgGetHeaders(pver) == Locator("getheaders")

-----------------------------------------------------------------------------
(* Filters, pings and the rest *)

MsgFilterAdd(pver) == Command("filteradd", pver >= BIP0037Version,
    <<VarBytes("Data")>>, <<VarBytes("Data")>>, [f \in {"Data"} |-> MaxFilterAddDataSize],
    VarIntSerializeSize(MaxFilterAddDataSize) + MaxFilterAddDataSize)

MsgFilterLoad(pver) == Command("filterload", pver >= BIP0037Version,
    <<VarBytes("Filter"), LE("HashFuncs", 4), LE("Tweak", 4), U8("Flags")>>,
    <<VarBytes("Filter"), LE("HashFuncs", 4), LE("Tweak", 4), U8("Flags")>>,
    [f \in {"Filter"} |-> MaxFilterLoadFilterSize],
    VarIntSerializeSize(MaxFilterLoadFilterSize) + MaxFilterLoadFilterSize + 9)

PingNonce(pver) == IF pver > BIP0031Version THEN LE("Nonce", 8) ELSE <<>>
MsgPing(pver) == Command("ping", TRUE, <<PingNonce(pver)>>, <<PingNonce(pver)>>, NoLists,
                         IF pver > BIP0031Version THEN 8 ELSE 0)
MsgPong(pver) == Command("pong", pver > BIP0031Version, <<LE("Nonce", 8)>>, <<LE("Nonce", 8)>>, NoLists,
                         IF pver > BIP0031Version THEN 8 ELSE 0)

\* A hash follows only if a block or a transaction was rejected.
MsgReject(pver, cmd) == Command("reject", pver >= RejectVersion,
    <<VarBytes("Cmd"), U8("Code"), VarBytes("Reason"), IF cmd \in {"block", "tx"} THEN Hash("Hash") ELSE <<>> >>,
    <<VarBytes("Cmd"), U8("Code"), VarBytes("Reason"), IF cmd \in {"block", "tx"} THEN Hash("Hash") ELSE <<>> >>,
    NoLists, IF pver >= RejectVersion THEN MaxMessagePayload ELSE 0)

AlertSerialize ==
         LE("Version", 4) \o LE("RelayUntil", 8) \o LE("Expiration", 8) \o LE("ID", 4) \o LE("Cancel", 4)
         \o List("SetCancel", "varint", LE("cancel", 4)) \o LE("MinVer", 4) \o LE("MaxVer", 4)
         \o List("SetSubVer", "varint", VarBytes("SubVer")) \o LE("Priority", 4)
         \o VarBytes("Comment") \o VarBytes("StatusBar") \o VarBytes("Reserved")
AlertDeserialize ==
         LE("Version", 4) \o LE("RelayUntil", 8) \o LE("Expiration", 8) \o LE("ID", 4) \o LE("Cancel", 4)
         \o List("SetCancel", "varint", LE("cancel", 4)) \o LE("MinVer", 4) \o LE("MaxVer", 4)
         \o List("SetSubVer", "varint", VarBytes("SubVer")) \o LE("Priority", 4)
         \o VarBytes("Comment") \o VarBytes("StatusBar") \o VarBytes("Reserved")
AlertPayload == Command("payload", TRUE, <<AlertSerialize>>, <<AlertDeserialize>>, NoLists, MaxMessagePayload)
MsgAlert(pver) == Command("alert", TRUE, <<VarBytes("SerializedPayload"), VarBytes("Signature")>>,
    <<VarBytes("SerializedPayload"), VarBytes("Signature")>>, NoLists, MaxMessagePayload)

Empty(name, valid) == Command(name, valid, <<>>, <<>>, NoLists, 0)
MsgVerAck(pver)      == Empty("verack", TRUE)
MsgGetAddr(pver)     == Empty("getaddr", TRUE)
MsgMemPool(pver)     == Empty("mempool", pver >= BIP0035Version)
MsgFilterClear(pver) == Empty("filterclear", pver >= BIP0037Version)
MsgSendHeaders(pver) == Empty("sendheaders", pver >= SendHeadersVersion)

\* The commands that makeEmptyMessage knows.
MakeEmptyMessage(pver, enc) ==
    {MsgVersion(pver), MsgVerAck(pver), MsgGetAddr(pver), MsgAddr(pver), MsgGetBlocks(pver),
     MsgBlock(pver, enc), MsgInv(pver), MsgGetData(pver), MsgNotFound(pver), MsgTx(pver, enc),
     MsgPing(pver), MsgPong(pver), MsgGetHeaders(pver), MsgHeaders(pver), MsgAlert(pver), AlertPayload,
     MsgMemPool(pver), MsgFilterAdd(pver), MsgFilterClear(pver), MsgFilterLoad(pver),
     MsgMerkleBlock(pver), MsgReject(pver, "tx"), MsgReject(pver, "ping"), MsgSendHeaders(pver)}

-----------------------------------------------------------------------------
\* The size of a message, by arithmetic: lists may be long.
RECURSIVE SizeOf(_, _)
SizeOf(layout, m) ==
    IF layout = <<>> THEN 0
    ELSE LET it == Head(layout)
         IN (CASE it.k = "list"  -> VarIntSerializeSize(m[it.f]) + m[it.f] * SizeOf(it.of, m)
               [] it.k = "bytes" -> VarIntSerializeSize(m[it.f]) + m[it.f]
               [] OTHER          -> it.w)
            + SizeOf(Tail(layout), m)
=============================================================================
