------------------------------- MODULE LitMsg -------------------------------
(* The messages lit nodes exchange (lnutil/msglib.go) and the records they *)
(* keep: for each, what Bytes writes and what the FromBytes function reads, *)
(* field by field in their order, and the shortest message it takes.       *)
EXTENDS BtcMsg

Msg(type, min, put, get) == [type |-> type, min |-> min, put |-> Layout(put), get |-> Layout(get)]

ChatMsg == Msg(0, 2, <<RestList("Text", U8("char"), 0)>>, <<RestList("Text", U8("char"), 0)>>)

PointReqMsg == Msg(16, 5, <<BE("Cointype", 4)>>, <<BE("Cointype", 4)>>)

PointRespMsg == Msg(17, 166,
    <<Key("ChannelPub"), Key("RefundPub"), Key("HAKDbase"), Key("NextHTLCBase"), Key("N2HTLCBase")>>,
    <<Key("ChannelPub"), Key("RefundPub"), Key("HAKDbase"), Key("NextHTLCBase"), Key("N2HTLCBase")>>)

ChanDescMsg == Msg(18, 283,
    <<OutPointToBytes("Outpoint"), Key("PubKey"), Key("RefundPub"), Key("HAKDbase"),
      Key("NextHTLCBase"), Key("N2HTLCBase"), BE("CoinType", 4), BE("Capacity", 8),
      BE("InitPayment", 8), Key("ElkZero"), Key("ElkOne"), Key("ElkTwo"), Hash("Data")>>,
    <<OutPointFromBytes("Outpoint"), Key("PubKey"), Key("RefundPub"), Key("HAKDbase"),
      Key("NextHTLCBase"), Key("N2HTLCBase"), BE("CoinType", 4), BE("Capacity", 8),
      BE("InitPayment", 8), Key("ElkZero"), Key("ElkOne"), Key("ElkTwo"), Hash("Data")>>)

ChanAckMsg == Msg(19, 200,
    <<OutPointToBytes("Outpoint"), Key("ElkZero"), Key("ElkOne"), Key("ElkTwo"), Sig("Signature")>>,
    <<OutPointFromBytes("Outpoint"), Key("ElkZero"), Key("ElkOne"), Key("ElkTwo"), Sig("Signature")>>)

SigProofMsg == Msg(20, 101, <<OutPointToBytes("Outpoint"), Sig("Signature")>>,
                            <<OutPointFromBytes("Outpoint"), Sig("Signature")>>)

CloseReqMsg == Msg(32, 101, <<OutPointToBytes("Outpoint"), Sig("Signature")>>,
                            <<OutPointFromBytes("Outpoint"), Sig("Signature")>>)

DeltaSigMsg == Msg(48, 105,
    <<OutPointToBytes("Outpoint"), BE("Delta", 4), Sig("Signature"), Hash("Data"),
      RestList("HTLCSigs", Sig("sig"), 0)>>,
    <<OutPointFromBytes("Outpoint"), BE("Delta", 4), Sig("Signature"), Hash("Data"),
      RestList("HTLCSigs", Sig("sig"), 0)>>)

\* The signatures stand before the last key: the reader leaves 33 bytes.
SigRevMsg_AllTheRest == Msg(49, 166,
    <<OutPointToBytes("Outpoint"), Sig("Signature"), Hash("Elk"), Key("N2ElkPoint"),
      RestList("HTLCSigs", Sig("sig"), 0), Key("N2HTLCBase")>>,
    <<OutPointFromBytes("Outpoint"), Sig("Signature"), Hash("Elk"), Key("N2ElkPoint"),
      Key("N2HTLCBase"), RestList("HTLCSigs", Sig("sig"), 0)>>)
SigRevMsg == Msg(49, 166,
    <<OutPointToBytes("Outpoint"), Sig("Signature"), Hash("Elk"), Key("N2ElkPoint"),
      RestList("HTLCSigs", Sig("sig"), 0), Key("N2HTLCBase")>>,
    <<OutPointFromBytes("Outpoint"), Sig("Signature"), Hash("Elk"), Key("N2ElkPoint"),
      RestList("HTLCSigs", Sig("sig"), 33), Key("N2HTLCBase")>>)

GapSigRevMsg == Msg(50, 166,
    <<OutPointToBytes("Outpoint"), Sig("Signature"), Hash("Elk"), Key("N2ElkPoint"),
      Key("N2HTLCBase"), RestList("HTLCSigs", Sig("sig"), 0)>>,
    <<OutPointFromBytes("Outpoint"), Sig("Signature"), Hash("Elk"), Key("N2ElkPoint"),
      Key("N2HTLCBase"), RestList("HTLCSigs", Sig("sig"), 0)>>)

RevMsg == Msg(51, 102,
    <<OutPointToBytes("Outpoint"), Hash("Elk"), Key("N2ElkPoint"), Key("N2HTLCBase")>>,
    <<OutPointFromBytes("Outpoint"), Hash("Elk"), Key("N2ElkPoint"), Key("N2HTLCBase")>>)

HashSigMsg == Msg(52, 169,
    <<OutPointToBytes("Outpoint"), BE("Amt", 8), BE("Locktime", 4), Hash("RHash"), Hash("Data"),
      Sig("CommitmentSignature"), RestList("HTLCSigs", Sig("sig"), 0)>>,
    <<OutPointFromBytes("Outpoint"), BE("Amt", 8), BE("Locktime", 4), Hash("RHash"), Hash("Data"),
      Sig("CommitmentSignature"), RestList("HTLCSigs", Sig("sig"), 0)>>)

PreimageSigMsg == Msg(53, 152,
    <<OutPointToBytes("Outpoint"), BE("Idx", 4), Raw("R", 16), Hash("Data"),
      Sig("CommitmentSignature"), RestList("HTLCSigs", Sig("sig"), 0)>>,
    <<OutPointFromBytes("Outpoint"), BE("Idx", 4), Raw("R", 16), Hash("Data"),
      Sig("CommitmentSignature"), RestList("HTLCSigs", Sig("sig"), 0)>>)

WatchDescMsg == Msg(96, 97,
    <<BE("CoinType", 4), PKH("DestPKHScript"), BE("Delay", 2), BE("Fee", 8),
      Key("CustomerBasePoint"), Key("AdversaryBasePoint")>>,
    <<BE("CoinType", 4), PKH("DestPKHScript"), BE("Delay", 2), BE("Fee", 8),
      Key("CustomerBasePoint"), Key("AdversaryBasePoint")>>)

WatchStateMsg == Msg(97, 137,
    <<BE("CoinType", 4), PKH("DestPKH"), Raw("ParTxid", 16), Sig("Sig"), Hash("Elk")>>,
    <<BE("CoinType", 4), PKH("DestPKH"), Raw("ParTxid", 16), Sig("Sig"), Hash("Elk")>>)

WatchDelMsg == Msg(98, 54, <<PKH("DestPKH"), Key("RevealPK")>>, <<PKH("DestPKH"), Key("RevealPK")>>)

RateDesc == BE("CoinType", 4) \o BE("Rate", 8) \o U8("Reciprocal")

\* Timestamp is the receiver's own and is not sent.
LinkMsg == Msg(112, 61,
    <<PKH("APKH"), BE("ACapacity", 8), PKH("BPKH"), BE("CoinType", 4), BE("Seq", 4),
      List("Rates", "u32", RateDesc)>>,
    <<PKH("APKH"), BE("ACapacity", 8), PKH("BPKH"), BE("CoinType", 4), BE("Seq", 4),
      List("Rates", "u32", RateDesc)>>)

MultihopPaymentRequestMsg == Msg(117, 1, <<BE("Cointype", 4)>>, <<BE("Cointype", 4)>>)

MultihopPaymentAckMsg == Msg(118, 1, <<Hash("HHash")>>, <<Hash("HHash")>>)

RouteHop == PKH("Node") \o BE("CoinType", 4)

MultihopPaymentSetupMsg == Msg(119, 1,
    <<Hash("HHash"), List("NodeRoute", "varint", RouteHop), Hash("Data")>>,
    <<Hash("HHash"), List("NodeRoute", "varint", RouteHop), Hash("Data")>>)

-----------------------------------------------------------------------------
(* Dual funding *)

DualFundingInput == OutPointToBytes("op") \o BE("Value", 8)

DualFundingReqMsg == Msg(160, 144,
    <<BE("CoinType", 4), BE("OurAmount", 8), BE("TheirAmount", 8), Key("OurPub"), Key("OurRefundPub"),
      Key("OurHAKDBase"), PKH("OurChangeAddressPKH"), List("OurInputs", "u32", DualFundingInput)>>,
    <<BE("CoinType", 4), BE("OurAmount", 8), BE("TheirAmount", 8), Key("OurPub"), Key("OurRefundPub"),
      Key("OurHAKDBase"), PKH("OurChangeAddressPKH"), List("OurInputs", "u32", DualFundingInput)>>)

DualFundingAcceptMsg == Msg(161, 29,
    <<BE("CoinType", 4), Key("OurPub"), Key("OurRefundPub"), Key("OurHAKDBase"),
      PKH("OurChangeAddressPKH"), Key("OurNextHTLCBase"), Key("OurN2HTLCBase"),
      List("OurInputs", "u32", DualFundingInput)>>,
    <<BE("CoinType", 4), Key("OurPub"), Key("OurRefundPub"), Key("OurHAKDBase"),
      PKH("OurChangeAddressPKH"), Key("OurNextHTLCBase"), Key("OurN2HTLCBase"),
      List("OurInputs", "u32", DualFundingInput)>>)

DualFundingDeclMsg == Msg(162, 2, <<U8("Reason")>>, <<U8("Reason")>>)

DualFundingChanAckMsg == Msg(163, 208,
    <<OutPointToBytes("Outpoint"), Key("ElkZero"), Key("ElkOne"), Key("ElkTwo"), Sig("Signature"),
      BE("txLen", 8), BtcEncode("witness")>>,
    <<OutPointFromBytes("Outpoint"), Key("ElkZero"), Key("ElkOne"), Key("ElkTwo"), Sig("Signature"),
      BE("txLen", 8), BtcDecode("witness")>>)

-----------------------------------------------------------------------------
(* Discreet log contracts *)

FundingInputs(f, value) == List(f, "varint", OutPointToBytes("op") \o Num(value))

DlcContract ==
    <<Num("Idx"), Num("TheirIdx"), Key("OracleA"), Key("OracleR"), Num("PeerIdx"), Num("CoinType"),
      Num("OracleTimestamp"), Num("OurFundingAmount"), Num("TheirFundingAmount"),
      PKH("OurChangePKH"), PKH("TheirChangePKH"), Key("OurFundMultisigPub"),
      Key("TheirFundMultisigPub"), Key("OurPayoutBase"), Key("TheirPayoutBase"),
      PKH("OurPayoutPKH"), PKH("TheirPayoutPKH"), Num("Status"),
      FundingInputs("OurFundingInputs", "OurValue"), FundingInputs("TheirFundingInputs", "TheirValue"),
      List("Division", "varint", Num("OracleValue") \o Num("ValueOurs")),
      List("TheirSettlementSignatures", "varint", Num("Outcome") \o Sig("Signature")),
      OutPointToBytes("FundingOutpoint")>>

DlcContractFromBytes ==
    <<Num("Idx"), Num("TheirIdx"), Key("OracleA"), Key("OracleR"), Num("PeerIdx"), Num("CoinType"),
      Num("OracleTimestamp"), Num("OurFundingAmount"), Num("TheirFundingAmount"),
      PKH("OurChangePKH"), PKH("TheirChangePKH"), Key("OurFundMultisigPub"),
      Key("TheirFundMultisigPub"), Key("OurPayoutBase"), Key("TheirPayoutBase"),
      PKH("OurPayoutPKH"), PKH("TheirPayoutPKH"), Num("Status"),
      FundingInputs("OurFundingInputs", "OurValue"), FundingInputs("TheirFundingInputs", "TheirValue"),
      List("Division", "varint", Num("OracleValue") \o Num("ValueOurs")),
      List("TheirSettlementSignatures", "varint", Num("Outcome") \o Sig("Signature")),
      OutPointFromBytes("FundingOutpoint")>>

DlcOfferMsg == Msg(144, 1, DlcContract, DlcContractFromBytes)

DlcOfferAcceptMsg == Msg(145, 34,
    <<Num("Idx"), Num("OurIdx"), PKH("OurChangePKH"), Key("OurFundMultisigPub"), Key("OurPayoutBase"),
      PKH("OurPayoutPKH"), List("FundingInputs", "varint", Num("Value") \o OutPointToBytes("op")),
      List("SettlementSignatures", "varint", Num("Outcome") \o Sig("Signature"))>>,
    <<Num("Idx"), Num("OurIdx"), PKH("OurChangePKH"), Key("OurFundMultisigPub"), Key("OurPayoutBase"),
      PKH("OurPayoutPKH"), List("FundingInputs", "varint", Num("Value") \o OutPointFromBytes("op")),
      List("SettlementSignatures", "varint", Num("Outcome") \o Sig("Signature"))>>)

DlcOfferDeclineMsg == Msg(146, 2, <<U8("Reason"), Num("Idx")>>, <<U8("Reason"), Num("Idx")>>)

DlcContractAckMsg == Msg(147, 34,
    <<Num("Idx"), List("SettlementSignatures", "u32", BE("Outcome", 8) \o Sig("Signature"))>>,
    <<Num("Idx"), List("SettlementSignatures", "u32", BE("Outcome", 8) \o Sig("Signature"))>>)

DlcContractFundingSigsMsg == Msg(148, 34, <<Num("Idx"), BtcEncode("witness")>>, <<Num("Idx"), BtcDecode("witness")>>)

DlcContractSigProofMsg == Msg(149, 34, <<Num("Idx"), BtcEncode("witness")>>, <<Num("Idx"), BtcDecode("witness")>>)

-----------------------------------------------------------------------------
(* Remote control *)

RemoteControlRpcRequestMsg == Msg(176, 1,
    <<Key("PubKey"), Sig("Sig"), U8("DigestType"), BE("Idx", 8), VarBytes("Method"), VarBytes("Args")>>,
    <<Key("PubKey"), Sig("Sig"), U8("DigestType"), BE("Idx", 8), VarBytes("Method"), VarBytes("Args")>>)

RemoteControlRpcResponseMsg == Msg(177, 1,
    <<BE("Idx", 8), U8("Error"), VarBytes("Result")>>, <<BE("Idx", 8), U8("Error"), VarBytes("Result")>>)

-----------------------------------------------------------------------------
\* The message types LitMsgFromBytes knows.  WatchDelMsg is not among them.
LitMsgFromBytes ==
    {ChatMsg, PointReqMsg, PointRespMsg, ChanDescMsg, ChanAckMsg, SigProofMsg, CloseReqMsg,
     DeltaSigMsg, SigRevMsg, GapSigRevMsg, RevMsg, HashSigMsg, PreimageSigMsg,
     WatchDescMsg, WatchStateMsg, LinkMsg,
     MultihopPaymentRequestMsg, MultihopPaymentAckMsg, MultihopPaymentSetupMsg,
     DualFundingReqMsg, DualFundingAcceptMsg, DualFundingDeclMsg, DualFundingChanAckMsg,
     DlcOfferMsg, DlcOfferAcceptMsg, DlcOfferDeclineMsg, DlcContractAckMsg,
     DlcContractFundingSigsMsg, DlcContractSigProofMsg,
     RemoteControlRpcRequestMsg, RemoteControlRpcResponseMsg}

-----------------------------------------------------------------------------
(* Records in the databases *)

KeyGen == U8("Depth") \o BE("Step0", 4) \o BE("Step1", 4) \o BE("Step2", 4) \o BE("Step3", 4)
          \o BE("Step4", 4) \o Hash("PrivKey")

\* PorTxoFromBytes wants 106 to 1024 bytes.
PorTxoBytes ==
    <<OutPointToBytes("Op"), BE("Value", 8), BE("Height", 4), BE("Seq", 4), BE("Mode", 1), KeyGen,
      Bytes("PkScript", "u8"), List("PreSigStack", "u8", Bytes("element", "u8"))>>
PorTxoFromBytes ==
    <<Hash("Op"), BE("Op", 4), BE("Value", 8), BE("Height", 4), BE("Seq", 4), BE("Mode", 1), KeyGen,
      Bytes("PkScript", "u8"), List("PreSigStack", "u8", Bytes("element", "u8"))>>
PorTxo == Msg(0, 106, PorTxoBytes, PorTxoFromBytes)
PorTxoMax == 1024

IdxSig == Msg(0, 74, <<BE("PKHIdx", 4), BE("StateIdx", 6), Sig("Sig")>>,
                     <<BE("PKHIdx", 4), BE("StateIdx", 6), Sig("Sig")>>)
=============================================================================
