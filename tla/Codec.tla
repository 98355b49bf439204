------------------------------- MODULE Codec -------------------------------
(* How lit puts messages, transactions and database records into bytes and *)
(* reads them back.  A writer is a list of items, each standing for one    *)
(* write; a reader is a list of items of its own, each standing for one    *)
(* read.  The bytes in between are a sequence of chunks: what one write    *)
(* left, with its width, its byte order and its value.  A read succeeds if *)
(* it takes exactly one chunk of its own width and order; a read that      *)
(* straddles two writes gets garbage, which is the same as failing.        *)
(* A message m says how long its lists and strings are and what its        *)
(* variable-length integers hold.                                          *)
EXTENDS Integers, Sequences, SequencesExt

Item(k, f, w, c, of) == <<[k |-> k, f |-> f, w |-> w, c |-> c, of |-> of]>>
Raw(f, w) == Item("raw", f, w, "none", <<>>)
BE(f, w)  == Item("be", f, w, "none", <<>>)
LE(f, w)  == Item("le", f, w, "none", <<>>)
Num(f)    == Item("varint", f, 0, "varint", <<>>)

\* A list of entries laid out as of, after a counter of kind c.  Counter
\* "rest" is no counter at all: the entries fill the buffer up to w bytes.
List(f, c, of)     == Item("list", f, 0, c, of)
RestList(f, of, w) == Item("list", f, w, "rest", of)
Bytes(f, c)        == Item("bytes", f, 0, c, <<>>)
VarBytes(f)        == Bytes(f, "varint")

\* Entries without a counter of their own: as many as list c had.
Each(f, c, of)     == Item("each", f, 0, c, of)
\* A field that is read only while there are bytes left.
IfLeft(item)       == Item("opt", "opt", 0, "none", item)
\* A transaction's body in encoding enc: with a marker and witnesses, or plain.
Marked(enc, with, plain) == Item("marked", "marker", 0, enc, <<with, plain>>)
Layout(parts)      == FlattenSeq(parts)

\* The field groups that recur in lit's own messages.
Key(f)  == Raw(f, 33)
Hash(f) == Raw(f, 32)
Sig(f)  == Raw(f, 64)
PKH(f)  == Raw(f, 20)
U8(f)   == Raw(f, 1)
OutPointToBytes(f)   == Raw(f, 32) \o BE(f, 4)
OutPointFromBytes(f) == Raw(f, 32) \o BE(f, 4)

-----------------------------------------------------------------------------
\* The width WriteVarInt gives a value.
\* Values here are below 2^31, so the nine-byte form is never needed.
VarIntSerializeSize(val) == IF val < 253 THEN 1 ELSE IF val <= 65535 THEN 3 ELSE 5

\* ReadVarInt takes the first byte for the value or for the width, and refuses
\* a value that had fitted a shorter form.
ReadVarInt(chunk) ==
    /\ chunk.k = "varint"
    /\ CASE chunk.w = 1 -> chunk.v < 253
         [] chunk.w = 3 -> chunk.v >= 253
         [] OTHER       -> chunk.v >= 65536

Chunk(k, f, at, w, v) == <<[k |-> k, f |-> f, at |-> at, w |-> w, v |-> v]>>

\* A counter of kind c for n entries; one byte holds n modulo 256.
Counter(c, f, at, n) ==
    CASE c = "varint" -> Chunk("varint", f, at, VarIntSerializeSize(n), n)
      [] c = "u8"     -> Chunk("be", f, at, 1, n % 256)
      [] c = "u32"    -> Chunk("be", f, at, 4, n)
      [] OTHER        -> <<>>

CounterRead(c, f, at, buf) ==
    /\ buf # <<>>
    /\ Head(buf).f = f /\ Head(buf).at = at
    /\ CASE c = "varint" -> ReadVarInt(Head(buf))
         [] c = "u8"     -> Head(buf).k = "be" /\ Head(buf).w = 1
         [] OTHER        -> Head(buf).k = "be" /\ Head(buf).w = 4

RECURSIVE Size(_)
Size(buf) == IF buf = <<>> THEN 0 ELSE Head(buf).w + Size(Tail(buf))

RECURSIVE EntryWidth(_)
EntryWidth(of) == IF of = <<>> THEN 0 ELSE Head(of).w + EntryWidth(Tail(of))

-----------------------------------------------------------------------------
\* Once list f has n entries, the items that go by its count know theirs.
Bind(layout, f, n) ==
    [i \in DOMAIN layout |-> IF layout[i].k = "each" /\ layout[i].c = f
                              THEN [layout[i] EXCEPT !.w = n] ELSE layout[i]]

\* MsgTx.HasWitness: some input brings a witness.
HasWitness(m) == m["TxIn"] > 0 /\ m["Witness"] > 0

\* The bytes a writer makes of message m; at is the path of entry numbers.
RECURSIVE Write(_, _, _)
RECURSIVE WriteEntries(_, _, _, _, _)
WriteEntries(of, m, at, i, n) ==
    IF i > n THEN <<>>
    ELSE Write(of, m, Append(at, i)) \o WriteEntries(of, m, at, i + 1, n)
Write(layout, m, at) ==
    IF layout = <<>> THEN <<>>
    ELSE LET it == Head(layout)
             one == CASE it.k = "varint" -> Counter("varint", it.f, at, m[it.f])
                      [] it.k = "bytes"  -> Counter(it.c, it.f, at, m[it.f])
                                            \o Chunk("raw", it.f, at, m[it.f], 0)
                      [] it.k = "list"   -> Counter(it.c, it.f, at, m[it.f])
                                            \o WriteEntries(it.of, m, at, 1, m[it.f])
                      [] it.k = "each"   -> WriteEntries(it.of, m, at, 1, it.w)
                      [] it.k = "marked" ->
                           IF it.c = "witness" /\ HasWitness(m)
                           THEN Chunk("varint", "TxIn", at, 1, 0) \o Chunk("raw", "flag", at, 1, 1)
                                \o Write(it.of[1], m, at)
                           ELSE Write(it.of[2], m, at)
                      [] OTHER           -> Chunk(it.k, it.f, at, it.w, 0)
         IN one \o Write(IF it.k = "list" THEN Bind(Tail(layout), it.f, m[it.f]) ELSE Tail(layout),
                         m, at)

\* What a reader finds: whether every read got the field it was for, and what
\* is left in the buffer.
Got(ok, buf) == [ok |-> ok, left |-> buf]

RECURSIVE Read(_, _, _)
RECURSIVE ReadEntries(_, _, _, _, _)
ReadEntries(of, buf, at, i, n) ==
    IF i > n THEN Got(TRUE, buf)
    ELSE LET r == Read(of, buf, Append(at, i))
         IN IF r.ok THEN ReadEntries(of, r.left, at, i + 1, n) ELSE r
ReadOne(it, buf, at) ==
    CASE it.k = "opt" -> IF buf = <<>> THEN Got(TRUE, buf) ELSE Read(it.of, buf, at)
      [] it.k = "each" -> ReadEntries(it.of, buf, at, 1, it.w)
      [] it.k = "marked" ->
           IF it.c = "witness" /\ buf # <<>> /\ Head(buf).k = "varint" /\ Head(buf).v = 0
           THEN IF Len(buf) > 1 /\ buf[2].w = 1 /\ buf[2].v = 1
                THEN Read(it.of[1], SubSeq(buf, 3, Len(buf)), at)
                ELSE Got(FALSE, buf)
           ELSE Read(it.of[2], buf, at)
      [] it.k = "list" /\ it.c = "rest" ->
           ReadEntries(it.of, buf, at, 1, (Size(buf) - it.w) \div EntryWidth(it.of))
      [] it.k \in {"varint", "bytes", "list"} /\ ~CounterRead(it.c, it.f, at, buf) -> Got(FALSE, buf)
      [] it.k = "varint" -> Got(TRUE, Tail(buf))
      [] it.k = "list"   -> ReadEntries(it.of, Tail(buf), at, 1, Head(buf).v)
      [] it.k = "bytes"  -> Got(Len(buf) >= 2 /\ buf[2].w = Head(buf).v /\ buf[2].f = it.f,
                                SubSeq(buf, 3, Len(buf)))
      [] OTHER -> Got(/\ buf # <<>>
                      /\ Head(buf).k = it.k /\ Head(buf).w = it.w
                      /\ Head(buf).f = it.f /\ Head(buf).at = at,
                      IF buf = <<>> THEN buf ELSE Tail(buf))
Read(layout, buf, at) ==
    IF layout = <<>> THEN Got(TRUE, buf)
    ELSE LET r == ReadOne(Head(layout), buf, at)
         IN IF ~r.ok THEN r
            ELSE Read(IF Head(layout).k = "list" /\ buf # <<>>
                      THEN Bind(Tail(layout), Head(layout).f, Head(buf).v) ELSE Tail(layout),
                      r.left, at)

-----------------------------------------------------------------------------
\* The messages a layout is tried with: all lists, strings and integers at
\* their i-th length or value, except one, which is at its j-th.
RECURSIVE Vars(_)
Vars(layout) ==
    IF layout = <<>> THEN {}
    ELSE LET it == Head(layout)
         IN (IF it.k \in {"list", "varint", "bytes"} THEN {[f |-> it.f, k |-> it.k, c |-> it.c]} ELSE {})
            \cup (IF it.k = "marked" THEN Vars(it.of[1]) ELSE Vars(it.of)) \cup Vars(Tail(layout))

Choice(x, i) ==
    CASE x.f = "NoTx"                   -> 0
      [] x.k = "list"                   -> IF x.f = "TxIn" THEN i ELSE i - 1
      [] x.k = "bytes" /\ x.c = "u8"    -> <<0, 25, 255>>[i]
      [] OTHER                          -> <<1, 253, 65536>>[i]
Named(vs, f) == CHOOSE x \in vs : x.f = f
MessagesOf(layout) ==
    LET vs == Vars(layout)
        names == {x.f : x \in vs} \cup {"none"}
    IN {[f \in names |-> IF f = "none" THEN i ELSE Choice(Named(vs, f), IF f = g THEN j ELSE i)] :
            i \in 1..3, j \in 1..3, g \in names}
=============================================================================
