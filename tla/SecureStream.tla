---------------------------- MODULE SecureStream ----------------------------
(***************************************************************************)
(* The byte accounting of SecureStream: a stack of security layers between *)
(* a stream and its socket.  What the stream writes passes down through    *)
(* the layers, each of which makes it longer; when the socket reports bytes *)
(* as written the report passes up through the layers, each of which turns *)
(* its own bytes back into those it was given, and what comes out at the   *)
(* top is reported to the stream.  A layer put in place while bytes are    *)
(* under way remembers how many they are (prebytes), for they were never   *)
(* its own.                                                                *)
(*                                                                         *)
(* The state is one record, on which the operators work; a module that     *)
(* uses them holds it in a variable.  layers[1] is the layer next to the   *)
(* socket.  out is the socket's buffer, each entry with the bytes left,    *)
(* the stream's bytes that it stands for, and what it carries; sent counts *)
(* the stream's bytes that have left entirely, which is what reported      *)
(* ought to say.                                                           *)
(***************************************************************************)
EXTENDS Naturals, Sequences, SequencesExt

CONSTANTS
    TlsOverhead,    \* bytes TLS adds to a record
    SaslOverhead    \* bytes the SASL layer adds: 0 without a security layer

ASSUME OverheadAssumption == TlsOverhead \in Nat \ {0} /\ SaslOverhead \in Nat

Idle == [layers |-> <<>>, pending |-> 0, topInProgress |-> FALSE,
         reported |-> 0, out |-> <<>>, sent |-> 0]

LayerTypes(ss) == [k \in DOMAIN ss.layers |-> ss.layers[k].type]

Encoded(type, n) == n + (IF type = "TLS" THEN TlsOverhead ELSE SaslOverhead)

-----------------------------------------------------------------------------
\* The bytes that the first items make, for every number of them.
Sums(items, field) ==
    LET sum[k \in 0..Len(items)] == IF k = 0 THEN 0 ELSE sum[k - 1] + items[k][field]
    IN  sum

Total(items, field) == Sums(items, field)[Len(items)]

\* How many of the first items n bytes cover.
Covered(items, field, n) ==
    CHOOSE k \in 0..Len(items) :
        /\ Sums(items, field)[k] <= n
        /\ k = Len(items) \/ Sums(items, field)[k + 1] > n

(***************************************************************************)
(* LayerTracker                                                            *)
(***************************************************************************)
SpecifyEncoded(layer, encoded, plain) ==
    LET known == IF plain > layer.p THEN layer.p ELSE plain
    IN  [layer EXCEPT !.p = @ - known,
                      !.list = Append(@, [plain |-> known, encoded |-> encoded])]

\* Mutation: an item of which exactly all bytes are written is not complete.
CompletedLate(list, encoded) ==
    CHOOSE n \in 0..Len(list) :
        /\ n = 0 \/ Sums(list, "encoded")[n] < encoded
        /\ n = Len(list) \/ Sums(list, "encoded")[n + 1] >= encoded

Completed(list, encoded) == Covered(list, "encoded", encoded)

TrackerFinished(layer, encoded) ==
    LET list == layer.list
        n == Completed(list, encoded)
        left == encoded - Sums(list, "encoded")[n]
        rest == [j \in 1..(Len(list) - n) |->
                    IF j = 1 THEN [list[n + 1] EXCEPT !.encoded = @ - left] ELSE list[n + j]]
    IN  [layer |-> [layer EXCEPT !.list = rest], plain |-> Sums(list, "plain")[n]]

(***************************************************************************)
(* SecureLayer                                                             *)
(***************************************************************************)
NewLayer(type, prebytes) ==
    [type |-> type, done |-> FALSE, prebytes |-> prebytes, p |-> 0, list |-> <<>>]

Lesser(m, n) == IF m < n THEN m ELSE n

\* Mutation: the bytes of the handshake are passed on too.
LayerFinishedHandshake(layer, bytes) ==
    LET pre == Lesser(layer.prebytes, bytes)
        past == [layer EXCEPT !.prebytes = @ - pre]
        own == TrackerFinished(past, bytes - pre)
    IN  IF layer.type = "SASL" \/ layer.done
        THEN [layer |-> own.layer, plain |-> pre + own.plain]
        ELSE [layer |-> past, plain |-> bytes]

\* Bytes sent before the layer are passed on as they are; the rest is the
\* layer's own, unless it is still shaking hands.
LayerFinished(layer, bytes) ==
    LET pre == Lesser(layer.prebytes, bytes)
        past == [layer EXCEPT !.prebytes = @ - pre]
        own == TrackerFinished(past, bytes - pre)
    IN  IF layer.type = "SASL" \/ layer.done
        THEN [layer |-> own.layer, plain |-> pre + own.plain]
        ELSE [layer |-> past, plain |-> pre]

-----------------------------------------------------------------------------
(***************************************************************************)
(* SecureStream                                                            *)
(***************************************************************************)
CalcPrebytes(ss) == ss.pending - Total(ss.layers, "prebytes")

\* The bytes that n bytes given to the last layer have become when they leave
\* the k-th from below, where 0 is the socket.
Sizes(layers, n) ==
    LET size[k \in 0..Len(layers)] ==
            IF k = Len(layers) THEN n ELSE Encoded(layers[k + 1].type, size[k + 1])
    IN  size

Raw(ss, bytes, plain, item) ==
    [ss EXCEPT !.out = Append(@, [bytes |-> bytes, plain |-> plain,
                                  layered |-> ss.layers # <<>>, item |-> item])]

\* What is given to the last layer passes down to the socket.  TLS encodes
\* nothing before it is done, and nothing is written to it then.
LayerWrite(layers, n) ==
    LET size == Sizes(layers, n)
    IN  [k \in DOMAIN layers |->
            SpecifyEncoded([layers[k] EXCEPT !.p = @ + size[k]], size[k - 1], size[k])]

SSWrite(ss, n, item) ==
    Raw([ss EXCEPT !.pending = @ + n, !.layers = LayerWrite(ss.layers, n)],
        Sizes(ss.layers, n)[0], n, item)

HasLayer(ss, type) == type \in ToSet(LayerTypes(ss))

StartTLS(ss) ==
    IF ss.topInProgress \/ HasLayer(ss, "TLS") THEN ss
    ELSE [ss EXCEPT !.layers = Append(@, NewLayer("TLS", CalcPrebytes(ss))),
                    !.topInProgress = TRUE]

SetLayerSASL(ss) ==
    IF ss.topInProgress \/ HasLayer(ss, "SASL") THEN ss
    ELSE [ss EXCEPT !.layers = Append(@, NewLayer("SASL", CalcPrebytes(ss)))]

\* A flight of the handshake.  The last one comes after handshaken(): the
\* layer is done by then and tracks it as the encoding of nothing.
TlsFlight(ss, n, last, item) ==
    LET top == ss.layers[1]
        tracked == SpecifyEncoded([top EXCEPT !.done = TRUE], n, 0)
    IN  Raw(IF last THEN [ss EXCEPT !.layers[1] = tracked, !.topInProgress = FALSE]
                    ELSE ss,
            n, 0, item)

\* The report of the socket as it comes out of each layer, from the socket up.
Passed(layers, n) ==
    LET bytes[k \in 0..Len(layers)] ==
            IF k = 0 THEN n ELSE LayerFinished(layers[k], bytes[k - 1]).plain
    IN  bytes

Report(ss, n) ==
    LET bytes == Passed(ss.layers, n)
        top == bytes[Len(ss.layers)]
        layers == [k \in DOMAIN ss.layers |-> LayerFinished(ss.layers[k], bytes[k - 1]).layer]
    IN  [ss EXCEPT !.layers = layers, !.pending = @ - top, !.reported = @ + top]

\* What is left of the buffer when n bytes of it have gone, and the stream's
\* bytes among them: those of an entry under a layer count when it is complete.
Drained(out, n) ==
    LET k == Covered(out, "bytes", n)
        left == n - Sums(out, "bytes")[k]
        plainLeft == IF k = Len(out) \/ out[k + 1].layered THEN 0 ELSE left
    IN  [out |-> [j \in 1..(Len(out) - k) |->
                    IF j = 1 THEN [out[k + 1] EXCEPT !.bytes = @ - left, !.plain = @ - plainLeft]
                             ELSE out[k + j]],
         plain |-> Sums(out, "plain")[k] + plainLeft,
         items |-> [j \in 1..k |-> out[j].item]]

SocketWrote(ss, n) ==
    LET d == Drained(ss.out, n)
    IN  Report([ss EXCEPT !.out = d.out, !.sent = @ + d.plain], n)

\* Every byte is reported once, when it has left and not before: what is
\* reported is what was sent, whatever layers were put in place meanwhile.
Accurate(ss) ==
    /\ ss.reported = ss.sent
    /\ ss.pending = Total(ss.out, "plain")
=============================================================================
