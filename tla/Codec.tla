------------------------------- MODULE Codec -------------------------------
(***************************************************************************)
(* The packet codec of src/common/packet_implem.c, with net_send's length  *)
(* computation: a packet is encoded in place, crosses a middlebox that may *)
(* truncate it or alter one field, and is decoded in place.               *)
(*                                                                         *)
(* A packet in memory is a record of its fields as the host reads them.   *)
(* The host is little-endian, so the length field holds htons(length) on  *)
(* the wire.  A CRC is abstracted to the data it covers (a check that     *)
(* never collides), a payload to a model value of the chunk it carries.   *)
(* HeaderLen and FooterLen are PKT_HEADERLEN (12) and PKT_FOOTERLEN (4).  *)
(*                                                                         *)
(* The packet is built either the way the programs build it, in place     *)
(* (Packets), or through the library API neither program calls: pkt_new, *)
(* setter calls in any order, pkt_encode into a buffer, pkt_decode.  The  *)
(* setters keep the bit-fields' width; pkt_set_crc1 and pkt_set_crc2 are  *)
(* left out, as pkt_encode recomputes CRC1 and sends CRC2 only when it    *)
(* recomputes it.                                                          *)
(***************************************************************************)
EXTENDS Integers, Sequences

CONSTANTS
    Windows,     \* window values sent (5-bit field)
    Seqs,        \* sequence numbers sent
    Stamps,      \* timestamps sent
    Lengths,     \* payload lengths of DATA (0 .. 512)
    Contents,    \* payload contents (model values)
    MaxFaults,   \* faults the middlebox applies to one datagram
    TypeArgs,    \* arguments of pkt_set_type (ptypes_t)
    TrArgs,      \* arguments of pkt_set_tr (uint8_t)
    WindowArgs,  \* arguments of pkt_set_window (uint8_t)
    LengthArgs,  \* arguments of pkt_set_length and pkt_set_payload
    BufLens      \* buffer sizes given to pkt_encode

DATA == 1
ACK  == 2
NACK == 3
HeaderLen == 12
FooterLen == 4
MaxPayload == 512
\* A size_t that wrapped below zero: larger than any length it is compared to.
Wrapped == MaxPayload + 1
PktMaxLen == HeaderLen + MaxPayload + FooterLen

VARIABLES
    sent,     \* the packet the sender built
    wire,     \* the datagram in flight: [w |-> memory fields, rlen |-> bytes]
    faults,   \* what the middlebox did to it, in order
    decoded,  \* the result of pkt_decode_inline, or the empty sequence
    api       \* the packet is built through pkt_new and the setters

cvars == <<sent, wire, faults, decoded, api>>

\* htons / ntohs on a little-endian host: the two bytes are swapped.
Htons(v) == (v % 256) * 256 + v \div 256
Ntohs(v) == Htons(v)

\* crc_of: the covered bytes themselves.
Crc(data) == <<"crc">> \o data

ValidType(t) == t \in {DATA, ACK, NACK}
\* Mutant: tr is accepted on any type.
ValidTrAnyType(t, tr) == tr \in {0, 1}

ValidTr(t, tr) == tr = 0 \/ t = DATA
ValidLength(l) == l <= MaxPayload

\* The packets the programs build: handle_input_read's DATA (window 0, a
\* read of 0 bytes at EOF), send_ack and send_nack's ACK and NACK.
Packets ==
    [type : {DATA}, tr : {0}, window : {0}, seq : Seqs, length : Lengths \ {0},
     ts : Stamps, payload : Contents]
    \cup [type : {DATA}, tr : {0}, window : {0}, seq : Seqs, length : {0},
          ts : Stamps, payload : {"none"}]
    \cup [type : {ACK, NACK}, tr : {0}, window : Windows, seq : Seqs,
          length : {0}, ts : Stamps, payload : {"none"}]

\* The first 8 header bytes, which CRC1 covers.
Header(w) == <<w.window, w.tr, w.type, w.seq, w.len, w.ts>>

\* Mutant: CRC1 is checked over the header as received, tr included.
Crc1OkWithTr(w) == w.crc1 = Crc(Header(w))

\* The CRC1 check of pkt_decode_inline, computed with tr set to 0.
Crc1Ok(w) == w.crc1 = Crc(Header([w EXCEPT !.tr = 0]))

\* CRC2 over the payload_len bytes received.
Crc2Ok(w, plo) == w.crc2 = Crc(<<w.payload, plo>>)

\* Mutant: pkt_len_serial uses the length field without ntohs.
PktLenSerialNoNtohs(w) ==
    IF w.len # 0 THEN HeaderLen + FooterLen + w.len ELSE HeaderLen

\* pkt_len_serial: the bytes net_send writes for an encoded packet.
PktLenSerial(w) ==
    IF w.len # 0 THEN HeaderLen + FooterLen + Ntohs(w.len) ELSE HeaderLen

(***************************************************************************)
(* pkt_encode_inline: length to network order, CRC1 over the header with  *)
(* tr set to 0, CRC2 after the payload when there is one; then net_send   *)
(* writes PktLenSerial bytes.                                              *)
(***************************************************************************)
Encode(p) ==
    LET w0 == [window |-> p.window, tr |-> p.tr, type |-> p.type, seq |-> p.seq,
               len |-> Htons(p.length), ts |-> p.ts]
        w  == [window |-> w0.window, tr |-> w0.tr, type |-> w0.type, seq |-> w0.seq,
               len |-> w0.len, ts |-> w0.ts, payload |-> p.payload,
               crc1 |-> Crc(Header([w0 EXCEPT !.tr = 0])),
               crc2 |-> IF p.length # 0 THEN Crc(<<p.payload, p.length>>) ELSE <<>>]
        \* only the header goes out when the length is 0
        wp == [w EXCEPT !.payload = IF p.length # 0 THEN @ ELSE "none"]
    IN  [w |-> wp, rlen |-> PktLenSerial(w)]

\* payload_len: rlen - 16 as a size_t, which wraps for 13 .. 15 bytes.
PayloadLen(rlen) ==
    IF rlen = HeaderLen THEN 0
    ELSE IF rlen >= HeaderLen + FooterLen THEN rlen - HeaderLen - FooterLen
    ELSE Wrapped

(***************************************************************************)
(* pkt_decode_inline(pkt, rlen): the header checks, CRC1, then the payload *)
(* rules by type: a truncated DATA carries nothing, an intact one exactly *)
(* its length and a valid CRC2, an ACK or NACK nothing.                   *)
(***************************************************************************)
Decode(w, rlen) ==
    LET plen == Ntohs(w.len)
        plo  == PayloadLen(rlen)
        err  == CASE rlen < HeaderLen                          -> "E_NOHEADER"
                  [] ~ValidType(w.type)                        -> "E_TYPE"
                  [] ~ValidTr(w.type, w.tr)                    -> "E_TR"
                  [] ~ValidLength(plen)                        -> "E_LENGTH"
                  [] ~Crc1Ok(w)                                -> "E_CRC"
                  [] w.type = DATA /\ w.tr = 1 /\ plo # 0      -> "E_UNCONSISTENT"
                  [] w.type = DATA /\ w.tr = 0 /\ plen # plo   -> "E_UNCONSISTENT"
                  [] w.type = DATA /\ plo # 0 /\ ~Crc2Ok(w, plo) -> "E_CRC"
                  [] w.type # DATA /\ (plo # 0 \/ plen # 0)    -> "E_UNCONSISTENT"
                  [] OTHER                                     -> "OK"
    IN  [status |-> err,
         pkt |-> [type |-> w.type, tr |-> w.tr, window |-> w.window, seq |-> w.seq,
                  length |-> plen, ts |-> w.ts, payload |-> w.payload]]

-----------------------------------------------------------------------------
(* The packet library API                                                  *)

MaxWindowSize == 31

ValidWindow(w) == w <= MaxWindowSize

\* pkt_len: the header alone when there is no payload.
PktLen(p) == IF p.length # 0 THEN HeaderLen + FooterLen + p.length ELSE HeaderLen

\* pkt_new: calloc, every field 0 (type 0 is no ptypes_t value).
PktNew == [type |-> 0, tr |-> 0, window |-> 0, seq |-> 0, length |-> 0, ts |-> 0,
           payload |-> "none"]

\* What the setters can build from PktNew.
ApiPackets == [type : {0, DATA, ACK, NACK}, tr : {0, 1}, window : 0 .. MaxWindowSize,
               seq : Seqs \cup {0}, length : 0 .. MaxPayload, ts : Stamps \cup {0},
               payload : Contents \cup {"none"}]

\* SETTER after the setter's PRECONDITION: the field is stored only when
\* the check passes; otherwise the packet is left as it was.
Setter(ok, p) == sent' = IF ok THEN p ELSE sent

\* The tr bit-field is one bit wide: tr = 2 passes valid_tr and stores 0.
PktSetType(t) == Setter(ValidType(t), [sent EXCEPT !.type = t])
PktSetTr(tr) == Setter(ValidTr(sent.type, tr), [sent EXCEPT !.tr = tr % 2])
PktSetWindow(w) == Setter(ValidWindow(w), [sent EXCEPT !.window = w])
PktSetSeqnum(n) == Setter(TRUE, [sent EXCEPT !.seq = n])
PktSetLength(l) == Setter(ValidLength(l), [sent EXCEPT !.length = l])
PktSetTimestamp(ts) == Setter(TRUE, [sent EXCEPT !.ts = ts])

\* pkt_set_payload: pkt_set_length, then a copy of length bytes.
PktSetPayload(d, l) ==
    Setter(ValidLength(l), [sent EXCEPT !.length = l, !.payload = IF l = 0 THEN @ ELSE d])

\* pkt_encode: E_NOMEM when the buffer is shorter than pkt_len, else the
\* header and payload are copied and encoded in place.
PktEncode(p, len) == IF len >= PktLen(p) THEN Encode(p) ELSE <<>>

\* pkt_decode: at most sizeof(pkt_t) bytes are copied and decoded in place.
PktDecode(w, rlen) ==
    IF rlen <= PktMaxLen THEN Decode(w, rlen)
    ELSE [status |-> "E_UNCONSISTENT", pkt |-> w]

-----------------------------------------------------------------------------

\* Either a program builds the packet in place, or a caller of the library
\* starts from pkt_new and has not encoded it yet.
CInit ==
    /\ \/ sent \in Packets /\ wire = Encode(sent) /\ api = FALSE
       \/ sent = PktNew /\ wire = <<>> /\ api = TRUE
    /\ faults = <<>>
    /\ decoded = <<>>

\* One setter call, with any argument its parameter type allows.
Set ==
    /\ api /\ wire = <<>>
    /\ \/ \E t \in TypeArgs : PktSetType(t)
       \/ \E tr \in TrArgs : PktSetTr(tr)
       \/ \E w \in WindowArgs : PktSetWindow(w)
       \/ \E n \in Seqs : PktSetSeqnum(n)
       \/ \E l \in LengthArgs : PktSetLength(l)
       \/ \E ts \in Stamps : PktSetTimestamp(ts)
       \/ \E d \in Contents, l \in LengthArgs : PktSetPayload(d, l)
    /\ UNCHANGED <<wire, faults, decoded, api>>

\* pkt_encode into a buffer of the caller's size; on E_NOMEM the caller
\* may retry or go on setting fields.
Send ==
    /\ api /\ wire = <<>>
    /\ \E len \in BufLens : wire' = PktEncode(sent, len)
    /\ UNCHANGED <<sent, faults, decoded, api>>

\* The middlebox truncates a DATA: it sets tr and strips the payload and
\* CRC2, leaving the rest of the header (and CRC1) as it was.
Truncate ==
    /\ decoded = <<>> /\ wire # <<>> /\ Len(faults) < MaxFaults
    /\ wire.w.type = DATA
    /\ wire' = [w |-> [wire.w EXCEPT !.tr = 1, !.payload = "none", !.crc2 = <<>>],
                rlen |-> HeaderLen]
    /\ faults' = Append(faults, "trunc")
    /\ UNCHANGED <<sent, decoded, api>>

\* Corruption: one header field, the payload or a CRC gets another value.
\* The length field values 1, 3 and 256 read as 256, 768 (too long) and 1.
Alter ==
    /\ decoded = <<>> /\ wire # <<>> /\ Len(faults) < MaxFaults
    /\ \/ \E f \in {"window", "seq", "ts"}, v \in {0, 1} :
            /\ wire.w[f] # v
            /\ wire' = [wire EXCEPT !.w[f] = v] /\ faults' = Append(faults, f)
       \/ \E v \in 0 .. 3 :
            /\ wire.w.type # v
            /\ wire' = [wire EXCEPT !.w.type = v] /\ faults' = Append(faults, "type")
       \/ wire' = [wire EXCEPT !.w.tr = 1 - @] /\ faults' = Append(faults, "tr")
       \/ \E v \in {1, 3, 256} :
            /\ wire.w.len # v
            /\ wire' = [wire EXCEPT !.w.len = v] /\ faults' = Append(faults, "len")
       \/ \E c \in Contents \ {wire.w.payload} :
            /\ wire.rlen > HeaderLen
            /\ wire' = [wire EXCEPT !.w.payload = c] /\ faults' = Append(faults, "payload")
       \/ \E f \in {"crc1", "crc2"} :
            /\ wire' = [wire EXCEPT !.w[f] = <<"garbage">>] /\ faults' = Append(faults, f)
    /\ UNCHANGED <<sent, decoded, api>>

\* Bytes are lost at the end of the datagram, or padding is added.
Cut ==
    /\ decoded = <<>> /\ wire # <<>> /\ Len(faults) < MaxFaults
    /\ \E n \in {0, HeaderLen - 1, HeaderLen + 1, wire.rlen - 1, wire.rlen + 1} :
         /\ n >= 0 /\ n # wire.rlen /\ n <= PktMaxLen
         /\ wire' = [wire EXCEPT !.rlen = n]
    /\ faults' = Append(faults, "cut")
    /\ UNCHANGED <<sent, decoded, api>>

\* net_recvfrom: the receiver decodes the datagram in place; a caller of
\* the library decodes it with pkt_decode.
Receive ==
    /\ decoded = <<>> /\ wire # <<>>
    /\ decoded' = <<IF api THEN PktDecode(wire.w, wire.rlen) ELSE Decode(wire.w, wire.rlen)>>
    /\ UNCHANGED <<sent, wire, faults, api>>

\* The datagram has been decoded: nothing more happens to it.
Done == decoded # <<>> /\ UNCHANGED cvars

CNext == Set \/ Send \/ Truncate \/ Alter \/ Cut \/ Receive \/ Done

CSpec == CInit /\ [][CNext]_cvars

-----------------------------------------------------------------------------
(* Properties                                                              *)

\* Types; in particular net_send never writes more than PKT_MAX_LEN bytes,
\* the size of the receiver's recvfrom buffer.
CodecTypeOK ==
    /\ sent \in Packets \cup ApiPackets
    /\ wire # <<>> => wire.rlen \in 0 .. PktMaxLen
    /\ Len(faults) <= MaxFaults
    /\ Len(decoded) <= 1

\* The packet as the far end can see it: no payload goes out with length 0.
Observed(p) == [p EXCEPT !.payload = IF p.length = 0 THEN "none" ELSE @]

\* The invariants spec.md section 3 states of every packet, with a valid type.
Section3(p) ==
    /\ ValidType(p.type)
    /\ p.tr = 1 => p.type = DATA /\ p.length = 0
    /\ p.length > 0 => p.type = DATA /\ p.tr = 0

\* Round trip (spec.md 8.1): for every packet satisfying section 3, however
\* it was built, an intact datagram decodes to that packet, and one the
\* middlebox truncated decodes with tr set and the header it had, so that
\* process_incoming_pkt can NACK its seq.
DecodeComplete ==
    decoded # <<>> /\ Section3(sent) /\ (\A i \in 1 .. Len(faults) : faults[i] = "trunc") =>
        /\ decoded[1].status = "OK"
        /\ faults = <<>> => decoded[1].pkt = Observed(sent)
        /\ faults # <<>> => decoded[1].pkt = [Observed(sent) EXCEPT !.tr = 1, !.payload = "none"]

\* Decoding is sound (spec.md 8.2): whatever was built and whatever the
\* middlebox did, an accepted datagram has the header that was sent, and
\* the payload that was sent unless it is marked truncated.  tr itself is
\* not covered by CRC1, so tr may differ, but an accepted tr is on a DATA.
DecodeSound ==
    decoded # <<>> /\ decoded[1].status = "OK" =>
        LET q == decoded[1].pkt
            s == Observed(sent)
        IN  /\ [q EXCEPT !.tr = 0, !.payload = "none"] = [s EXCEPT !.tr = 0, !.payload = "none"]
            /\ q.tr = 0 => q.payload = s.payload
            /\ q.tr = 1 => q.type = DATA

=============================================================================
