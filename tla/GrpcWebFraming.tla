--------------------------- MODULE GrpcWebFraming ---------------------------
(***************************************************************************)
(* What grpc-web puts around a message (example/boot/grpc-web/bundle.js,   *)
(* from line 1034): frames, their base64 text, and the codes and delays of *)
(* the call.                                                               *)
(*                                                                         *)
(* A character of base64 text is its value in 0..63, Pad, or Bad for one   *)
(* that has no value.  The model has no white space, which the decoder     *)
(* passes over, and pads at the end of a group only.  The size of a frame  *)
(* is below 2^31.                                                          *)
(***************************************************************************)
EXTENDS Integers, SequencesExt

Pad == 64
Bad == -1

-----------------------------------------------------------------------------
(* Base64. *)

(* Three bytes give four characters; one or two at the end are padded. *)
Base64Encode(bytes) ==
    LET b(i) == IF i <= Len(bytes) THEN bytes[i] ELSE 0
        four(i) == <<b(i) \div 4,
                     (b(i) % 4) * 16 + (b(i + 1) \div 16),
                     IF i + 1 > Len(bytes) THEN Pad
                     ELSE (b(i + 1) % 16) * 4 + (b(i + 2) \div 64),
                     IF i + 2 > Len(bytes) THEN Pad ELSE b(i + 2) % 64>>
    IN  FlattenSeq([g \in 1..((Len(bytes) + 2) \div 3) |-> four(3 * g - 2)])

(* The bytes of the group of four characters at position i. *)
Group(text, i) ==
    LET c(k) == text[i + k]
    IN  <<c(0) * 4 + (c(1) \div 16)>> \o
            IF c(2) = Pad THEN <<>>
            ELSE <<(c(1) % 16) * 16 + (c(2) \div 4)>> \o
                IF c(3) = Pad THEN <<>> ELSE <<(c(2) % 4) * 64 + c(3)>>

(* Whole groups of four.  A group may be padded also where others follow:  *)
(* each flush of the server is a base64 text of its own.                   *)
Base64Decode(text) ==
    IF Bad \in ToSet(text) THEN [ok |-> FALSE]
    ELSE [ok |-> TRUE,
          bytes |-> FlattenSeq([g \in 1..(Len(text) \div 4) |-> Group(text, 4 * g - 3)])]

-----------------------------------------------------------------------------
(* Frames: a byte for the kind, four for the size, and the payload. *)

DataKind    == 0
TrailerKind == 128

(* Mutant: the size is written with one byte. *)
FrameRequestOneByte(body) == <<DataKind, 0, 0, 0, Len(body) % 256>> \o body
FrameRequest(body) ==
    <<DataKind, Len(body) \div 16777216, (Len(body) \div 65536) % 256,
      (Len(body) \div 256) % 256, Len(body) % 256>> \o body

(* Between two chunks the parser stands in front of a frame, in its size   *)
(* or in its payload, or it is broken.  frames are those it has completed  *)
(* and not yet given out.                                                  *)
NewParser == [state |-> "kind", kind |-> DataKind, digits |-> 0, size |-> 0,
              payload |-> <<>>, frames |-> <<>>]

FinishFrame(p) ==
    [p EXCEPT !.state = "kind",
              !.frames = Append(@, [kind |-> p.kind, payload |-> p.payload])]

ReadKind(p, b) ==
    IF b \in {DataKind, TrailerKind}
    THEN [p EXCEPT !.state = "size", !.kind = b, !.digits = 0, !.size = 0]
    ELSE [p EXCEPT !.state = "broken"]

(* A frame without payload is complete with its size. *)
ReadSize(p, b) ==
    LET q    == [p EXCEPT !.digits = @ + 1, !.size = @ * 256 + b]
        full == [q EXCEPT !.state = "payload", !.payload = <<>>]
    IN  IF q.digits < 4 THEN q ELSE IF q.size = 0 THEN FinishFrame(full) ELSE full

ReadPayload(p, b) ==
    LET q == [p EXCEPT !.payload = Append(@, b)]
    IN  IF Len(q.payload) = q.size THEN FinishFrame(q) ELSE q

ParseByte(p, b) ==
    CASE p.state = "broken"  -> p
      [] p.state = "kind"    -> ReadKind(p, b)
      [] p.state = "size"    -> ReadSize(p, b)
      [] p.state = "payload" -> ReadPayload(p, b)

ParseChunk(p, bytes) == FoldLeft(ParseByte, p, bytes)

-----------------------------------------------------------------------------
(* Codes and delays. *)

CANCELLED == 1
UNKNOWN == 2
INVALID_ARGUMENT == 3
DEADLINE_EXCEEDED == 4
NOT_FOUND == 5
PERMISSION_DENIED == 7
RESOURCE_EXHAUSTED == 8
FAILED_PRECONDITION == 9
ABORTED == 10
UNIMPLEMENTED == 12
INTERNAL == 13
UNAVAILABLE == 14
UNAUTHENTICATED == 16

HttpOk == {200, 201, 202, 204, 206, 304, 1223}

HttpToGrpc(http) ==
    CASE http = 200 -> 0
      [] http = 400 -> INVALID_ARGUMENT
      [] http = 401 -> UNAUTHENTICATED
      [] http = 403 -> PERMISSION_DENIED
      [] http = 404 -> NOT_FOUND
      [] http = 409 -> ABORTED
      [] http = 412 -> FAILED_PRECONDITION
      [] http = 429 -> RESOURCE_EXHAUSTED
      [] http = 499 -> CANCELLED
      [] http = 500 -> UNKNOWN
      [] http = 501 -> UNIMPLEMENTED
      [] http = 503 -> UNAVAILABLE
      [] http = 504 -> DEADLINE_EXCEEDED
      [] OTHER -> UNKNOWN

(* The delay after which the browser gives up, for a deadline that is left *)
(* milliseconds away: a tenth longer, and a second at least (up to the     *)
(* rounding of 1.1 * left).  A deadline that is over gives none, 0.        *)
XhrTimeout(left) ==
    IF left <= 0 THEN 0
    ELSE LET delay == left + ((left + 9) \div 10)
         IN  IF delay < 1000 THEN 1000 ELSE delay

-----------------------------------------------------------------------------
(* Headers: the map of names to values that an XhrIo keeps, in the order   *)
(* in which the names came.  The value of a name is the last one set.      *)

NewHeaders == <<>>

SetHeader(headers, name, value) ==
    IF \E i \in DOMAIN headers : headers[i].name = name
    THEN [i \in DOMAIN headers |->
             IF headers[i].name = name THEN [headers[i] EXCEPT !.value = value]
             ELSE headers[i]]
    ELSE Append(headers, [name |-> name, value |-> value])

DeleteHeader(headers, name) == RemoveFirstMatch(headers, LAMBDA h : h.name = name)

(* The names that a browser takes for one.  Others stand for themselves.   *)
Lower(name) ==
    CASE name = "Content-Type" -> "content-type"
      [] name = "Accept"       -> "accept"
      [] name = "X-Grpc-Web"   -> "x-grpc-web"
      [] name = "X-User-Agent" -> "x-user-agent"
      [] name = "Deadline"     -> "deadline"
      [] OTHER                 -> name

(* The object with value at key. *)
Assign(object, key, value) ==
    [k \in DOMAIN object \cup {key} |-> IF k = key THEN value ELSE object[k]]

(* A browser joins the values of a name, in the order in which it gets them. *)
SetRequestHeader(request, header) ==
    LET name   == Lower(header.name)
        before == IF name \in DOMAIN request THEN request[name] ELSE <<>>
    IN  Assign(request, name, Append(before, header.value))

RequestHeaders(headers) == FoldLeft(SetRequestHeader, <<>>, headers)
=============================================================================
