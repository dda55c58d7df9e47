---------------------------- MODULE MCGrpcWebCall ----------------------------
(* Responses in every form, each in all pieces a browser may read it in.   *)
EXTENDS GrpcWebCall

Readable(code)   == [code |-> code, readable |-> TRUE]
Unreadable(code) == [code |-> code, readable |-> FALSE]
Absent           == Readable(-1)

(* The payloads of trailers stand for their texts. *)
MCTrailers == (<<48>> :> Readable(0)) @@ (<<53>> :> Readable(5))
                  @@ (<<120>> :> Unreadable(5)) @@ (<<32>> :> Readable(0))

(* Frames of a server, with what they say. *)
Frame(kind, payload) == <<kind>> \o Tail(FrameRequest(payload))

Said(code, texts) == [code |-> code, texts |-> texts]

Data(text) ==
    [bytes |-> Frame(DataKind,
                  ResponseSerializeBinary(ResponseSetMessage(GreeterResponse, text))),
     says |-> Said(0, <<text>>)]
(* A message from a newer server: a group, a number, the text, a number.   *)
Newer == [bytes |-> Frame(DataKind, <<19, 24, 1, 20, 24, 200, 1, 10, 1, 72, 37, 1, 2, 3, 4>>),
          says |-> Said(0, <<<<72>>>>)]
(* Its tag takes six bytes. *)
Long == [bytes |-> Frame(DataKind, <<138, 128, 128, 128, 128, 0, 1, 104>>),
         says |-> Said(0, <<<<104>>>>)]
(* The length of its text is beyond its end. *)
Cut == [bytes |-> Frame(DataKind, <<10, 5, 104>>), says |-> Said(INTERNAL, <<>>)]
Trailer(byte, code) == [bytes |-> Frame(TrailerKind, <<byte>>), says |-> Said(code, <<>>)]
EmptyTrailer == [bytes |-> Frame(TrailerKind, <<>>), says |-> Said(0, <<>>)]
Junk == [bytes |-> <<7>>, says |-> Said(UNKNOWN, <<>>)]

Ok       == Trailer(48, 0)
NotFound == Trailer(53, NOT_FOUND)
Escaped  == Trailer(120, NOT_FOUND)

Bytes(frames) == [i \in DOMAIN frames |-> frames[i].bytes]
Says(frames)  == [i \in DOMAIN frames |-> frames[i].says]

(* All frames in one text, and a text for each. *)
InOneFlush(frames) == Base64Encode(FlattenSeq(Bytes(frames)))
FlushEach(frames)  == FlattenSeq([i \in DOMAIN frames |-> Base64Encode(frames[i].bytes)])

Hi == <<104, 105>>

(* The call of client.js, with its usual response. *)
Usual == [api |-> "callback", options |-> <<>>,
          request |-> Hi, metadata |-> <<>>, left |-> 0, opens |-> TRUE,
          origin |-> "same", allowOrigins |-> <<>>,
          http |-> 200, type |-> "text", header |-> Absent,
          text |-> FlushEach(<<Data(Hi), Ok>>), says |-> Says(<<Data(Hi), Ok>>),
          sound |-> TRUE]

With(frames, text) == [Usual EXCEPT !.text = text, !.says = Says(frames)]

Bodies == {<<>>, <<Data(Hi), Ok>>, <<Data(<<>>), EmptyTrailer>>, <<Newer, Ok>>, <<Long, Ok>>,
           <<Cut, Ok>>, <<NotFound>>, <<Data(Hi), NotFound>>, <<Data(Hi)>>,
           <<Data(Hi), Data(<<233, 8364>>), Ok>>, <<Cut, NotFound>>}

Responses ==
    {With(b, InOneFlush(b)) : b \in Bodies} \cup {With(b, FlushEach(b)) : b \in Bodies}

(* A character that is not base64, a byte that is no frame, a message that *)
(* is no text.                                                             *)
Unsound ==
    {[With(<<Data(Hi), Ok>>, ReplaceAt(Usual.text, 6, Bad)) EXCEPT !.sound = FALSE]}
    \cup {[With(b, FlushEach(b)) EXCEPT !.sound = FALSE] :
              b \in {<<Data(Hi), Junk, Ok>>, <<Escaped, Ok>>, <<Data(Hi), Escaped>>}}
    \cup {[Usual EXCEPT !.header = Unreadable(5), !.sound = FALSE]}

Statuses ==
    {[Usual EXCEPT !.http = http, !.type = type, !.text = <<>>, !.says = <<>>] :
        http \in {200, 204, 401, 404, 409, 500, 502, 503}, type \in {"none", "other", "binary"}}
    \cup {[Usual EXCEPT !.http = 503], [Usual EXCEPT !.type = "binary"],
          [Usual EXCEPT !.header = Readable(0)], [Usual EXCEPT !.header = Readable(5)],
          [With(<<NotFound>>, FlushEach(<<NotFound>>)) EXCEPT !.header = Readable(7)]}

(* A text of the page: empty, at the boundaries of UTF-8 and beyond 127    *)
(* and 255 bytes, paired and unpaired surrogates.                          *)
Texts ==
    {<<>>, <<127, 128, 2047, 2048, 55295, 57344, 65535>>, <<55357, 56832, 33>>,
     <<56320>>, <<65, 55296>>, <<55296, 65>>,
     [i \in 1..43 |-> IF i = 1 THEN 65 ELSE 8364], [i \in 1..64 |-> 233],
     [i \in 1..128 |-> IF i % 2 = 1 THEN 55357 ELSE 56832]}

Requests == {[With(<<>>, <<>>) EXCEPT !.request = text] : text \in Texts}

WithDeadline(s, ms) == [s EXCEPT !.metadata = Append(@, "deadline"), !.left = ms]

Deadlines ==
    {WithDeadline(s, ms) :
        s \in Unsound \cup {Usual, [Usual EXCEPT !.header = Readable(5)]},
        ms \in {-1, 0, 1, 1000, 4545, 4546}}

(* Options and metadata of the page, also names that grpc-web sets. *)
Metadata ==
    {[Usual EXCEPT !.options = "format" :> format, !.metadata = names, !.left = 1000] :
        format \in {"text", "binary"},
        names \in {<<"authorization">>, <<"Content-Type", "Deadline">>,
                   <<"content-type">>, <<"X-Grpc-Web", "deadline">>, <<"grpc-timeout">>,
                   <<"deadline", "grpc-timeout">>}}

Origins ==
    {[Usual EXCEPT !.origin = "other", !.allowOrigins = list] : list \in {<<>>, <<"*">>}}

Calls == Responses \cup Unsound \cup Statuses \cup Requests \cup Deadlines \cup Metadata
             \cup Origins \cup {WithDeadline([Usual EXCEPT !.opens = FALSE], 1)}

MCScenarios == Calls \cup {[s EXCEPT !.api = "promise"] : s \in Calls}
=============================================================================
