------------------------------- MODULE Ndef -------------------------------
(* What a write request becomes on a tag, and what a read makes of the tag: *)
(* the records a request asks for (server/handlers.go), the NDEF message    *)
(* they are encoded to and parsed from (message.go, ndef.go), the TLV block  *)
(* it lies in on a page-addressed tag (tlv.go, tag_ultralight.go), and the  *)
(* partial update that reads a message, edits it and writes it back         *)
(* (reader.go, resolveWriteMessage).                                        *)
(*                                                                          *)
(* Bytes are 0 .. 255.  A word of a URI's scheme ("http://", "www.") is one *)
(* byte, and letters are ASCII.  The tag keeps what an earlier, longer      *)
(* write left after the new one, and a write that fails between two pages   *)
(* leaves the rest of the old content in place.                             *)
EXTENDS Integers, Sequences, SequencesExt, FiniteSets

CONSTANTS Requests,    \* the write requests programs make: sequences of record requests
          PageSize,    \* bytes a page holds
          MaxRecords,  \* bound: records a message on the tag has
          MaxWrites,   \* bound: writes made
          Nothing      \* no NDEF message

ASSUME NdefAssumption == PageSize \in Nat \ {0} /\ {MaxRecords, MaxWrites} \subseteq Nat

VARIABLES mem,     \* the tag's user memory, from the first page on
          stored,  \* the records the last write put there
          requested, \* the request they came from; << >> when records were merged
          seen,    \* what a partial update read first: all or a part of the message
                   \* written last; "none" for another write
          whole,   \* the last write reached its last page
          got,     \* what the last read made of the tag
          writes   \* writes made

ndefVars == <<mem, stored, requested, seen, whole, got, writes>>

-----------------------------------------------------------------------------
(* Records.                                                                 *)

TextType == <<84>>
URIType  == <<85>>
SpType   == <<83, 112>>
English  == <<101, 110>>

First(s, n) == IF n < Len(s) THEN SubSeq(s, 1, n) ELSE s

Record(tnf, type, payload) == [tnf |-> tnf, type |-> type, id |-> << >>, payload |-> payload]

(* The NFC Forum's abbreviations, of which some begin with others.          *)
uriPrefixes == [code \in {1, 3, 5, 6, 19, 30, 34} |->
    CASE code = 1 -> <<201, 202>> [] code = 3 -> <<201>> [] code = 5 -> <<206>>
      [] code = 6 -> <<207>> [] code = 19 -> <<203>> [] code = 30 -> <<203, 204, 205>>
      [] code = 34 -> <<203, 204>>]

(* The longest abbreviation the URI begins with, and what is left of it.    *)
MakeURIRecordPayload(uri) ==
    LET fits == {c \in DOMAIN uriPrefixes : IsPrefix(uriPrefixes[c], uri)}
        best == CHOOSE c \in fits : \A d \in fits : Len(uriPrefixes[d]) <= Len(uriPrefixes[c])
    IN  IF fits = {} THEN <<0>> \o uri
        ELSE <<best>> \o SubSeq(uri, Len(uriPrefixes[best]) + 1, Len(uri))

parseURIRecordPayload(payload) ==
    (IF payload[1] \in DOMAIN uriPrefixes THEN uriPrefixes[payload[1]] ELSE << >>) \o Tail(payload)

MakeTextRecordPayload(text, lang) ==
    LET code == First(IF lang = << >> THEN English ELSE lang, 63)
    IN  <<Len(code)>> \o code \o text

(* UTF-16 text: two bytes a letter, low one first, blanks cut off the ends. *)
decodeUTF16Internal(bytes) ==
    LET text   == [i \in 1 .. Len(bytes) \div 2 |-> bytes[2 * i - 1]]
        solid  == {i \in DOMAIN text : text[i] # 32}
    IN  IF solid = {} THEN << >>
        ELSE SubSeq(text, CHOOSE i \in solid : \A j \in solid : i <= j,
                          CHOOSE i \in solid : \A j \in solid : j <= i)

(* The text of a text record, or Nothing if its payload is malformed.       *)
parseTextRecordPayload(payload) ==
    IF payload = << >> THEN Nothing
    ELSE LET start == 1 + (payload[1] % 64)
             bytes == SubSeq(payload, start + 1, Len(payload))
         IN  CASE start > Len(payload)  -> Nothing
               [] payload[1] < 128      -> bytes
               [] Len(bytes) % 2 = 1    -> Nothing
               [] OTHER                 -> decodeUTF16Internal(bytes)

(* The language, told only when text follows it.                            *)
LanguageOf(payload) ==
    LET size == payload[1] % 64
    IN  IF size > 0 /\ Len(payload) > 1 + size THEN SubSeq(payload, 2, 1 + size) ELSE English

IsTextRecord(r) == r.tnf = 1 /\ r.type = TextType
IsURIRecord(r)  == r.tnf = 1 /\ r.type = URIType

(* What clients are told of a record.                                       *)
ToPayload(r) ==
    CASE IsTextRecord(r) /\ parseTextRecordPayload(r.payload) # Nothing ->
            [type |-> "text", content |-> parseTextRecordPayload(r.payload),
             language |-> LanguageOf(r.payload)]
      [] IsURIRecord(r) /\ r.payload # << >> ->
            [type |-> "uri", content |-> parseURIRecordPayload(r.payload), language |-> << >>]
      [] OTHER -> [type |-> "other", content |-> r.payload, language |-> r.type]

-----------------------------------------------------------------------------
(* The wire form of a message.                                              *)

EncodeRecord(r, first, final) ==
    LET size  == Len(r.payload)
        short == size <= 255
        ided  == r.id # << >>
    IN  <<(r.tnf % 8) + (IF first THEN 128 ELSE 0) + (IF final THEN 64 ELSE 0)
            + (IF short THEN 16 ELSE 0) + (IF ided THEN 8 ELSE 0),
          Len(r.type) % 256>>
        \o (IF short THEN <<size % 256>> ELSE <<0, 0, size \div 256, size % 256>>)
        \o (IF ided THEN <<Len(r.id) % 256>> ELSE << >>)
        \o r.type \o r.id \o r.payload

encodeNDEFRecords(rs) ==
    FlattenSeq([i \in DOMAIN rs |-> EncodeRecord(rs[i], i = 1, i = Len(rs))])

(* The record that starts after o bytes, or Nothing if it is cut short.  A  *)
(* length that takes more than two bytes is past the end of any memory.     *)
RecordAt(bytes, o) ==
    LET head  == bytes[o + 1]
        short == (head \div 16) % 2 = 1
        ided  == (head \div 8) % 2 = 1
        lens  == o + (IF short THEN 3 ELSE 6)
        body  == lens + (IF ided THEN 1 ELSE 0)
        tLen  == bytes[o + 2]
        iLen  == IF ided THEN bytes[lens + 1] ELSE 0
        pLen  == CASE short -> bytes[o + 3]
                   [] bytes[o + 3] + bytes[o + 4] > 0 -> Len(bytes)
                   [] OTHER -> bytes[o + 5] * 256 + bytes[o + 6]
    IN  IF body > Len(bytes) \/ body + tLen + iLen + pLen > Len(bytes) THEN Nothing
        ELSE [record |-> [tnf |-> head % 8, type |-> SubSeq(bytes, body + 1, body + tLen),
                          id |-> SubSeq(bytes, body + tLen + 1, body + tLen + iLen),
                          payload |-> SubSeq(bytes, body + tLen + iLen + 1,
                                                    body + tLen + iLen + pLen)],
              next |-> body + tLen + iLen + pLen, end |-> (head \div 64) % 2 = 1]

(* Records up to the one that ends the message, or the end of the bytes.    *)
parseNDEFRecords(bytes) ==
    LET from[o \in 0 .. Len(bytes)] ==
            IF o = Len(bytes) THEN << >>
            ELSE LET here == RecordAt(bytes, o)
                 IN  CASE here = Nothing -> Nothing
                       [] here.end       -> <<here.record>>
                       [] from[here.next] = Nothing -> Nothing
                       [] OTHER          -> <<here.record>> \o from[here.next]
    IN  IF bytes = << >> THEN Nothing ELSE from[0]

-----------------------------------------------------------------------------
(* The TLV block.                                                           *)

(* Mutant: a length of 255 in one byte. *)
ShortLength(data) ==
    <<3>> \o (IF Len(data) <= 255 THEN <<Len(data) % 256>> ELSE <<255, Len(data) \div 256, Len(data) % 256>>)
          \o data \o <<254>>

TLVEncode(data) ==
    <<3>> \o (IF Len(data) < 255 THEN <<Len(data) % 256>> ELSE <<255, Len(data) \div 256, Len(data) % 256>>)
          \o data \o <<254>>

(* The value of the first NDEF TLV: Nothing when there is none before the   *)
(* terminator, or when it is not all there.                                 *)
TLVFindNDEF(bytes) ==
    LET from[o \in 0 .. Len(bytes)] ==
            CASE o = Len(bytes) -> Nothing
              [] o < Len(bytes) /\ bytes[o + 1] = 0   -> from[o + 1]
              [] o < Len(bytes) /\ bytes[o + 1] = 254 -> Nothing
              [] OTHER ->
                   LET long  == o + 2 <= Len(bytes) /\ bytes[o + 2] = 255
                       start == o + (IF long THEN 4 ELSE 2)
                       stop  == start + (IF long THEN bytes[o + 3] * 256 + bytes[o + 4]
                                                 ELSE bytes[o + 2])
                   IN  IF start > Len(bytes) THEN Nothing
                       ELSE IF stop > Len(bytes) THEN Nothing
                       ELSE IF bytes[o + 1] = 3 THEN SubSeq(bytes, start + 1, stop) ELSE from[stop]
    IN  from[0]

(* What a read of these bytes gives: the message, or Nothing, where the     *)
(* program gets the raw bytes or an error.                                  *)
ReadMessage(bytes) ==
    LET data == TLVFindNDEF(bytes)
    IN  IF data = Nothing THEN Nothing ELSE parseNDEFRecords(data)

-----------------------------------------------------------------------------
(* Requests.                                                                *)

(* The scheme is put before a content that has none.                        *)
uriWithScheme(scheme, content) ==
    IF IsPrefix(scheme, content) THEN content ELSE scheme \o content

SmartPoster(q) ==
    Record(1, SpType, encodeNDEFRecords(
        (IF q.title = << >> THEN << >>
         ELSE <<Record(1, TextType, MakeTextRecordPayload(q.title, q.language))>>)
        \o <<Record(1, URIType, MakeURIRecordPayload(q.content))>>))

(* The record asked for, or Nothing when the request is refused.            *)
buildRecord(q) ==
    CASE q.type = "text" -> Record(1, TextType, MakeTextRecordPayload(q.content, q.language))
      [] q.type # "text" /\ q.type \notin {"mime", "empty", "raw"} /\ q.content = << >> -> Nothing
      [] q.type = "uri"  -> Record(1, URIType, MakeURIRecordPayload(q.content))
      [] q.type = "tel"  -> Record(1, URIType, MakeURIRecordPayload(uriWithScheme(<<206>>, q.content)))
      [] q.type = "smartposter" -> SmartPoster(q)
      [] q.type = "mime" -> Record(2, q.typeBytes, IF q.payload = << >> THEN q.content ELSE q.payload)
      [] q.type = "external" -> Record(4, q.content, q.payload)
      [] q.type = "empty" -> Record(0, << >>, << >>)
      [] q.type = "raw"  -> IF q.tnf > 7 THEN Nothing
                            ELSE [Record(q.tnf, q.typeBytes, q.payload) EXCEPT !.id = q.id]
      [] OTHER -> Nothing

(* A message is made only when every record of the request is.              *)
BuildNDEFMessage(request) ==
    LET records == [i \in DOMAIN request |-> buildRecord(request[i])]
    IN  IF request = << >> \/ \E i \in DOMAIN request : records[i] = Nothing THEN Nothing ELSE records

(* Mutant: a text is made again without its language. *)
RemadeInEnglish(r) ==
    CASE r.tnf = 0 -> Record(0, << >>, << >>)
      [] IsTextRecord(r) ->
            IF parseTextRecordPayload(r.payload) = Nothing THEN Nothing
            ELSE Record(1, TextType, MakeTextRecordPayload(parseTextRecordPayload(r.payload), English))
      [] IsURIRecord(r) ->
            IF r.payload = << >> THEN Nothing
            ELSE Record(1, URIType, MakeURIRecordPayload(parseURIRecordPayload(r.payload)))
      [] r.tnf \in {2, 4} -> Record(r.tnf, r.type, r.payload)
      [] OTHER -> Nothing

(* A record made again from what the program understands of it: its ID, and *)
(* the language of a text that is empty, are not kept; what it does not     *)
(* understand is not made.                                                  *)
Remade(r) ==
    CASE r.tnf = 0 -> Record(0, << >>, << >>)
      [] IsTextRecord(r) ->
            IF parseTextRecordPayload(r.payload) = Nothing THEN Nothing
            ELSE Record(1, TextType, MakeTextRecordPayload(parseTextRecordPayload(r.payload),
                                                           LanguageOf(r.payload)))
      [] IsURIRecord(r) ->
            IF r.payload = << >> THEN Nothing
            ELSE Record(1, URIType, MakeURIRecordPayload(parseURIRecordPayload(r.payload)))
      [] r.tnf \in {2, 4} -> Record(r.tnf, r.type, r.payload)
      [] OTHER -> Nothing

ToBuilder(rs) ==
    LET made == [i \in DOMAIN rs |-> Remade(rs[i])]
    IN  SelectSeq(made, LAMBDA r : r # Nothing)

(* The message a partial update writes: the new records after the old ones, *)
(* or the first new one in the place of the one at index (from 0) of those  *)
(* that could be made again.                                                *)
Merged(old, new, index) ==
    LET cached == ToBuilder(old)
        fresh  == ToBuilder(new)
    IN  IF index \notin 0 .. Len(cached) - 1 THEN cached \o fresh
        ELSE IF fresh = << >> THEN cached ELSE [cached EXCEPT ![index + 1] = fresh[1]]

-----------------------------------------------------------------------------
(* The tag.                                                                 *)

Padded(bytes) ==
    bytes \o [i \in 1 .. (PageSize - (Len(bytes) % PageSize)) % PageSize |-> 0]

(* The first pages of these bytes over what the tag holds.                  *)
Over(bytes, pages) ==
    LET new == First(bytes, pages * PageSize)
    IN  new \o SubSeq(mem, Len(new) + 1, Len(mem))

(* The block of a message is written page by page; the write stops at the   *)
(* page that fails.                                                         *)
WriteData(records, request) ==
    LET block == Padded(TLVEncode(encodeNDEFRecords(records)))
        final  == Len(block) \div PageSize
    IN  writes < MaxWrites /\ \E pages \in {1, final - 1, final} :
          /\ mem' = Over(block, pages)
          /\ whole' = (pages = final)
          /\ stored' = records
          /\ requested' = request
          /\ got' = Nothing
          /\ writes' = writes + 1

(* An overwriting write of what a request asks for.                         *)
Overwrite(request) ==
    /\ BuildNDEFMessage(request) # Nothing
    /\ WriteData(BuildNDEFMessage(request), request)
    /\ seen' = "none"

(* How far a read gets: it goes page by page, and uses what it has when a   *)
(* page fails.                                                              *)
Reads ==
    {pages \in 1 .. Len(mem) \div PageSize : pages \in 1 .. 6 \/ pages + 3 > Len(mem) \div PageSize}

(* The bytes of a tag that a message takes, its terminator left out.        *)
MessageEnd(records) == Len(TLVEncode(encodeNDEFRecords(records))) - 1

(* What a read may make of the tag, which may also answer nothing.          *)
Readings ==
    {[message |-> ReadMessage(First(mem, pages * PageSize)),
      all     |-> pages * PageSize >= MessageEnd(stored)] : pages \in Reads \cup {0}}

(* A partial update: what a read made of the tag is edited.  When it made   *)
(* no message of it, for there is none, for the read failed or for a page   *)
(* that failed cut it short, the tag is overwritten.                        *)
Update(request, index, read) ==
    LET new == BuildNDEFMessage(request)
        merged == Merged(read.message, new, index)
    IN  /\ new # Nothing
        /\ seen' = (IF read.all THEN "all" ELSE "part")
        /\ IF read.message = Nothing THEN WriteData(new, request)
           ELSE Len(merged) \in 1 .. MaxRecords /\ WriteData(merged, << >>)

ReadData ==
    /\ \E pages \in Reads : got' = ReadMessage(First(mem, pages * PageSize))
    /\ UNCHANGED <<mem, stored, requested, seen, whole, writes>>

(* A blank tag, one formatted for NDEF, and one whose lock bytes are        *)
(* described before the message.                                            *)
NdefInit ==
    /\ mem \in {Padded(<<0, 0, 0, 0>>), Padded(<<3, 0, 254>>),
                Padded(<<1, 3, 160, 12, 52, 3, 0, 254>>)}
    /\ stored = << >> /\ requested = << >> /\ seen = "none" /\ whole = FALSE /\ got = Nothing /\ writes = 0

NdefNext ==
    \/ \E request \in Requests : Overwrite(request)
    \/ \E read \in Readings, request \in Requests, index \in -1 .. MaxRecords - 1 :
          Update(request, index, read)
    \/ ReadData

-----------------------------------------------------------------------------

(* What a client asked for is what clients are told of the tag: the text    *)
(* and its language, the URI with its scheme.                               *)
Says(r, q) ==
    /\ q.type = "text" => ToPayload(r) = [type |-> "text", content |-> q.content,
          language |-> IF q.language = << >> \/ q.content = << >> THEN English ELSE First(q.language, 63)]
    /\ q.type = "uri" => ToPayload(r) = [type |-> "uri", content |-> q.content, language |-> << >>]
    /\ q.type = "tel" => ToPayload(r) = [type |-> "uri", language |-> << >>,
          content |-> uriWithScheme(<<206>>, q.content)]

(* A tag whose last write was whole holds the records written, in order and *)
(* unchanged.  A read of it gives them or no message: a read that a failing *)
(* page cuts short, and what a longer message left behind, never make       *)
(* another one.  Each record says what the request asked for.               *)
(* tlv.go, TLVFindNDEF; ndef.go, parseNDEFRecords, encodeNDEFRecords.       *)
WrittenIsRead ==
    whole => /\ ReadMessage(mem) = stored
             /\ got \in {stored, Nothing}
             /\ \A i \in DOMAIN requested : Says(stored[i], requested[i])

(* A record clients asked for in so many words: not raw bytes, not a Smart  *)
(* Poster, and not a text with nothing in it.                               *)
Own(r) ==
    \E request \in Requests : \E i \in DOMAIN request :
      /\ \/ request[i].type \in {"uri", "tel", "mime", "external", "empty"}
         \/ request[i].type = "text" /\ request[i].content # << >>
      /\ r = buildRecord(request[i])

(* The records of one sequence are among those of another, in order.        *)
Among(s, t) ==
    \E f \in [DOMAIN s -> DOMAIN t] :
      /\ \A i \in DOMAIN s : s[i] = t[f[i]]
      /\ \A i, j \in DOMAIN s : i < j => f[i] < f[j]

(* A partial update whose read got as far as the message's end keeps the    *)
(* records clients asked for as they were and in their order: all of them   *)
(* when it appends, and all but one when it replaces one, whatever other    *)
(* programs put between them and whatever later page failed.  One whose     *)
(* read did not get so far writes the records of the request and nothing    *)
(* else: what was on the tag is lost.                                       *)
(* reader.go, resolveWriteMessage; message.go, ToBuilder.                   *)
UpdateKeepsOwn ==
    [][whole /\ writes' # writes /\ seen' # "none" =>
         LET before == SelectSeq(stored, Own)
         IN  IF seen' = "part"
             THEN \E request \in Requests : requested' = request /\ stored' = BuildNDEFMessage(request)
             ELSE \/ Among(before, stored')
                  \/ /\ Len(stored') <= Len(ToBuilder(stored))
                     /\ \E i \in DOMAIN before : Among(RemoveAt(before, i), stored')]_ndefVars
=============================================================================
