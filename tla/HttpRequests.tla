---------------------------- MODULE HttpRequests ----------------------------
(***************************************************************************)
(* Requests on several connections of the HTTP server: how they arrive in  *)
(* pieces of any size, how request_parser decides where one ends, and what *)
(* an upload then does to the playlist and to the plugin's directory.      *)
(*                                                                         *)
(* One action is one handler of a connection: handle_read with everything  *)
(* it calls, or the end of a write.  All run on AIMP's main thread, in the *)
(* tick; the handlers of different connections come in any order.  A word  *)
(* of the head of a request (its first line, a header, a line break) and a *)
(* character of its content is one symbol of what is sent.                 *)
(***************************************************************************)
EXTENDS FormData

CONSTANTS
    Connections,
    Requests,       \* what clients send: a name -> a record, see below
    BufferSize,     \* the most symbols one read takes (buffer_)
    UploadEnabled,  \* a setting
    Supported,      \* file names with an extension AIMP plays
    TextOrder       \* pairs of names, the first before the second as text

BadLength == -1   \* the value of Content-Length is not a number

(* A request is: what its URI asks for, whether it carries credentials (or
   needs none), whether its URI names a playlist (one that can be locked, by
   the managers that lock it), its line is well formed, the headers it has,
   its content (for a form the parts, which have a wire form), and what
   follows it on the connection. *)
RequestFields == { "uri", "authorized", "playlist", "line", "headers",
                   "length", "type", "parts", "content", "extra" }

HeaderNames == { "Content-Length", "Content-Type" }

Announces(r) == "Content-Length" \in Range(r.headers)

(* What a client announces is its content, whatever else it sends; without an
   announcement there is none, be the type that of a form or not. *)
IsRequest(r) ==
    /\ DOMAIN r = RequestFields
    /\ r.line \in Symbols
    /\ r.authorized \in BOOLEAN /\ r.playlist \in BOOLEAN
    /\ r.headers \in Seq(HeaderNames)
    /\ r.content \in Seq(Symbols) /\ r.extra \in Seq(Symbols)
    /\ IF Announces(r) THEN r.length \in { BadLength, Len(r.content) }
       ELSE r.content = << >>
    /\ r.type \in { "other", "form", "form without boundary" }
    /\ r.type # "other" => "Content-Type" \in Range(r.headers)
    /\ r.parts \in Seq([ headers : Symbols, content : Seq(Symbols) ])
    /\ IF r.type = "form" /\ Announces(r) THEN IsWire(r.parts, r.content)
       ELSE r.parts = << >>
    \* nothing that follows a form describes a part of it
    /\ Range(r.extra) \intersect DOMAIN Parts = {}

(* The parts of a form whose headers can be read, up to the first that
   cannot. *)
Readable(r) ==
    { i \in DOMAIN r.parts :
          \A j \in 1..i : r.parts[j].headers \in DOMAIN Parts }

(* The names of the fields forms have. *)
FormNames ==
    UNION { { KeyOf(Requests[n].parts, i) : i \in Readable(Requests[n]) } :
                n \in DOMAIN Requests }

ASSUME RequestsAssumption ==
    /\ HeaderNames \subseteq Symbols
    /\ BufferSize \in Nat \ {0}
    /\ UploadEnabled \in BOOLEAN
    /\ Supported \subseteq STRING \ { NoFilename }
    /\ DOMAIN Requests # {}
    /\ \A n \in DOMAIN Requests : IsRequest(Requests[n])

(* Text is ordered strictly and totally. *)
ASSUME TextOrderAssumption ==
    \A k, l \in FormNames :
        /\ << k, l >> \in TextOrder => << l, k >> \notin TextOrder
        /\ k = l \/ << k, l >> \in TextOrder \/ << l, k >> \in TextOrder
        /\ \A m \in FormNames :
               << k, l >> \in TextOrder /\ << l, m >> \in TextOrder
                   => << k, m >> \in TextOrder

(* The first line and each header with its line break, and an empty line. *)
HeadOf(r) ==
    LET lines == << r.line >> \o r.headers
        n     == 3 * Len(lines)
    IN  [ i \in 1..(n + 2) |->
              IF i % 3 = 1 /\ i <= n THEN lines[(i + 2) \div 3]
              ELSE IF i = n + 1 \/ (i <= n /\ i % 3 = 2) THEN "cr"
              ELSE "lf" ]

(* What is on the wire. *)
Sent ==
    [ n \in DOMAIN Requests |->
          HeadOf(Requests[n]) \o (Requests[n].content \o Requests[n].extra) ]

VARIABLES
    phase,      \* what the connection does
    request,    \* the request its client sends
    read,       \* symbols of it handle_read got
    parser,     \* request_parser_, request_ and the form's parser
    reply,      \* the status that is written
    temps,      \* the MPFD_Temp files of the plugin's directory
    library,    \* its other files: those uploads made AIMP play
    added,      \* fields AIMP took for a playlist, per connection
    alive       \* no exception has ended AIMP

hvars == << phase, request, read, parser, reply, temps, library, added, alive >>

Phases == { "absent", "reading", "replying", "closed" }

(* request_parser() *)
NewRequestParser ==
    [ state |-> "method_start", headers |-> {}, contentLength |-> 0,
      content |-> << >>, consumed |-> 0, form |-> NewParser,
      result |-> "more" ]

RequestsInit ==
    /\ phase   = [c \in Connections |-> "absent"]
    /\ request = [c \in Connections |-> CHOOSE n \in DOMAIN Requests : TRUE]
    /\ read    = [c \in Connections |-> 0]
    /\ parser  = [c \in Connections |-> NewRequestParser]
    /\ reply   = [c \in Connections |-> 0]
    /\ temps   = << >>
    /\ library = << >>
    /\ added   = [c \in Connections |-> << >>]
    /\ alive   = TRUE

-----------------------------------------------------------------------------
(* request_parser::consume, a symbol at a time *)

(* The states before the content, with what leads from one to the next. *)
HeadSteps ==
    { << "method_start", "line", "http_version_minor" >>,
      << "http_version_minor", "cr", "expecting_newline_1" >>,
      << "expecting_newline_1", "lf", "header_line_start" >>,
      << "header_value", "cr", "expecting_newline_2" >>,
      << "expecting_newline_2", "lf", "header_line_start" >>,
      << "header_line_start", "cr", "expecting_newline_3" >> }
    \union { << "header_line_start", h, "header_value" >> : h \in HeaderNames }

Refused(h) == [h EXCEPT !.result = "false"]

(* expecting_newline_3: with no Content-Length nothing more is awaited. *)
HeadEnds(r, h) ==
    IF "Content-Length" \notin h.headers THEN [h EXCEPT !.result = "true"]
    ELSE IF r.length = BadLength THEN Refused(h)
    ELSE [h EXCEPT !.contentLength = r.length,
                   !.state = "select_content_parser"]

(* content: the last character ends it, not the count being reached. *)
TakeContent(h, x) ==
    IF Len(h.content) < h.contentLength
    THEN [h EXCEPT !.state = "content",
                   !.content = Append(@, x),
                   !.result = IF Len(h.content) + 1 = h.contentLength
                              THEN "true" ELSE @]
    ELSE Refused([h EXCEPT !.state = "content"])

Consume(r, h, x) ==
    LET steps == { s \in HeadSteps : s[1] = h.state /\ s[2] = x }
    IN  IF steps # {}
        THEN [h EXCEPT !.state = (CHOOSE s \in steps : TRUE)[3],
                       !.headers = @ \union ({ x } \intersect HeaderNames)]
        ELSE IF h.state = "expecting_newline_3" /\ x = "lf" THEN HeadEnds(r, h)
        ELSE IF h.state \in { "select_content_parser", "content" }
        THEN TakeContent(h, x)
        ELSE Refused(h)

(* select_content_parser finds a form; ParserFactory creates its parser,
   which throws when the header names no boundary. *)
StartsForm(r, h) ==
    /\ h.state = "select_content_parser"
    /\ "Content-Type" \in h.headers
    /\ r.type \in { "form", "form without boundary" }

CreateParser(r, h) ==
    IF r.type = "form" THEN [h EXCEPT !.state = "content_multipart_formdata"]
    ELSE [h EXCEPT !.result = "threw"]

(* Mutant: the length of the last piece alone is compared. *)
ParseForm_LastPiece(h, piece) ==
    LET form == AcceptSomeData(h.form, piece)
    IN  IF h.consumed >= h.contentLength THEN Refused(h)
        ELSE [h EXCEPT !.form = form,
                       !.result = IF form.threw THEN "threw"
                                  ELSE IF Len(piece) = h.contentLength THEN "true"
                                  ELSE @]

(* parse_mpfd: all of a piece goes to the form's parser. *)
ParseForm(h, piece) ==
    LET form == AcceptSomeData(h.form, piece)
        n    == h.consumed + Len(piece)
    IN  IF h.consumed >= h.contentLength THEN Refused(h)
        ELSE [h EXCEPT !.form = form, !.consumed = n,
                       !.result = IF form.threw THEN "threw"
                                  ELSE IF n = h.contentLength THEN "true"
                                  ELSE @]

(* From here on a piece is not consumed symbol by symbol. *)
ToForm(r, h) == StartsForm(r, h) \/ h.state = "content_multipart_formdata"

(* One symbol of a piece, unless that is decided or a form starts. *)
Character(r, piece, s) ==
    IF s.at = Len(piece) \/ s.parser.result # "more" \/ ToForm(r, s.parser) THEN s
    ELSE [ parser |-> Consume(r, s.parser, piece[s.at + 1]), at |-> s.at + 1 ]

Characters(r, h, piece) ==
    LET after[i \in 0..Len(piece)] ==
            IF i = 0 THEN [ parser |-> h, at |-> 0 ]
            ELSE Character(r, piece, after[i - 1])
    IN  after

(* request_parser::parse *)
Parse(r, h, piece) ==
    LET s    == Characters(r, h, piece)[Len(piece)]
        rest == Skip(piece, s.at)
        form == IF StartsForm(r, s.parser) THEN CreateParser(r, s.parser)
                ELSE s.parser
    IN  IF s.parser.result # "more" \/ s.at = Len(piece) THEN s.parser
        ELSE IF form.result = "threw" THEN form
        ELSE ParseForm(form, rest)

-----------------------------------------------------------------------------
(* What handle_request does with a request that was read *)

(* The map of fields is walked in the order of their names. *)
Before(k, l) == << k, l >> \in TextOrder

NextField(left) == CHOOSE k \in left : \A l \in left \ { k } : Before(k, l)

(* The work of a request so far: what it added, the files, the status. *)
Untouched(status) ==
    [ added |-> << >>, files |-> library, status |-> status ]

(* Where handling a field may be refused: when AIMP is asked for the kinds of
   files it plays, or when it is to add the entry. *)
Refusals(form) ==
    [ field : DOMAIN form.fields \union { NoField }, at : { "kinds", "add" } ]

(* Mutant: the extension is not looked at. *)
AddField_AnyKind(form, refused, work, key) ==
    LET field == form.fields[key]
    IN  IF field.filename = NoFilename \/ field.temp = 0 THEN work
        ELSE [work EXCEPT !.files = Put(@, field.filename, form.disk[field.temp]),
                          !.added = Append(@, key)]

(* Mutant: the field that fails is passed over, the others follow. *)
AddField_GoesOn(form, refused, work, key) ==
    IF key = refused.field THEN work ELSE
    LET field  == form.fields[key]
        isFile == field.filename # NoFilename
    IN  IF isFile /\ (field.filename \notin Supported \/ field.temp = 0)
        THEN work
        ELSE [ files  |-> IF isFile THEN Put(work.files, field.filename,
                                             form.disk[field.temp])
                          ELSE work.files,
               added  |-> Append(work.added, key),
               status |-> 200 ]

(* A file of a kind AIMP does not play is passed over.  A file field that got
   no data has no temporary file to copy, which throws; so does AIMP when it
   does not take an entry, a file already copied stays. *)
AddField(form, refused, work, key) ==
    LET field  == form.fields[key]
        isFile == field.filename # NoFilename
        copies == isFile /\ field.temp # 0
        takes  == (isFile => copies) /\ key # refused.field
        files  == IF copies THEN Put(work.files, field.filename,
                                     form.disk[field.temp])
                  ELSE work.files
    IN  IF work.status # 200 THEN work
        ELSE IF isFile /\ refused = [ field |-> key, at |-> "kinds" ]
             THEN [work EXCEPT !.status = 403]
        ELSE IF isFile /\ field.filename \notin Supported THEN work
        ELSE [ files  |-> files,
               added  |-> IF takes THEN Append(work.added, key) ELSE work.added,
               status |-> IF takes THEN 200 ELSE 403 ]

Visit(form, refused, s) ==
    LET key == NextField(s.left)
    IN  [ left |-> s.left \ { key },
          work |-> AddField(form, refused, s.work, key) ]

Visits(form, refused) ==
    LET visit[i \in 0..Cardinality(DOMAIN form.fields)] ==
            IF i = 0 THEN [ left |-> DOMAIN form.fields, work |-> Untouched(200) ]
            ELSE Visit(form, refused, visit[i - 1])
    IN  visit

(* UploadTrack::RequestHandler::handle_request: a playlist that is not named
   or cannot be locked is refused before the first field, one that was locked
   is unlocked whatever happens.  (A manager that does not lock refuses a
   playlist it does not know at the first field.) *)
Upload(r, form, refused) ==
    IF UploadEnabled /\ r.playlist
    THEN Visits(form, refused)[Cardinality(DOMAIN form.fields)].work
    ELSE Untouched(403)

(* The upload goes through the form of a request that has no form's parser:
   its type or its length is missing. *)
MissesForm(r, h) ==
    /\ r.uri = "upload" /\ r.authorized /\ r.playlist /\ UploadEnabled
    /\ h.state # "content_multipart_formdata"

(* RequestHandler::handle_request, as far as its reply and the upload go. *)
HandleRequest(r, form, refused) ==
    IF ~r.authorized THEN Untouched(401)
    ELSE IF r.uri = "upload" THEN Upload(r, form, refused)
    ELSE Untouched(200)

-----------------------------------------------------------------------------
(* A connection *)

(* handle_accept has the connection start reading. *)
Start(c, n) ==
    /\ alive /\ phase[c] = "absent"
    /\ phase' = [phase EXCEPT ![c] = "reading"]
    /\ request' = [request EXCEPT ![c] = n]
    /\ UNCHANGED << read, parser, reply, temps, library, added, alive >>

(* Between two handlers a parser does not have the shared directory. *)
Kept(h) == [h EXCEPT !.form.disk = << >>]

(* handle_read, with n symbols more, goes on to read or to write a reply. *)
Goes(c, n, h, next, work) ==
    /\ phase' = [phase EXCEPT ![c] = next]
    /\ read' = [read EXCEPT ![c] = @ + n]
    /\ parser' = [parser EXCEPT ![c] = Kept(h)]
    /\ temps' = h.form.disk
    /\ reply' = [reply EXCEPT ![c] = work.status]
    /\ library' = work.files
    /\ added' = [added EXCEPT ![c] = work.added]
    /\ UNCHANGED << request, alive >>

(* The connection's last reference is gone, and with it its fields. *)
Destroys(c, h) ==
    /\ phase' = [phase EXCEPT ![c] = "closed"]
    /\ read' = [read EXCEPT ![c] = 0]
    /\ parser' = [parser EXCEPT ![c] = NewRequestParser]
    /\ temps' = Restrict(h.form.disk,
                         DOMAIN h.form.disk \ OpenTemps(h.form.fields))
    /\ UNCHANGED << request, reply, library, added >>

(* What nobody catches ends AIMP. *)
AimpEnds ==
    /\ alive' = FALSE
    /\ UNCHANGED << phase, request, read, parser, reply, temps, library, added >>

(* MPFD::Exception is no std::exception: handle_read, the io_service and the
   tick let it pass, out of the timer's procedure.  Whoever called that ends
   AIMP or goes on with the next tick. *)
Threw(c, h) ==
    \/ Destroys(c, h) /\ UNCHANGED alive
    \/ AimpEnds

(* handle_read with a piece of n symbols *)
HandleRead(c, n) ==
    LET r == Requests[request[c]]
        h == Parse(r, [parser[c] EXCEPT !.form.disk = temps],
                   SubSeq(Sent[request[c]], read[c] + 1, read[c] + n))
    IN  /\ alive /\ phase[c] = "reading"
        /\ read[c] + n <= Len(Sent[request[c]])
        /\ \/ h.result = "more"  /\ Goes(c, n, h, "reading", Untouched(0))
           \/ h.result = "false" /\ Goes(c, n, h, "replying", Untouched(400))
           \/ /\ h.result = "true" /\ ~MissesForm(r, h)
              /\ \E refused \in Refusals(h.form) :
                     Goes(c, n, h, "replying", HandleRequest(r, h.form, refused))
           \/ h.result = "true" /\ MissesForm(r, h) /\ AimpEnds
           \/ h.result = "threw" /\ Threw(c, h)

(* The peer is gone before its request was read: handle_read with an error. *)
ReadFails(c) ==
    /\ alive /\ phase[c] = "reading"
    /\ Destroys(c, [parser[c] EXCEPT !.form.disk = temps])
    /\ UNCHANGED alive

(* handle_write, with or without an error: nothing is started any more. *)
ReplyWritten(c) ==
    /\ alive /\ phase[c] = "replying"
    /\ Destroys(c, [parser[c] EXCEPT !.form.disk = temps])
    /\ UNCHANGED alive

RequestsNext ==
    \E c \in Connections :
        \/ \E n \in DOMAIN Requests : Start(c, n)
        \/ \E n \in 1..BufferSize : HandleRead(c, n)
        \/ ReadFails(c)
        \/ ReplyWritten(c)

RequestsSpec == RequestsInit /\ [][RequestsNext]_hvars

-----------------------------------------------------------------------------
(* Properties *)

RequestOf(c) == Requests[request[c]]
FieldsOf(c)  == parser[c].form.fields
IsForm(r)    == r.type = "form"
IsFile(r, i) == Parts[r.parts[i].headers].filename # NoFilename

(* Type invariant: the phases, the parser's states and what it counted, and
   the reply, of every connection. *)
RequestsTypeOK ==
    /\ alive \in BOOLEAN
    /\ DOMAIN temps \subseteq Nat \ {0} /\ DOMAIN library \subseteq Supported
    /\ \A c \in Connections :
           /\ phase[c] \in Phases /\ request[c] \in DOMAIN Requests
           /\ read[c] \in 0..Len(Sent[request[c]])
           /\ reply[c] \in { 0, 200, 400, 401, 403 }
           /\ parser[c].form.status \in Statuses
           /\ parser[c].consumed \in 0..read[c]
           /\ Len(parser[c].content) <= parser[c].contentLength
           /\ phase[c] = "reading" => reply[c] = 0 /\ parser[c].result = "more"
           /\ phase[c] = "replying" => reply[c] # 0

(* A client that sends no more than it says. *)
IsExact(r) == r.extra = << >>

(* How reading an exact request must end, whatever its pieces. *)
Expected(r) ==
    IF r.line # "line" THEN "false"
    ELSE IF ~Announces(r) THEN "true"
    ELSE IF r.length = BadLength THEN "false"
    ELSE IF r.type = "form without boundary" THEN "threw"
    ELSE IF IsForm(r) /\ Readable(r) # DOMAIN r.parts THEN "threw"
    ELSE "true"

(* An announced length of 0 is never reached by a character. *)
HasEnd(r) == Announces(r) => r.length # 0

(* However the network cuts an exact request into pieces, it is decided, in
   the same way, and never before its last symbol when it is accepted. *)
DecidedHoweverCut ==
    \A c \in Connections :
        LET r == RequestOf(c)
            all == read[c] = Len(Sent[request[c]])
        IN  IsExact(r) /\ HasEnd(r) =>
                /\ phase[c] = "replying" =>
                       /\ parser[c].result = Expected(r)
                       /\ parser[c].result = "true" => all
                /\ phase[c] = "reading" => ~all

(* "The tribool return value is true when a complete request has been parsed
   [...], indeterminate when more data is required" (request_parser.h): of a
   request that came whole no more is awaited. *)
CompleteIsDecided ==
    \A c \in Connections :
        IsExact(RequestOf(c)) /\ phase[c] = "reading"
            => read[c] < Len(Sent[request[c]])

(* What a field of a form has got so far. *)
Stored(c, key) ==
    LET temp == FieldsOf(c)[key].temp
    IN  IF temp = 0 THEN << >> ELSE temps[temp]

(* Every file field of every connection writes a temporary file of its own,
   which holds a prefix of the file that is sent; when the request is handed
   on, all files of the form are there, whole, under the names sent. *)
FilesComeWhole ==
    alive =>
    /\ \A c, d \in Connections : \A k \in DOMAIN FieldsOf(c), l \in DOMAIN FieldsOf(d) :
           FieldsOf(c)[k].temp # 0 /\ FieldsOf(c)[k].temp = FieldsOf(d)[l].temp
               => c = d /\ k = l
    /\ \A c \in Connections : \A i \in Readable(RequestOf(c)) :
           LET r   == RequestOf(c)
               key == KeyOf(r.parts, i)
               whole == phase[c] = "replying" /\ parser[c].result = "true"
           IN  /\ key \in DOMAIN FieldsOf(c) /\ IsFile(r, i) =>
                      /\ FieldsOf(c)[key].filename = Parts[r.parts[i].headers].filename
                      /\ IsPrefix(Stored(c, key), r.parts[i].content)
               /\ whole /\ IsForm(r) /\ IsExact(r) /\ IsFile(r, i) =>
                      /\ key \in DOMAIN FieldsOf(c)
                      /\ Stored(c, key) = r.parts[i].content

(* The directory holds the temporary files of connections that live, and no
   other: none outlasts an answered, failed or torn connection. *)
TempFilesGone ==
    alive =>
    DOMAIN temps = UNION { OpenTemps(FieldsOf(c)) : c \in Connections }

(* The fields of an upload that AIMP is given. *)
Playable(r) ==
    { KeyOf(r.parts, i) : i \in
          { j \in Readable(r) : IsFile(r, j) =>
                Parts[r.parts[j].headers].filename \in Supported } }

(* What an upload gives AIMP is the beginning of what its form holds, in the
   order of the fields' names, all of it when the reply is 200, nothing when it
   is 400 or 401; and a file an entry plays is, whole, one that a client sent under
   its name. *)
UploadsAddInOrder ==
    \A c \in Connections :
        LET r    == RequestOf(c)
            keys == Range(added[c])
        IN  /\ \A i, j \in DOMAIN added[c] : i < j => Before(added[c][i], added[c][j])
            /\ keys \subseteq Playable(r)
            /\ \A k \in Playable(r) \ keys : \A l \in keys : Before(l, k)
            /\ r.uri = "upload" /\ reply[c] = 200 => keys = Playable(r)
            /\ reply[c] \in { 0, 400, 401 } => keys = {}
            /\ \A i \in Readable(r) :
                   LET file == Parts[r.parts[i].headers].filename
                   IN  KeyOf(r.parts, i) \in keys /\ IsFile(r, i) =>
                           /\ file \in DOMAIN library
                           /\ \E d \in Connections : \E j \in Readable(RequestOf(d)) :
                                  /\ phase[d] # "absent"
                                  /\ Parts[RequestOf(d).parts[j].headers].filename = file
                                  /\ library[file] = RequestOf(d).parts[j].content

(* "Internet radio URL adding to playlist is also supported by using text
   input field type" (rpc/methods.h): the URL added is the one sent. *)
TextFieldsComeWhole ==
    \A c \in Connections : \A i \in Readable(RequestOf(c)) :
        LET r == RequestOf(c)
        IN  phase[c] = "replying" /\ reply[c] = 200 /\ r.uri = "upload" /\ ~IsFile(r, i)
                => FieldsOf(c)[KeyOf(r.parts, i)].text = r.parts[i].content
=============================================================================
