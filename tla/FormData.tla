------------------------------ MODULE FormData ------------------------------
(***************************************************************************)
(* MPFD::Parser and MPFD::Field: the parser of multipart/form-data the     *)
(* HTTP server feeds with a form as its pieces come from the socket.  It   *)
(* collects data, looks for boundaries in what it has collected, and hands *)
(* the rest to the field being read.  A file is written to the first name  *)
(* free among MPFD_Temp_1, MPFD_Temp_2, ... of a directory that all        *)
(* parsers share.                                                          *)
(*                                                                         *)
(* Data is a sequence of symbols: a character each, the header lines of a  *)
(* part one symbol.  A parser is a value; the state it is in between two   *)
(* pieces is kept by the connection (module HttpRequests), the shared      *)
(* directory ("disk") is a parser's only while it handles a piece.         *)
(***************************************************************************)
EXTENDS Integers, SequencesExt

CONSTANTS
    Symbols,   \* what data consists of
    Boundary,  \* "--" and the form's boundary, a sequence of symbols
    Parts      \* header lines of a part -> its name and file name

(* A name is the sequence of what it is put together from: the name a client
   sends, which may end in digits, and a number that the parser adds. *)
Names == Seq(Nat) \ { << >> }

NoFilename == "none"   \* the headers have no "filename=": a text field

ASSUME FormAssumption ==
    /\ { "cr", "lf", "-" } \subseteq Symbols
    /\ Boundary \in Seq(Symbols) /\ Boundary # << >>
    /\ DOMAIN Parts \subseteq Symbols \ { "cr", "lf", "-" }
    /\ \A h \in DOMAIN Parts : /\ Parts[h].name \in Names
                               /\ Parts[h].filename \in STRING

Statuses == { "LookingForStartingBoundary", "ProcessingHeaders",
              "ProcessingContentOfTheField" }

NoField == << >>

NewParser ==
    [ status |-> "LookingForStartingBoundary", collector |-> << >>,
      fields |-> << >>, current |-> NoField, disk |-> << >>, threw |-> FALSE ]

(* The first position of a word in data, 0 when there is none. *)
Position(word, data) ==
    LET at == { i \in 1..(Len(data) - Len(word) + 1) :
                    SubSeq(data, i, i + Len(word) - 1) = word }
    IN  IF at = {} THEN 0 ELSE Min(at)

(* Assignment to an entry of a map, which may be new. *)
Put(map, key, value) ==
    [ k \in DOMAIN map \union { key } |-> IF k = key THEN value ELSE map[k] ]

Skip(data, n) == SubSeq(data, n + 1, Len(data))

(* FindStartingBoundaryAndTruncData *)
LookForBoundary(p) ==
    LET at == Position(Boundary, p.collector)
    IN  IF at = 0 THEN p
        ELSE [p EXCEPT !.status = "ProcessingHeaders",
                       !.collector = Skip(@, at + Len(Boundary) - 1)]

(* A second field of a name becomes name0, a third one name1, unless a field
   has that name already. *)
UniqueName(name, used) ==
    IF name \notin used THEN name
    ELSE Append(name, Min({ k \in 0..Cardinality(used) :
                                Append(name, k) \notin used }))

NewField(filename) == [ filename |-> filename, text |-> << >>, temp |-> 0 ]

(* _ParseHeaders, as far as a form that a client sends tells its cases apart:
   the lines say what the field is, or the parser throws. *)
ParseHeaders(p, headers) ==
    LET known == { h \in Range(headers) : h \in DOMAIN Parts }
        part  == Parts[CHOOSE h \in known : TRUE]
        key   == UniqueName(part.name, DOMAIN p.fields)
    IN  IF known = {} THEN [p EXCEPT !.threw = TRUE]
        ELSE [p EXCEPT !.current = key,
                       !.fields = Put(@, key, NewField(part.filename))]

EndOfHeaders == << "cr", "lf", "cr", "lf" >>

(* WaitForHeadersEndAndParseThem *)
WaitForHeadersEnd(p) ==
    LET at == Position(EndOfHeaders, p.collector)
        q  == ParseHeaders(p, SubSeq(p.collector, 1, at - 1))
    IN  IF at = 0 THEN p
        ELSE IF q.threw THEN q
        ELSE [q EXCEPT !.status = "ProcessingContentOfTheField",
                       !.collector = Skip(@, at + 3)]

(* Mutant: every field starts with the first name. *)
FreeTemp_First(disk) == 1

(* The first name of a temporary file that does not exist. *)
FreeTemp(disk) == Min(1..(Cardinality(DOMAIN disk) + 1) \ DOMAIN disk)

(* Field::AcceptSomeData.  A text field keeps the last piece only: the length
   it appends at is never moved. *)
FieldAccepts(p, data) ==
    LET field == p.fields[p.current]
        temp  == IF field.temp = 0 THEN FreeTemp(p.disk) ELSE field.temp
        was   == IF field.temp = 0 THEN << >> ELSE p.disk[temp]
    IN  IF field.filename = NoFilename
        THEN [p EXCEPT !.fields[p.current].text = data]
        ELSE [p EXCEPT !.fields[p.current].temp = temp,
                       !.disk = Put(@, temp, was \o data)]

(* What of the collected data is the field's for sure: all up to the line
   break before a boundary, or, without one, what cannot be part of it. *)
DataLengthToSend(data) ==
    LET at == Position(Boundary, data)
    IN  IF at > 0 THEN at - 3 ELSE Len(data) - (Len(Boundary) + 2)

(* ProcessContentOfTheField *)
ProcessContent(p) ==
    LET n == DataLengthToSend(p.collector)
        q == IF n > 0
             THEN [FieldAccepts(p, SubSeq(p.collector, 1, n))
                       EXCEPT !.collector = Skip(@, n)]
             ELSE p
    IN  IF Position(Boundary, p.collector) > 0
        THEN [q EXCEPT !.status = "LookingForStartingBoundary"]
        ELSE q

ProcessStep(p) ==
    CASE p.status = "LookingForStartingBoundary"  -> LookForBoundary(p)
      [] p.status = "ProcessingHeaders"           -> WaitForHeadersEnd(p)
      [] p.status = "ProcessingContentOfTheField" -> ProcessContent(p)

(* A round of the loop of _ProcessData, which goes on while a round leads to
   another status. *)
Round(s) ==
    LET q == ProcessStep(s.form)
    IN  IF s.stopped THEN s
        ELSE [ form |-> q, stopped |-> q.threw \/ q.status = s.form.status ]

(* Of two rounds that are not the last, one at least takes a symbol off what
   is collected: so many are enough. *)
EnoughRounds(p) == Len(p.collector) + 2

Rounds(p) ==
    LET round[i \in 0..EnoughRounds(p)] ==
            IF i = 0 THEN [ form |-> p, stopped |-> FALSE ]
            ELSE Round(round[i - 1])
    IN  round

(* _ProcessData *)
ProcessData(p) == Rounds(p)[EnoughRounds(p)].form

AcceptSomeData(p, data) == ProcessData([p EXCEPT !.collector = @ \o data])

(* Mutant: the file of the last field only. *)
OpenTemps_Last(fields) ==
    { t \in { fields[k].temp : k \in DOMAIN fields } \ { 0 } :
          \A k \in DOMAIN fields : fields[k].temp <= t }

(* What ~Field removes: the temporary files the fields have open. *)
OpenTemps(fields) == { fields[k].temp : k \in DOMAIN fields } \ { 0 }

(* The parts, one after the other, as a client sends them: at says where the
   boundary before each of them is, and the one after the last.  The client
   picks a boundary that is nowhere else in what it sends. *)
IsLayout(parts, data, at) ==
    LET b == Len(Boundary)
        K == Len(parts)
    IN  /\ at[1] = 0
        /\ \A k \in 1..K :
               /\ at[k + 1] = at[k] + b + Len(parts[k].content) + 9
               /\ SubSeq(data, at[k] + b + 1, at[k + 1]) =
                      << "cr", "lf", parts[k].headers >> \o EndOfHeaders
                          \o parts[k].content \o << "cr", "lf" >>
        /\ SubSeq(data, at[K + 1] + b + 1, Len(data)) = << "-", "cr", "lf" >>
        /\ Len(data) = at[K + 1] + b + 3
        /\ \A i \in 0..(Len(data) - b) :
               SubSeq(data, i + 1, i + b) = Boundary <=> i \in Range(at)

IsWire(parts, data) ==
    \E at \in [1..(Len(parts) + 1) -> 0..Len(data)] : IsLayout(parts, data, at)

(* The field a part becomes: its name, made unique among those before it. *)
KeyOf(parts, i) ==
    LET key[j \in 1..Len(parts)] ==
            UniqueName(Parts[parts[j].headers].name,
                       { key[l] : l \in 1..(j - 1) })
    IN  key[i]
=============================================================================
