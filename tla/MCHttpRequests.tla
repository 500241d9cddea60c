--------------------------- MODULE MCHttpRequests ---------------------------
EXTENDS HttpRequests

MCSymbols == STRING

MCBoundary == << "-", "b" >>

MCParts ==
    [ songOne  |-> [ name |-> << 1 >>, filename |-> "song" ],
      songNext |-> [ name |-> << 1, 0 >>, filename |-> "song" ],
      otherTwo |-> [ name |-> << 2 >>, filename |-> "other" ],
      page     |-> [ name |-> << 1 >>, filename |-> "page" ],
      url      |-> [ name |-> << 2 >>, filename |-> NoFilename ] ]

(* Names as text: 1 and 2 are a letter each, the numbers after them digits. *)
MCTextOrder ==
    LET inOrder == << << 1 >>, << 1, 0 >>, << 1, 0, 0 >>, << 1, 1 >>, << 2 >> >>
    IN  { << inOrder[i], inOrder[j] >> :
              << i, j >> \in { p \in (1..5) \X (1..5) : p[1] < p[2] } }

(* The parts, one after the other, as a client sends them. *)
Wire(parts) ==
    FoldLeft(LAMBDA sent, part :
                 sent \o Boundary \o << "cr", "lf", part.headers >>
                      \o EndOfHeaders \o part.content \o << "cr", "lf" >>,
             << >>, parts)
        \o Boundary \o << "-", "cr", "lf" >>

Part(headers, content) == [ headers |-> headers, content |-> content ]

Base ==
    [ uri |-> "rpc", authorized |-> TRUE, playlist |-> TRUE, line |-> "line",
      headers |-> << >>, length |-> 0, type |-> "other",
      parts |-> << >>, content |-> << >>, extra |-> << >> ]

Call(content, length) ==
    [Base EXCEPT !.headers = << "Content-Length" >>, !.length = length,
                 !.content = content]

Form(parts) ==
    [Base EXCEPT !.uri = "upload", !.type = "form",
                 !.headers = << "Content-Length", "Content-Type" >>,
                 !.parts = parts, !.content = Wire(parts),
                 !.length = Len(Wire(parts))]

Song  == Part("songOne", << "-", "1", "2" >>)
Url   == Part("url", << "u", "v", "w" >>)

MCRequests ==
    [ get        |-> Base,
      noise      |-> [Base EXCEPT !.line = "bad"],
      call       |-> Call(<< "1", "2" >>, 2),
      emptyCall  |-> Call(<< >>, 0),
      badCall    |-> Call(<< >>, BadLength),
      songs      |-> Form(<< Part("songNext", << "3" >>),
                             Part("songOne", << "1" >>), Part("songOne", << "2" >>) >>),
      page       |-> Form(<< Part("page", << "1" >>), Url >>),
      half       |-> Form(<< Part("otherTwo", << >>), Song >>),
      more       |-> [Form(<< Song >>) EXCEPT !.extra = << "cr" >>],
      stranger   |-> [Call(<< "1" >>, 1) EXCEPT !.authorized = FALSE],
      unnamed    |-> Form(<< Song, Part("junk", << "1" >>) >>),
      unbounded  |-> [Form(<< Song >>) EXCEPT !.parts = << >>,
                                             !.type = "form without boundary"],
      formless   |-> [Base EXCEPT !.uri = "upload", !.type = "form",
                                  !.headers = << "Content-Type" >>] ]

OneEmpty == [ emptyCall |-> Call(<< >>, 0) ]

OneUrl == [ url |-> Form(<< Url >>) ]

Symmetry == Permutations(Connections)
=============================================================================
