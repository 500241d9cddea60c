# Verification of the AIMP control plugin

The plugin lets a browser control the player AIMP: AIMP loads it as a DLL, it
opens an HTTP server inside AIMP, serves a web client and answers its RPC
calls. The modules here describe the plugin's own logic in TLA+; TLC checks them
on small instances, TLAPS proves the properties that matter most for every
instance. Paths are relative to the root of the repository; line numbers refer
to the commit the modules were written from.

## 1. The system

### How it runs

There is one thread that matters: AIMP's main thread. AIMP calls the plugin
from it (`Initialize`, `Finalize`, the extension that tells of playlists, the
message hook, the listeners of playlists), and a window timer calls the
plugin's tick every 100 ms (`src/plugin/control_plugin.cpp:815`), which polls
the `boost::asio::io_service`. All handlers - accepted connections, reads,
writes, expired timers - run inside that poll. So handlers never overlap, and one
action of a module is one handler, or one call of AIMP, executed whole.

What is concurrent is everything else:

* the network: a peer may reset its connection between any two handlers;
* time: a `deadline_timer` that has expired has its handler put in the
  io_service's queue, and what stands in front of it in the queue runs first;
  cancelling or re-arming the timer does not take it out again;
* AIMP: its calls come between two handlers, and also from inside one, when an
  RPC method makes AIMP do something it then reports.

An exception that leaves a handler leaves `poll()`; the tick's catch block stops
the io_service and kills the timer, so the plugin serves nobody from then on
while AIMP goes on calling it. Every module that has an io_service models this
(`serving`).

### Inventory

| Component | State it keeps | Operations | Makes it correct |
|---|---|---|---|
| Comet notifications (`rpc/methods.cpp` SubscribeOnAIMPStateUpdateEvent, `http_server/connection.cpp`) | descriptors of delayed responses per event; connections kept alive by them | accept, read, reply, subscribe, notify on AIMP's event, completed write | nobody is kept waiting for ever or answered twice; all subscribers of an event are served |
| Playlist mirror (`aimp/manager3.6.cpp`, `aimp/manager3.0.cpp`, `aimp/playlist.cpp`) | rows in an in-memory SQLite database, a checksum per playlist, gathered change flags and a timer per playlist | playlist added, changed, removed; timer handler | what AIMP changed reaches the rows and the clients; checksums never vouch for other content; removed playlists stay removed |
| Scheduler (`rpc/methods.cpp`) | one Timer | schedule, cancel, report, timer handler | what is cancelled does not act; pausing does not start playback |
| RemoveTrack (`rpc/methods.cpp`, managers) | one timer shared by all delayed removals | remove at once, remove by timer, timer handler | success is true; no file is lost but for a call that succeeds; every caller is answered |
| Registry of listeners (the three managers) | map of listeners, next id | register, unregister | an id unregisters its own listener |
| Plugin object and tick (`plugin/control_plugin.cpp`) | the parts of the plugin, the tick's timer | Initialize, Finalize, tick, destruction | destructors find what they use; AIMP holds nothing that is destroyed |
| HTTP server, connections | acceptors, connections | accept, read, write, transmit a file | every connection ends |
| HTTP request parser (`http_server/http_request_parser.cpp`, `request_parser.h`) | parser state, content so far | consume, reset | the outcome does not depend on how the request is cut into pieces |
| HTTP request handler, documents, mime types, replies | none | handle a request | data only |
| Authentication (`http_server/auth_manager.cpp`) | settings | compare a digest | data only |
| Multipart form data and upload (`http_server/mpfd_parser`, `upload_track`) | fields, parser state, temporary files in a directory all uploads share, files that AIMP plays | accept data, add a form's fields to a playlist | every field whole and under its name, temporary files cleaned up, fields added in order |
| Track download | none | look up a file name | - |
| RPC request handler, frontends, values | table of methods, fixed after initialization | parse, call, answer | every call gets one response or one descriptor |
| GetPlaylistEntries, GetEntryPositionInDatatable, GetPlaylists | none; queries on the mirror | page, order, search | positions and pages agree |
| Cover cache of GetCover (`rpc/methods.cpp`) | lists of files shared by tracks, the lists by hash and by path | find, share, make | the right picture in the size asked for, no file twice |
| Play queue (`rpc/methods.cpp`, managers) | mirror of AIMP's queue | append, move, remove, reload | mirror equals AIMP's queue |
| Manager for AIMP 2.6 (`aimp/manager2.6.cpp`) | rows and checksums as above, no flags: a timer of five seconds | periodic comparison with AIMP | after a check the rows are AIMP's playlists, and listeners know |
| Emulation of the web control plugin | none | the older protocol over the same managers | data only |
| Settings, logger, utilities | read once | - | file I/O and conversions |
| Web client (`src/client_src/js`) | what the page shows | subscribe, refresh | the page catches up with AIMP |
| Vendored code (mongoose, json, SQLite, FreeImage) | - | - | third party |

### How components interact

    AIMP ----calls----> manager ---events---> listeners: comet notifications
     ^                     | rows                  | delayed responses
     |                     v                       v
    RPC methods <------ database             connections -----> clients
     ^                                             |
     +------------- RPC request handler <----------+   (all polled by the tick)

AIMP's calls reach the manager, which changes the mirror and raises events; the
comet component is a listener of these events. RPC methods read the mirror and
make AIMP act, which comes back as AIMP's calls. Scheduler, RemoveTrack and
the mirror have timers on the io_service the connections use.

`PROJECT.json` lists the hazards this gives rise to, each with its line and the
properties that cover it.

## 2. Modules

| Module | Models | State and actions |
|---|---|---|
| `EventFeed` | the abstract promise of the comet path | who waits per topic, who is served; Wait, Publish, Gone |
| `CometNotifications` | `connection.cpp`, `server.cpp`, the dispatch in the handlers, SubscribeOnAIMPStateUpdateEvent and `CometDelayedConnection` | `phase` of a connection object, `subscribers` = `delayed_response_sender_descriptors_`, responses started and completed, `faults` = what may go wrong in the execution; one action per handler, `AimpEvent` for `aimpEventHandler` with its list of notifications, raised by AIMP's call or by a handler of the io_service (then what it throws stops the service) |
| `PlaylistMirror` | `AIMPManager36` and `AIMPManager30`: a playlist added, changed, removed, `trySchedulePlaylistContentUpdate`, `handlePlaylistUpdateTimer`, the loading functions and the checksum | `loaded` = `playlist_helpers_`, `flags`/`recent`/`timer` = `PlaylistChanged` and its timer, `mirror` = the rows and the checksum object, `stale` = what AIMP changed and the mirror has not loaded, `aimp` = which of the two managers runs, and what may happen to it. A playlist may be added again that the constructor has loaded (`SameHelper`). `PlaylistAdded`, `PlaylistChanged`, `PlaylistRemoved` are 3.6; `StorageAdded`, `StorageChanged`, `StorageRemoved` are 3.0, which loads no entries when a playlist is added and is told of changes while it adds one (`DuringAdd`) |
| `PeriodicMirror` | `AIMPManager26`: `checkIfPlaylistsChanged` and what it calls | `lists` = AIMP's playlists, `db` = the rows and the checksum object of each; `Check` is the timer's handler, whole; `CheckThrows` is its end by an exception, while rows are loaded or closed playlists are looked for |
| `Managers` | `CreateAIMPManager` | composes the two mirrors: the manager that was created takes steps |
| `FormData` | `MPFD::Parser`, `MPFD::Field` | a parser is a value: status, collected data, fields, and the temporary files while it handles a piece; `AcceptSomeData` is the function the server calls. The loop of `_ProcessData` is a recursive function over its rounds (`Rounds`), as many as can be needed (`EnoughRounds`). `IsWire` says what a client sends for the parts of a form |
| `HttpRequests` | `request_parser`, `Connection::handle_read`, `UploadTrack::RequestHandler` | per connection the phase, the pieces read, the parser's state and the reply; shared by all the temporary files (`temps`), the files AIMP plays (`library`), what was added to playlists; one action per handler. `HeadOf` and `Sent` are what is on the wire, `Characters` the loop of `parse`, `Visits` the walk over the fields of an upload in the order of their names, which is that of texts (`TextOrder`, a constant: any strict total order of the names forms have). A name is a sequence of numbers, and the number a second field of a name gets may make the name of a third (`UniqueName`). `MissesForm` is an upload whose form has no parser |
| `StopScheduler` | `Scheduler::execute`, the timer handlers | `current` = `timer_`, where the wait of every Timer stands. A handler that is queued when its timer is cancelled runs all the same, as in the code: `timer_.reset()` aborts only a wait that is pending, and the handlers look at the error alone |
| `TrackRemoval` | `RemoveTrack::execute`, `onTimerDeleteTrack`, `removeTrack` of the managers | AIMP's entries, the file each of them names (`fileOf`; two entries may name one file), the files on the disk, the state of every call |
| `Service` | the io_service the tick polls | `serving`, the one variable the two modules above share |
| `TimedMethods` | the methods `createRpcMethods` registers with timers | composes `StopScheduler` and `TrackRemoval`: an exception in a handler of one stops both. `load` bounds how many timers and calls an execution has |
| `EventListeners` | `registerListener`, `unRegisterListener` | the map, the next id, what each owner was handed |
| `CoverCache` | `GetCover::execute` and `GetCover::Cache` | the three maps of the cache, the lists of files by the track they were made for, the cover AIMP has for each track; `MatchSize` is the search of a size's digits in a file's name |
| `PluginLifecycle` | `Initialize`, `Finalize`, `onTick`, destructors, the managers' hooks | how far `initialize()` came (`made`), which parts exist, what AIMP holds (`hooks`), the tick's timer and the message it has posted, whether AIMP has called `Finalize`; teardown goes member by member, in the order of `Finalize` or of the destructor. Composes `EventListeners` with the one owner the plugin has |

`MC...` modules hold the small sets for TLC, `..._proofs` modules the theorems.
Mutants - definitions with the suffix `_...` in front of the definition they
alter - are bugs a programmer could make; each shows that a property would notice.

Contents (names, tracks, texts, SQL) are abstracted to what a property tells
apart: the mirror of 3.6 and 3.0 knows whether its rows and checksums are those of
AIMP's present content or of an earlier one, not which tracks there are; that of 2.6, which
compares tracks, has sequences of tracks. A request is a sequence of symbols: its first line,
a header and a part's header lines are one each, a character of the content is one, and so are
the carriage returns and line feeds, because it is there that pieces are cut in unlucky places.

What clients send is a constant, and `IsRequest` (part of `RequestsAssumption`) says which requests
there are: one that announces a length announces that of its content, or something that is no
number; one that announces none has no content, whatever type it declares; a form that announces
its length is the wire form of its parts (`IsWire`: boundary, headers and content of each, with a
boundary that occurs nowhere else). Nothing says that an upload carries a form. What follows a request on its
connection (`extra`) is any data that has no header lines of a part in it.

What may fail is a choice of the initial state (`FaultSets`, `Environments`, `Users`),
so one run has executions with and without failures, and a property that needs their
absence says so itself (`faults = {} =>`, `~aimp.fails =>`, `~user.fails =>`).

## 3. What is checked

Every action of every module fires in its runs.

| Run | Instance | Shows |
|---|---|---|
| `comet` | 3 connections, all events, no failures or all of them (debug records, reads of AIMP's state), fair | a connection is held exactly while somebody will answer it; one descriptor per connection; nobody is overtaken; without failures one response each, a subscriber whose event keeps being raised is answered, and the comet path implements `EventFeed` |
| `comet_debug_log` | 2 connections, debug records on | finding 1 |
| `managers` | each of the three managers, with 2 playlists and no failures or with 1 playlist, four kinds of change and failures everywhere; contents of up to 2 tracks for AIMP 2.6; fair | checksums, notifications, removal; gathered flags are always scheduled, and acted upon; a check shows AIMP's playlists, keeps no more closed playlists than were opened, and in the end none |
| `mirror_lost_change` | 1 playlist, AIMP 3.6 | finding 2 |
| `timed_methods` | three timers and no removal, three removals and no timer, or one of each; three tracks with a file each or two that name one; AIMP refuses calls, everything fails; fair | only the current timer waits, pausing never starts playback, every timer goes away; the removals' timer has one wait, success is true, a file that is gone went for a call that succeeded, delayed calls are answered |
| `lifecycle` | every place initialization can fail, the manager's constructor early or late; AIMP finalizes the plugin or only deletes it, delivers the timer's message at any time; any first id of a listener | which destructors find what they use, and what AIMP holds of a manager that is gone |
| `listeners_unsubscribe` | 3 owners, 8 ids | finding 3 |
| `covers` | 3 tracks, 2 covers that are recognized and one that is not, 2 sizes, both kinds of manager | the right picture, no file twice in a list |
| `covers_size` | 2 tracks, 3 sizes | finding 4 |
| `requests` | 2 connections, 13 requests (calls, forms with several files of one name, unsupported, empty and text parts, forms that cannot be read, lengths that are 0, wrong or no number, an upload without a form), every cut | how a request is decided does not depend on its pieces; every file is whole and in a temporary file of its own; no temporary file outlives its connection; an upload adds the beginning of its form, all of it when it says so |
| `requests_text` | 1 connection, one text field | finding 5 |
| `requests_empty` | 1 connection, one request with `Content-Length: 0` | finding 6 |

### Bounds

`MaxResponses` = 2 lets a second response on a connection happen, which is what
the properties forbid or (with failures) what the code does. Three connections
let one subscriber stand in front of, and one behind, a subscriber whose send throws.
`MaxQueued` = 2: a second handler of one playlist's timer may stand in the queue
beside the first; a third does nothing the second does not. Playlists of AIMP 3 share
nothing but the io_service, so that two are enough for whatever one does to the other.
For AIMP 2.6 two playlists, of which one is closed while the other is opened, are the
smallest in which the count of playlists hides a closed one. Three timers and
three calls let one be queued, one wait and one come; `Loads` keeps the product of the two small: the
methods share only `serving`, so that one of each is enough for what one may do to the other. Of three tracks
(`Namings`) two name one file or none do. Four ids in `lifecycle`, from any first one, let
the one registration of the plugin fall on the last id before the wrap-around. Three tracks
let a track take over the list of a second that a third goes on using under another; two
sizes, one of which occurs in the other's name, are what a search in names can confuse.

In `requests` a read takes up to 8 symbols and as few as one. The boundary and its line break
have four, so that a piece may end inside a boundary, inside the end of the headers, or contain
a whole part's head; the buffer of the code takes 8192 characters, which is more than a
request here, and longer pieces do what several do or less. Two connections are what it takes
for two parsers to share the directory; each connection object serves one request and is gone,
as in the code. The collector's limit of 16 MB is not reached, and no data stands in front of the
first boundary. AIMP may refuse to add any one of a form's fields, and an exception may come before a
file is copied; that the file system copies and removes what it is asked to is taken for granted. Names have a
few numbers, enough for `a` with a number to be the name of another field; more than ten fields of one
name, where "10" comes before "2", differ in `TextOrder` alone, which the proofs leave open. The run uses the symmetry of
connections, as it checks invariants only; `comet`, `managers` and `timed_methods` use no
symmetry because they check liveness.

### Fairness

Weak fairness of handlers whose operation has completed, of completion of writes
by the operating system, of timers and of the periodic check: the tick polls until the service is
stopped, and time passes. Nothing is assumed of clients or of AIMP, except where
a property says so itself (`EventuallyAnswered` of the comet path is about events
that keep being raised, `ChangesSettle` about playlists AIMP leaves alone, `MirrorSettles` about
a user who does). Every liveness property allows for a stopped service.

## 4. What is proved

For every value of the constants, with no bound on connections, playlists, timers,
calls or ids:

* `CometNotifications_proofs`: types, `HeldForAReason`, `OneDescriptorEach` and `NobodyOvertaken`
  with every failure; `AtMostOneResponse` and `ImplementsFeed` (the step simulation
  of `EventFeed`) for executions in which neither debug records nor reads of AIMP's state make a
  send throw - with them the code does send twice. The properties are not
  inductive: `Bookkeeping` adds that who has a descriptor or an unfinished write is
  held and who is not held has neither; `Counted` that who has a descriptor has been
  sent no response yet; `Fresh` that who is not held has completed all it started. A
  subscriber joins at the end of its list with nothing started, and a notification that
  throws has served a beginning of the list: `NobodyOvertaken` follows.
* `PlaylistMirror_proofs`, for both managers: types; `GatheredFlagsAreScheduled` whatever fails, from
  `FlagsInHelper` (flags imply a loaded playlist with a wait or a handler);
  `ChecksumTellsContent`, `ListenersToldOfMirror` and `RemovedLeavesNothing` for executions in which
  loading does not fail, the first from
  `Faithful`, which relates the checksum of a row to the parts of the checksum object:
  a part that is set is that of the present rows.
* `PeriodicMirror_proofs`: types, `ChecksumOfRows`, `ListenersToldByCheck`, `CheckMirrorsAimp` and the
  action property `GhostsNeedNewcomers`, which counts: closed playlists are looked for unless there are
  as many open playlists as rows, so the rows without a playlist are no more than the playlists without a row.
* `StopScheduler_proofs`: types, `OnlyCurrentWaits`, and `PauseNeverStarts` as an action
  property. `OnlyMadeWait` (a timer that was not made does not wait) is what makes
  the invariant inductive.
* `TrackRemoval_proofs`: types, `OneWaits`, `SuccessMeansGone`, `DeletedForACall`, for any naming of files by tracks.
  `DelayedIsGone` - the entry of a delayed call has left the playlist already - is
  what the success of the timer's handler rests on. That an entry keeps its file is no property: two entries
  may name one file, and the removal of one takes the other's.
* `CoverCache_proofs`: types, `RightCover`, `EveryFileIsServed`. For the first,
  `OneCoverEach`: unless a cover has changed, all files of the list of a track, a hash or a
  path show one cover, that of the track or of the hash or path. For the second, `ListsAreMade` (a track that has
  no list has made none) and `NothingHidden`: of two files in a list the earlier does not
  match the size of the later. It rests on `MatchesItself` - the digits of a size occur in
  the name of its file - which is proved for sizes up to 2000, the limit `GetCover::execute` sets.
* `PluginLifecycle_proofs`: types, `DestructorsFindTheirParts` and `NoCallIntoDestroyed`, for every number of ids
  and every first one, wherever `initialize()` stops - also late in the manager's constructor - and whether AIMP
  finalizes the plugin or only deletes it. The code does not keep either promise in every case, and the
  properties say exactly where it does not: `Abandoned` (a plugin deleted without `Finalize` destroys its io_service
  first) and `Orphans` (what AIMP is left with). `PhasesTell` says which parts a phase may find, `HooksTell` what AIMP may
  hold in it, `EntriesTell` that what is in the registry is the one method's.

* `HttpRequests_proofs`, for any requests, any boundary and pieces of any size: types,
  `DecidedHoweverCut`, `FilesComeWhole`, `TempFilesGone`, `UploadsAddInOrder`. None of them is
  inductive: they speak of what a connection comes to, and say nothing of a parser in the middle of a
  request. `RequestsInv` adds what such a parser is (`ConnectionOK`): after `N` symbols of a
  request it is where `ReadAt` or `Ended` say, a function of the request and `N` alone, so that it does
  not matter where the pieces were cut; its form has the fields of the first parts under the names
  `KeyOf` gives them, all files whole but that of the part being read, which has what `FormAt`
  says (`FormRead`); and what was added and copied is the form's (`AddedOK`). For the directory it adds
  that its files are those the connections' fields have open, each open in one connection only.

  The argument goes from the inside out, and each step is a lemma that the next one uses:
  a round of the form's parser keeps it in order and lowers what is left to do, so its loop ends
  within `EnoughRounds` (`ProcessStepOK`, `LoopEnds`); a piece of data changes no file of another
  parser (`AcceptSomeDataOK`, `DiskStep`); a boundary, or the end of headers, that lies across pieces
  is found where it is, and what a field is given is the next piece of its part's content
  (`PieceOfForm`); the walk over a piece ends where `ReadAt` says (`ParseOK`); the walk over the
  fields adds a beginning of them in the order of their names (`VisitsOK`, `HandleOK`); and the
  steps of a connection leave the files of the others alone (`GoesOK`, `DestroysOK`).

  `DecidedHoweverCut` is about the requests whose end the parser is told (`HasEnd`: no length announced, or one
  above 0); an upload whose form has no parser ends AIMP (`AimpEnds`), and the theorems cover it.

The assumptions are the named ones of the modules (`CometAssumption`, `RequestsAssumption`,
`TextOrderAssumption`, ...), which TLC evaluates in the runs.

Every safety invariant and action property of the passing runs is stated by a theorem. Only
model-checked are the liveness properties - `EventuallyAnswered` of subscribers and of removals,
`ChangesSettle`, `MirrorSettles`, `EachTimerEnds` - which rest on fairness and ENABLED, beyond the installed
provers. The induction theorems of the library, which take an operator as a parameter, are beyond
them too. Where a proof about the parsers needs induction - on the symbols of a piece,
the rounds of a loop, the fields of a form - it is an induction on a set of naturals
(`NatInd`, from `WFMin`), and a recursive function is unfolded by a lemma that states its equation
(`RoundsDef`, `CharactersDef`, `VisitsDef`).
`EventListeners` has no property that holds of it alone (finding 3); as a part of `PluginLifecycle` it is proved
about there.

## 5. Findings

1. **One dead subscriber silences the others** (`comet_debug_log`).
   `methods.h:1115` promises "Sends notification to all subscribers for specified
   event". With debug logging, sending to a subscriber that has reset its connection
   throws, the loop ends and no descriptor is erased: the ones in front are sent a
   second response by the next event, the ones behind none by this one.
2. **A gathered change is forgotten** (`mirror_lost_change`). The timer has expired,
   its handler is queued; another change that comes more than a second after the
   previous one clears the gathered flags and mirrors only itself.
3. **The id of a listener is the next one's** (`listeners_unsubscribe`).
   `registerListener` returns `++next_listener_id_` after inserting under the old
   value, so `unRegisterListener` leaves the listener in the map. With the one listener
   the plugin has this stays without effect, as `lifecycle` shows.
4. **The full-size cover may be a small one** (`covers_size`). The cache looks for the text
   `0x0` in the names of its files and finds it in `..._100x0_...`, the name of a cover that was
   asked for with a width of 100 and the height in proportion. `methods.h:932` says "pass
   zeros to get full size cover".
5. **A text field keeps its last piece** (`requests_text`). `MPFD::Field` appends to a text at a
   length that is never moved, so a radio station's URL that the parser hands over in several
   pieces is added to the playlist without its beginning, and the reply is a success.
   `methods.h:50` says that "Internet radio URL adding to playlist is also supported by using text
   input field type".

6. **A request with an empty content is never answered** (`requests_empty`). After the head of a request with
   `Content-Length: 0` the parser waits for a character of the content, and refuses it when it comes.
   `request_parser.h:28-31` says that `parse` returns "true when a complete request has been parsed" and
   "indeterminate when more data is required".

Observations that no document of the repository denies are in the models without being findings:

* an exception of the form's parser is none that the tick catches (`Threw` in `HttpRequests`);
* an upload that declares a form and no length is handed on without a form's parser, which
  `upload_track_request_handler.cpp:53` then uses (`MissesForm`); the model lets it end AIMP;
* the destructor of a plugin that failed to initialize and was not finalized destroys the io_service before the
  manager and the methods, whose timers belong to it (`Abandoned` in `PluginLifecycle`);
* a manager whose constructor throws after `RegisterExtension` or `Hook` (`manager3.6.cpp:139-151`) leaves AIMP with
  an object that is gone (`Orphans`);
* a timer message that is delivered after `Finalize` finds no io_service (`Tick`);
* after entries were loaded in part, the next check of AIMP 2.6's playlists breaks the assertion at
  `manager2.6.cpp:613-616`, which a build with `_DEBUG` evaluates; `CheckMirrorsAimp` allows for such a mirror,
  and the model is of the build without it;
* AIMP 2's manager returns silently when `AIMP_NewStrings` fails (`manager2.6.cpp:1881`): an upload that is answered with
  a success may be in no playlist. `added` is what managers were asked to add and did not refuse;
* the handler of a timer that was cancelled or replaced acts all the same once it is in the queue, and resets the
  newer timer (`RunHandler` in `StopScheduler`).

## 6. Not modelled, and why

* The digest of authentication, documents, mime types, conversions between RPC values, settings,
  logging and utilities keep no state a step could break: they are functions on
  strings, or file I/O. That a request without credentials changes nothing is part of `HttpRequests`.
* `GetPlaylistEntries` and its users ask the database: order, pages and search are SQL that SQLite
  evaluates, and no state survives a call. The play queue likewise is AIMP's: `GetQueuedEntries`
  loads its table and answers from it within one handler.
* Bluetooth acceptors and SSI pages are alternatives of the same path; track download ends in the
  file transmission that `CometNotifications` has as a phase; the emulation of the web control
  plugin formats the same managers' data for old clients.
* The web client runs in a browser. The modules meet it as clients that subscribe, reset, call and
  upload at any time; what a page misses between a response and its next subscription is not theirs.
* Playback calls of the managers are passed on to AIMP. `TrackRemoval` and `StopScheduler` have
  those that their methods make.
* Vendored code (mongoose, the JSON library, SQLite, FreeImage) is used, not written, here.
* Whether AIMP calls `Finalize` after a failed `Initialize`, and whether it delivers timer messages after
  `Finalize`, is not in the repository; in `PluginLifecycle` it may do either.
