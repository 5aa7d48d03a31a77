# Verification of trashy_server

TLA+ specifications of the two servers in this repository, of the parsers and
helpers they rest on and of the client that loads one of them, with TLC
configurations that check them on small instances and TLAPS proofs about
every component: each safety invariant and each action property the passing
runs check is also a theorem for all values of the constants.

* `trashy_server` (`src/src/main.cpp`, `Server.cpp`, `tool_util.cpp`,
  `script_parse.cpp`, ...) is a single-threaded HTTP server around `epoll`.
* `service` (`src/src/lib/`) is its planned successor: a libev echo server,
  a client that loads it, and an incremental HTTP parser that nothing calls
  yet.

Paths below are relative to `src/src/` unless they start with `src/`.

## Inventory

| Component | State | Operations | What is hard | What makes it correct |
|---|---|---|---|---|
| `core::service`, `serviceinstance`, `mbuffer` (`lib/service.*`) | list of instance pointers; per connection a watcher, a descriptor and the queue `m_wlist` | `listen_accept`, `callback` (`read_cb`, `write_cb`), `signal_cb`, `~service` | callbacks of many connections interleave with peers; partial reads and writes; `delete this` under a running callback; resets; libev errors | each connection is a faithful FIFO echo; `m_wlist` is exactly the unsent part; a watcher never sleeps on a full queue; no instance is lost |
| load client (`lib/test_connection.cpp`) | an epoll set, a descriptor per connection | `start_conn`, `read_once`, `write_bytes`, `close_conn` | several `send()` calls per buffer; a path that fills up; a descriptor used after it was closed; the server going away | no connection is used after it was closed; neither side kills the other; every wait for an answer ends |
| `net::Server` (`Server.*`, `main.cpp`) | listening socket, `connfd`, the batch of events, the stack buffer of `do_somthing` | `config`, `run`, `do_somthing`, `sig_int_Ctrl_c`, five response classes | descriptors are reused within a batch; edge-triggered events; a split request; an error on one connection ends all | one answer per connection, to the request that was made as long as requests are plain; no event lost or given to another connection; only named causes bring the server down |
| `GET_Response` (`Server.cpp`) | the page's descriptor, its status, `buff_`, `sum_n` | `try_open`, the loop of `read()`s, `response` | the page is edited, cut, removed or replaced while it is read; error pages may be missing | the body is of the file of its status; a page at rest is sent whole; `buff_` is overrun only by an edit |
| `rewrite_tool::http_parse` (`tool_util.*`) | method, route, three header values | constructor (`split_`, `setting_attrib`), `set_path`, `make_response` | the buffer is unterminated and holds older requests; the last line that names a method anywhere decides; `request_method` may stay uninitialized; `Content-` lines can throw | a request that names one method is taken for it, and for its own route, whatever it is read over |
| `config_parse::config_file_parse` (`script_parse.*`) | pairs of the file, `root_dir`, `pages_path`, `static_path`, port | constructor (`load_file_to`, MD5), three getters (`parse_setting`, `check_dir`) | settings depend on the order of lines and on earlier getters; missing files; throwing substrings | the pages are looked for where the file says |
| `core::parse::http_parse` (`lib/http_parse.*`) | two cursors into the caller's buffer | `parse_request` (`check_line`, ...) | called again as more arrives; a line end split between two calls | the cuts do not depend on how the request arrived; the cursor stays in the buffer |
| `rewrite_tool::MD5` (`tool_util.*`) | block buffer, counters, compression state | `reset`, `update`, `final`, `digest` | bytes left over between updates; `final` runs through `update` | the digest is of the message's own bytes and can be asked for again |
| directory search (`templates/search_dir.hxx`) | a global stack of `DIR *`, a found flag | `search_file`, `search_file_ignore_extension`, `list_them`, `release_dir` | recursion over a global stack; exceptions out of it | the answer is right; a directory is closed once |
| sockets (`creat_socket.*`, `lib/socket.*`) | a descriptor, an address | the constructors, `bind`, `listen`, `setnonblocking` | failures are reported and ignored; `TIME_WAIT` after a restart | a server that runs listens where it was asked to |
| `time_hp`, `status_code.h`, `log.h`, `test_module/` | none | formatting | | |

Interaction: `main` constructs a `Server`, drops the result of `config()` and
calls `run()`. `Server::run` calls `do_somthing`, which constructs an
`http_parse`, whose handlers construct a response and a `config_file_parse`
for every GET and PUT (twice: `set_path`, then `try_open` or `try_write`). All
of it runs in one thread and blocks it. In `lib/`, libev calls
`service::listen_accept` and `serviceinstance::callback` from one loop, and
the load client is the peer at the other end of its connections.
Concurrency is between each such thread and the kernel, its peers, signals and
whoever edits `src/site_enable/default.conf` or the pages.

`PROJECT.json` lists the hazards line by line with the properties on them.

## Modules

| Module | Models | Used by |
|---|---|---|
| `Echo` | abstract: every connection is a FIFO byte echo | `Service` (refinement) |
| `Service` | `lib/service.cpp`, `lib/service.h` | `MCService`, `LoadClient` |
| `LoadClient` | `lib/test_connection.cpp`, as all the peers of `Service` | `MCLoadClient` |
| `OneShot` | abstract: a connection is accepted once and closed with at most one answer | `Reactor` (refinement) |
| `Reactor` | `main`, `Server::run`, `do_somthing`, `make_response` and its handlers | `MCReactor` |
| `RequestReading` | what `http_parse` and `set_path` can come to, given what is in the stack array | `Reactor`, `HttpRequest` |
| `HttpRequest` | `http_parse` of `tool_util.cpp`, line by line | `MCHttpRequest` |
| `GetResponse` | `GET_Response` against a changing page | `MCGetResponse` |
| `Startup` | constructors, `config()`, `main` up to the first `accept()`; `net::socket` | `MCStartup` |
| `Config` | `config_file_parse` | `MCConfig` |
| `LineParser` | `lib/http_parse.cpp` | `MCLineParser` |
| `Md5Buffer` | `rewrite_tool::MD5` without its arithmetic | `MCMd5Buffer` |
| `SearchDir` | `templates/search_dir.hxx` | `MCSearchDir` |
| `ServiceProofs` | theorems about `Service` and `LoadClient` | |
| `ToolUtilProofs` | theorems about `SearchDir` and `Md5Buffer` | |
| `ReactorProofs`, `HttpRequestProofs`, `GetResponseProofs`, `StartupProofs`, `ConfigProofs`, `LineParserProofs` | theorems about the module each is named after | |

Operators whose comment starts with *Fault* are not part of a specification:
each is a plausible bug in the definition it stands next to, named under
`mutants` in `PROJECT.json`, and shows that the property it is listed with
would notice.

### Service

One action is one callback of libev: the thread runs a callback to its end, so
nothing can happen in between except what the peer does to the socket, and
`recv()` and `write()` read that state when they are called.

| Code | Model |
|---|---|
| `listen_accept` | `ListenAccept`; a failing `accept()` changes nothing and has no action. `new` returns any address no live instance has, an old one included |
| `callback` with data, or nothing, to read | `CallbackServe`: `read_cb` (`QueueAfterRead`), `write_cb` (`WriteNothing`, `WriteSome`, `WriteToReset`), then `m_io.set` (`Interest`) |
| `callback` at end of file | `CallbackEof`: `delete this`, after which the process goes on or its behaviour is undefined |
| `EV_ERROR` | `ListenError`, `CallbackError`: libev has stopped the watcher, the callback returns |
| `signal_cb`, `run` returning, `~service` | `SignalCb`, `Destroy` |
| `m_wlist` | `wlist[c]`, a sequence of records `from`, `len`, `curs` |
| the bytes | positions: byte `i` of a connection's input is `i`, `out[c]` is what `write()` accepted |

`Written` is computed from the front buffer's `dpos()`, not from the length of
`out`, so a wrong cursor, a popped half-written buffer or a reordered queue
does show in `out`. The peer (connect, send, read, half-close, reset) and the
pending socket error are external and follow TCP: a reset before a FIN leaves
`ECONNRESET`, which the next call returns once; after a FIN it leaves `EPIPE`.
`SIGPIPE` is not handled anywhere and ends the process (`proc = "killed"`).

### LoadClient

`LoadClient` EXTENDS `Service` and closes it: the external peer is replaced by
the client's own code, and the server's actions are used as they are.

| Code | Model |
|---|---|
| `start_conn` | `StartConn`: `connect()` may fail, then `addfd` for both events |
| `epoll_wait`, the loop over its events | `ClientWait`, then `ReadOnce` or `WriteBytes` for an event of the batch |
| `write_bytes` | `WriteBytes`, then one `SendSome`, `SendToGone`, `SendFails` or `SigPipe` per `send()`: between two of them the server may move, or go |
| `read_once`, `EPOLL_CTL_MOD`, `close_conn` | `ReadOnce`, `arm[c]`, `CloseConn` |
| the server's exit as the client sees it | `ServerGone`, after which `link[c]` is a FIN or a reset; echo for a closed descriptor is answered with one (`LateEcho`) |

`PathBuf` is what the two kernels hold between `send()` and the server's
`recv()`: a `send()` that finds it full takes part of the buffer, the next one
fails with `EAGAIN`, and the client takes that for an error. The sleep of 20
seconds and the number of connections of its command line are left out.

### Reactor, RequestReading and HttpRequest

`pc` is where `run()` is. `EpollWait` takes a batch of at most `MaxEvent`
events, any of the ready ones in any order, or fails and ends the process
(`EpollWaitFails`: `EINTR` is not excepted); `AcceptOne` and `Read` handle its
head; `Respond...` are the handlers, which always end in `close()` or not at
all. Outcomes that end service are states of `proc`: `exit_failure`, `aborted`
(an exception nothing catches), `killed` (`SIGPIPE`), `undefined`, and `hung`
for the endless loop over a configuration file that cannot be opened. A reply is
`[by, extent]`: the handler, and whether its single `write()` carried all of it,
some of it, or nothing. A page's own descriptor is opened and closed inside a
handler and is not part of `fd`.

Every handler but GET's can end the server by itself, and the model has it so:
PUT always throws, HEAD copies from behind an array, DELETE makes a string of an
unterminated array (`Server.cpp:185`), POST reads the last character of a string
that is empty without a `Content-type:` (`Server.cpp:391`). Where that is
undefined the process may also go on.

Request text is reduced to how much of it came in (`sent`: nothing, a part, the
whole) and the kind of the request. A request is *plain*, and its kind is its
method, when the parser can find nothing in it but the method it begins with: no
route or header that names a method (a path like `/POSTER.html` does), no
`Content-length:` or `Content-type:`, a route, no `?` or `%` in it, no NUL. All
others, and two requests in one `read()`, are of the kind `"OTHER"`, of which
anything can come. `stale` is what earlier requests left in the stack array of
`do_somthing`, which is neither cleared nor terminated: `"garbage"` before the
first, the method of the last one as long as plain requests only have been read
and whole, and `"mixed"` from the first other request, or part of one, for ever
after, because what it named may surface behind any shorter one.

`RequestReading` is this account: `Parsed` says what can come out of a call,
`Left` what is in the array afterwards. A plain request over what plain ones left
is read as itself; a `read()` of nothing finds the last one again; everything
else may come to any method, to an exception or to undefined behaviour.

`HttpRequest` has the array itself: a sequence of words, separators and line
ends, over which each call puts what arrived (`Overlaid`). `Split`, `RouteOf`,
`MethodsOf`, `Described`, `SetPath` and `Outcomes` are `split_`, the
constructor, `setting_attrib` and `set_path`; routes and headers may name
methods, and headers may be `Content-` lines with and without a value. Its
history variable `old` is computed with `Left`, and `WithinReactorReading` says
that reading line by line never comes to anything outside `Parsed`: that ties
the two modules together. Lengths of words are not modelled: how much of the old
text a new one covers is any remainder of it, cut within a word or a line end as
well (`Remainders`), but always its first word, which is shorter than any
request; where a part of a request meets the old text, the two halves make any
word (`Joined`).

What is assumed is in the comment of `RequestReading`: before the first call the
array names no method and ends in a NUL. Peers send request lines with a method
or another word, a route or none, and a version, separated by single spaces;
other text is not modelled.

### GetResponse

A byte of a page is the number of the edit that wrote it, so that the body
shows which version each part is of. `TryOpen` is the `switch` of `try_open`
(every error without a case is a 404, a missing descriptor included, and the
page of an error may itself be missing), `ReadChunk` one `read()` of the loop,
`WriteAndClose` its end. `Edit` writes the page in place or cuts it, `Replace`
puts another file, or none, in its place between any two of these. The header
in front of the body and the final `write()` are `Reactor`'s reply.

### Startup

Any number of `net::Server` and `core::service` processes start, end and start
again on the same host. `Construct`, `Bind`, `Listen`, `Register` and then
`Serve` or `AcceptFails` are what each does in turn, every system call failing
or not; `lingering` are the ports whose connections are in `TIME_WAIT`, which
`bind()` without `SO_REUSEADDR` refuses. `listen()` on a socket that was not
bound takes a port nobody knows (`"anywhere"`). `status` is what `config()`
returns and `main` drops. `Server(ip, port)` makes a second `Creat_socket` that
is gone when the constructor returns, and the address is `DEBUG_PORT` in any
case.

### Config

`LoadLine` is one round of the loop of `load_file_to`, the getters are one
action each and run `parse_setting` over the pairs, on top of what the object
holds. Paths are sequences of `"/"`, `"."` and names (`Names`); `check_dir` and
`parse_setting` are the code's own loops, as recursive functions of the number
of rounds. A key is the set of words `regex_search` finds in it.
`calcul_file_md5` reads the same file and leaves a sum nothing compares. A
file that cannot be opened is in `Reactor`. The port of the file is loaded but
no caller asks for it: the socket uses `DEBUG_PORT`
(`creat_socket.cpp:30`), so nothing depends on it.

### LineParser

The buffer grows one character at a time; after any of them the caller may
call `parse_request`, whose rounds are the actions `RoundOk` and `RoundEnd`. A
character is CR, LF or any other. `parse_requestline` (when it finds its
separator) and `parse_header` end without a `return`: they give back any code.
The code compares the *offset* of the character behind a CR with `'\n'`; the
constant `Newline` is that number, 10.

### Md5Buffer and SearchDir

`Md5Buffer` keeps the whole object but for the arithmetic of a round: the state
of the compression is the sequence of blocks it was given. A cell of a block is
a byte of a message, padding, the length, or what was there before. `update`
never copies a tail shorter than a block (`Fed`), and `final` calls `update`
itself; both are as in the code, and `DigestOfOwnBytes` and `DigestRepeats`
say what still holds of the digest. (Its initial states, steps and specification
are called `Md5Init`, `Md5Next` and `Md5Spec`, because `ToolUtilProofs` has both
modules.)

`SearchDir` has one call of `list_them` per element of `calls`; `ReadFile`,
`ReadSubdir` and `Return` are the entries `readdir()` gives, in any order, and
`ReleaseDir` one `closedir()`. `opendir()` may fail, which throws out of the
recursion. No request reaches this code today: every PUT ends the process
before (`Reactor`, `RespondPut`). A second search is one more call of the same
functions, and after an exception it is what they would do for a caller that
catches it; this program has none.

## Runs

| Run | Instance | Checks |
|---|---|---|
| `service` | 2 connections, 2 addresses, 2 bytes each, reads of 2, send buffer of 1, 1 descriptor, fair | `EchoFidelity`, `QueueHoldsGap`, `ArmedIffQueued`, `DownNeedsHangUp`, `ImplementsEcho`, `EchoedEventually`, `AcceptedEventually` |
| `load` | 2 connections, 4 bytes each in buffers of 2, reads of 2, send buffer of 1, path of 2, fair | `NoUseAfterClose`, `NeitherKillsTheOther`, `TeardownReachesAll`, `NoMutualWait`, `ClosesOnlyWhenStuffed`, `RoundTripEnds` |
| `reactor` | 2 connections, GET and HEAD, 2 descriptors, batches of 2, fair | `OwnRequestServed`, `DownNeedsCause`, `NoStaleDispatch`, `NoEdgeLost`, `ImplementsOneShot`, `EventKeepsItsConnection`, `ServedEventually`, `AcceptedEventually` |
| `reactor_restart` | 1 connection, GET | `RestartUnnecessary`: violated |
| `http_request` | GET and POST, routes `/`, one that names POST, one with a `?` and none, up to 1 `Content-` line without a value, 1 part of a request, 9 cells | `LeftoverAccounted`, `WithinReactorReading`, `OwnRouteTaken` |
| `get_response` | pages of up to 5 bytes, `MAXLINE` of 3, 4 edits | `OverrunNeedsEdit`, `BodyOfStatus`, `WholePageSent` |
| `startup` | 2 `net::Server`s and a `core::service`, 2 ports, fair | `StatusTellsReach`, `DeafServerEnds` |
| `config_paths` | files of up to 3 of 16 lines, 3 calls | `PagesWhereTheFileSays`, `NoDoubledSlash`, `AnswersSettle` |
| `config_comments` | files of up to 3 lines | `CommentsHarmless`: violated |
| `lineparser` | requests of up to 12 characters | `CursorsInBounds`, `ChunkInsensitive`, `NothingMissed` |
| `md5` | 2 messages of up to 10 bytes, blocks of 4, of which the length takes 2 | `DigestOfOwnBytes`, `DigestRepeats` |
| `search_dir` | every tree of 4 directories, 3 names, 2 searches | `FoundIffThere`, `ClosedPerSubdirectory` |

Why these bounds reach the interesting cases:

* Service: a chunk of two bytes against a send buffer of one forces partial
  writes and writes that find no room, and single bytes read in turn make
  queues of several buffers; two addresses let `malloc` hand out one that is
  still in `m_instance`; one descriptor makes the second connection wait for
  the first to hang up.
* LoadClient: two descriptors have two instances live at once; a path and
  chunks of two bytes make a `send()` take part of a buffer; four bytes are
  two round trips.
* Reactor: with two connections a request meets the buffer contents of the
  other; batches of two hold the listening socket and a connection, or two
  connections, and a descriptor is closed, reused and reported within them. A
  part of a request over old contents reaches the handlers of the other methods,
  exceptions and undefined behaviour. `accept()` running out of descriptors with
  a connection waiting needs a third one, and the other kinds of requests as
  peers' own are more than an instance of this size can hold: `ReactorProofs`
  covers both for all constants.
* HttpRequest: nine cells hold a request with a header line, or the shortest
  one (six cells) in front of the line that the rest of an older route makes with
  its separators: `GET /` over what `GET /...POST...` left is read as a POST, and
  over a `Content-` line it throws. `MaxParts` bounds how often a part of a
  request is read; after the first, `old` is `"mixed"` in any case.
* GetResponse: five bytes are a whole buffer and a part of the next; the
  second `read()` and an edit between the two is what the properties are about.
* Startup: three processes and two ports let two compete for one port while a
  third, restarted, leaves it in `TIME_WAIT`.
* LineParser: `Newline` is the real value, so lines are accepted at offset 9,
  and twelve characters leave room for the LF branch, which needs a CR behind
  the character the cursor skipped.
* Config: three lines hold every order of two settings around a third, and
  three calls show the object reach its fixed point.
* Md5Buffer: ten bytes are two blocks and a tail of two; with a length field
  of half a block, both ways of padding come up.
* SearchDir: four directories make chains, siblings and both below each other.

`startup` and `md5` are checked for deadlock. The others are not: a server that
has exited, and a peer, a file or a search that has nothing left to do, really
stop.

### What the violated runs show

* `reactor_restart`: `default.conf:2` says "There is unnecessary to restart
  the server when changed the file". A GET that arrives while the file is
  missing, as it is for a moment when an editor replaces it, never comes back:
  `load_file_to` loops on `!eof()` of a stream that was never opened
  (`script_parse.cpp:152`). The file coming back changes nothing.
* `config_comments`: `default.conf:1` says "With the `#` behind all comments".
  A comment behind spaces is cut to the spaces, and `substr(1)` of what is
  left throws (`script_parse.cpp:184`).

### Fairness

* `Service`: libev calls back every watcher whose events are ready in each
  iteration, so `Callback(c)` and `ListenAccept` are weakly fair, and `run()`
  returns after `break_loop()` (`Destroy`). `EchoedEventually` also needs a
  peer that reads what it is sent (`PeerRead`). Peers that send, hang up or
  reset, errors and signals are never assumed.
* `LoadClient`: the client's loop runs, the service's callbacks are called, and
  the kernel tells the client when the server is gone (`ServerGone`). Nothing
  is assumed about which connections `epoll_wait` reports.
* `Reactor`: `WF_vars(Loop)`: the one thread keeps running. It is weak fairness
  of the whole loop, not of its branches. Nothing is assumed about which ready
  connections `epoll_wait` reports or in what order: every connection is opened
  once, so events are finitely many and the turn of each comes.
* `Startup`: a process that was started goes on: `Bind`, `Listen` and
  `Register` are weakly fair, and so is the failing `accept()` of a socket that
  does not listen. Nobody has to start a process or to end one.

The liveness properties excuse a connection once the process goes down, its
watcher failed, or (for `Service`) all descriptors are held by connected peers.

## Proofs

Every theorem is of the specification without fairness and holds for all values
of the constants. The only assumptions are the `ConstantsOK` of each module
(`ClientConstantsOK` of `LoadClient`, `Md5ConstantsOK` of `Md5Buffer`): bounds
are naturals, buffers are not empty, lines are made of the words and paths of
the module, the length takes a part of a block, and values that stand for "none"
are no members of the sets they stand beside.

| Module | Theorems |
|---|---|
| `ServiceProofs` | of `Service`: `Invariance`, `TypeCorrect`, `QueueCorrect` (`QueueHoldsGap`), `EchoCorrect` (`EchoFidelity`), `Refinement` (`ImplementsEcho`), `TeardownCorrect` (`TeardownReachesAll`), `ArmedCorrect` (`ArmedIffQueued`), `DownCorrect` (`DownNeedsHangUp`); of `LoadClient`: `ClientInvariance`, `CloseCorrect` (`NoUseAfterClose`), `LoadInvariance`, `LoadEchoCorrect` (`EchoFidelity`), `LoadTeardownCorrect` (`TeardownReachesAll`), `KillsCorrect` (`NeitherKillsTheOther`), `WaitCorrect` (`NoMutualWait`), `GiveUpCorrect` (`ClosesOnlyWhenStuffed`) |
| `ReactorProofs` | `Invariance`, `TypeCorrect`, `DispatchCorrect` (`NoStaleDispatch`), `EdgesCorrect` (`NoEdgeLost`), `EventCorrect` (`EventKeepsItsConnection`), `AnswerCorrect` (`OwnRequestServed`), `DownCorrect` (`DownNeedsCause`), `Refinement` (`ImplementsOneShot`) |
| `HttpRequestProofs` | `Invariance`, `LeftoverCorrect` (`LeftoverAccounted`), `ReadingCorrect` (`WithinReactorReading`), `RouteCorrect` (`OwnRouteTaken`) |
| `GetResponseProofs` | `TypeCorrect`, `OverrunCorrect` (`OverrunNeedsEdit`), `StatusCorrect` (`BodyOfStatus`), `PageCorrect` (`WholePageSent`) |
| `StartupProofs` | `TypeCorrect`, `StatusCorrect` (`StatusTellsReach`), `SocketCorrect` |
| `LineParserProofs` | `CursorsCorrect` (`CursorsInBounds`), `MissedCorrect` (`NothingMissed`), `ChunkCorrect` (`ChunkInsensitive`) |
| `ConfigProofs` | `Invariance`, `PagesCorrect` (`PagesWhereTheFileSays`), `SlashesCorrect` (`NoDoubledSlash`), `AnswersCorrect` (`AnswersSettle`) |
| `ToolUtilProofs` | of `SearchDir`: `Invariance`, `TypeCorrect`, `FoundCorrect` (`FoundIffThere`), `ClosedCorrect` (`ClosedPerSubdirectory`); of `Md5Buffer`: `Md5Invariance`, `Md5TypeCorrect`, `DigestCorrect` (`DigestOfOwnBytes`), `RepeatCorrect` (`DigestRepeats`) |

**Service.** `EchoFidelity` says nothing about the queue and is not inductive: a
write could follow a queue that holds the wrong bytes. The inductive invariant
is

    IInv == TypeOK /\ BacklogFresh /\ StreamOrder /\ QueueHoldsGap

where `QueueHoldsGap` says that the queued buffers are, in order, exactly the
bytes from the last one written to the last one received; `StreamOrder` that
written <= received <= sent and that what was written is 1, 2, 3, ...; and
`BacklogFresh` that a connection in the backlog is there once, has no instance
and has had nothing read or written, so that `ListenAccept` starts it with an
empty queue over an empty gap. `QueueAppend` and `QueueWrite` are the two
lemmas about sequences that carry the argument: queueing the next chunk and
writing `k` bytes from the front both keep the queue contiguous. For the
refinement, a second invariant, `ConnectedLive`, is needed: while the server
runs, an accepted connection whose peer is connected has its instance, so that
what its peer sends is fed to an open connection of `Echo`.

The properties of instances, watchers and the process (`TeardownCorrect` and the
two after it) are inductive on top of `IInv`. For
`DownNeedsHangUp` the argument is that a connection deleted at end of file stays
so (`HungUpStays`: its descriptor is not used again and its peer sends nothing
more), and that without one every entry of `m_instance` is a live address
listed once (`AcceptKeepsGood`: `new` returns none that is in use). A reset that
kills the process finds bytes queued, and by `QueueHoldsGap` those are bytes
received and not written (`KilledByReset`).

**LoadClient.** The client sends and takes several bytes at a time, so its
behaviours are not behaviours of `Service`: `Stride` names what such a step may
change, `ServiceSteps` shows that every step is one of the service, one of its
peers' or a stride, and the step lemmas of `Service` are reused for the first
two. `ClientInv` is the client's own invariant, and `LoadInv` puts it together
with `Service`'s and with `EndsAgree` (what the client did to a connection is
what the server's end has seen of it) and `ReadDue` (an `EPOLLIN` of the batch
is still true when the loop gets to it). `NoMutualWait` is what a deadlock of the
two would violate: that a connection waiting for an answer is owed one (`Owed`,
inductive on top of `LoadInv`) leaves a byte in front of `recv()`, in `m_wlist`
or in front of the client, and by `ArmedIffQueued` and `QueueHoldsGap` whoever
has it there is armed for it. That the one whose turn it is then moves is
`RoundTripEnds`, with fairness.

**Reactor.** `IInv == Struct /\ DownNeedsCause`. `Struct` has the types, the
backlog, what each stage of a connection means for its descriptor and its
events, `NoStaleDispatch`, `NoEdgeLost`, what is known of the request being
answered, and `OwnRequestServed`. `ParsedFacts` and `LeftFacts` are what it takes
from `RequestReading`, which `HttpRequestProofs` ties to the text. `NoStaleDispatch` alone is not inductive: that
a batch names no descriptor closed by an earlier event of it needs that its
entries are distinct and that a connection's edge is either still to be
reported or in the batch, never both. For the refinement `StepCases` says what
any step can do to descriptors and answers: close the current connection,
accept one, end the process, or nothing.

**HttpRequest.** `IInv` is the account of `RequestReading` stated of the array:
as long as `old` is not `"mixed"`, no word behind the first says anything
(`Quiet`), and as long as it is a method, the array has a line, begins with the
method and has a route that ends nothing. `WholeOver` and `PartOver` show what a
request of any length leaves over an array of any length (`RemainderFacts`: the
rest of a text that says nothing says nothing, wherever it is cut),
`RouteOfLine` that the first line decides the route, `OwnMethod` that a quiet
array is read as what it begins with, and `OutcomeRange` what the constructor
can come to at all. No theorem restricts the routes: one that names a method is
not plain, and what it leaves is `"mixed"`.

**GetResponse.** `IInv == PagesOK /\ AnswerOK /\ ProgressOK`; the last says that
what was read so far of a page nobody edited is its beginning, in steps of
`MAXLINE`, which bounds the offset of every further `read()`.

**Startup.** `IInv` says for every process what its stage implies about its
descriptor, its port, whether it listens and its status.

**LineParser.** `IInv` bounds both cursors by the end of the buffer and says
that no CR LF was passed over (`Skipped`). `ResumesWell` is what makes the parser
resumable: from the start of the line and from the cursor `check_line` finds the
same. `LineStarts` of a buffer is closed under the next line end and stays when
more arrives (`StartsClosed`, `StartsStay`), so the start of the line stays in it.

**Config.** The three properties speak of what getters returned, after any
number of calls that each parse the settings again over what the last one left;
none of them is inductive. `IInv` adds what ties the object to the file:

* `PairsFromFile`: `path_KV_data` is made of lines of the file in their order,
  and no line with a word is missing. It is stated of a function from pairs to
  lines, which `LineRead` extends by one line.
* `Clean`: from a tidy file no path in the object has a doubled slash. A round
  of the loop of `check_dir` steps over the slash it leaves, so a run of three
  comes to two; `CheckDirSingle` needs, and `JoinTriple` provides, that two
  clean paths joined have no run of three.
* `Settled`: after the first call the root directory is one that every further
  `parse_setting` arrives at again (`RootSettled`), and so the answer of
  `get_pages_path` is that of all calls but the first (`PagesSettled`).
  `TwoParses` is the reason: over the same pairs two settings come to the same
  root directory, or each keeps its own.

For `PagesWhereTheFileSays` a path is compared up to runs of slashes (`Normal`).
`NormalSame` shows that taking out one of two slashes in a row does not change
the place, wherever they are in the path; with it `check_dir` and `WithSlash`
lead to the same place (`NormalCheckDir`, `NormalWithSlash`), and `ParsedPlace`
follows the loop of `parse_setting` past the last location and the last
directory of pages behind it.

**SearchDir.** `IInv == WalkInv /\ StackInv`. `WalkInv` is about the walk: every
subdirectory of a directory the search has opened was opened too or is yet to be
read by the call that lists it (`Walked`). When no call is left, every directory
was opened: the first that was not would be in one that was (`AllEntered`).
`StackInv` is about the handles: what is open is a leaf, on the stack or being
listed, and what is on the stack twice, or closed and on it, has two
subdirectories (`StackOK`), which is what `closedir()` is undefined for.

**Md5Buffer.** `Md5IInv` adds to `DigestOfOwnBytes` where the bytes were before
they were hashed: the compression was given the whole blocks of the message in
order (`BlocksInPlace`), and `__buff` holds nothing older than the message once
it had a block (`BuffOwn`; `reset()` does not clear it). `FedInPlace` is the
step of `update()` with its division of any input into blocks of any length, and
`FinishedBlocks` says what `final()` makes of any object: one block more, or
two, of which only the end is new. `FinishedAgain` follows from it, and is what
`DigestRepeats` rests on (`SameAgain`): what `final()` leaves in `__buff` is
behind what a second one takes from it, as long as the message ends in front of
the last `LenLen` bytes of a block, or where they begin.

The provers cannot use the library's induction theorems, which take an operator.
Where a definition is recursive, as the loops of `check_dir`, `parse_setting`
and `LineStarts` are, the induction is over the set of the rounds for which a
fact holds: it has 0 and with each round the next, so it has all of them
(`UpToN`, from the smallest counterexample), and that the recursive function
exists is proved in the same way (`Rounds`).

Checked by TLC only: the liveness properties (`EchoedEventually`,
`AcceptedEventually`, `ServedEventually`, `RoundTripEnds`, `DeafServerEnds`), which are out of the prover's reach, and the two violated
ones.

## Not modelled

* `time_hp`, `status_code.h`, `log.h` and `test_module/` (a client that prints
  one answer): formatting, and no state the servers depend on. The texts of
  headers are abstracted to the handler that made them; that `tm_buf` and the
  status text point into strings that are gone when `sprintf` reads them
  (`Server.cpp:168`) changes nothing but that text.
* The arithmetic of MD5 and its hexadecimal text, fixed for every block.
* `PUT_Response` behind the exception every PUT ends in, except the search.
* `connect()` and `setip()` of `net::socket`, and the `http_parse` constructor
  from a `std::string`: nothing calls them.
* Requests larger than `MAXLINE`, and single words that name several methods:
  such requests are of the kind `"OTHER"`. Words of a `Host:` or `HTTP/1.1`
  line that would hide a `Content-` word in the same line.
* `fcntl()` and `epoll_ctl()` failing for a connection that was just accepted
  (the second ends the process, as `accept()` does), and the `EPOLL_CTL_MOD` of
  the load client on a descriptor it has closed, which fails and is not looked at.
* Memory exhaustion: `new` succeeds.

Met while modelling, but contradicted by no statement of the repository, and
so in the models as they are: `Server(ip, port)` listens at `DEBUG_PORT`
whatever it is given; the sum of a file leaves out what follows its last whole
block; a file without `html_pages` makes `*rbegin()` read in front of an empty
string (`script_parse.cpp:42`); `check_line` compares the offset of a character
with `'\n'` (`lib/http_parse.cpp:71`).

## Plan

What is left, in order of weight:

1. A `POST` that reaches a program of its own, once the handlers of POST, PUT
   and DELETE do more than end in an answer or an exception.
2. The composition of `core::parse::http_parse` with `core::service`, when the
   service calls it: `LineParser`'s arrivals would become `Service`'s chunks.
