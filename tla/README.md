# Moai in TLA+

TLA+ models, model-checking runs and proofs for Moai, the web server and local
proxy in `src/src`. The first part is the inventory of the system, the second
the plan; the rest says what each module models, what the runs check, and what
is proved. Source paths below are relative to `src/src/`.

## 1. Inventory

Moai listens on a port of the user's machine (`libMoai`, started by
`moai/main.c`). A browser that uses it as its proxy has its requests filtered,
rewritten and passed on, directly or through a parent proxy; a browser that
talks to it as a host gets pages, forms and CGI programs. `birdman` upgrades
and restarts it. Everything is one process with one thread: concurrency comes
from the sockets, from the order in which `select` reports them, and from
callbacks that change tables which a loop further up the stack is walking.

| Component | State it keeps | Operations | Interacts with |
|---|---|---|---|
| `Moai_connection` | `st_connection_ary` of `MoaiConnection` (I and O socket, in-progress flag, callback, lists of request ids) | `regist`, `connectO`, `find_byISock/OSock`, `invokeCallback`, `clear`, `erase`, `clearAll` | closes sockets and withdraws them from `Moai_fdset`; owns ids of `Moai_info` |
| `Moai_fdset` | `fdst_observe_r_/w_`, `connecting_socks_`, two reserve lists, a scratch array | `select`, `process` (accept, completed connects, readable), `procConnectionTimeout`, `removeConnectingSock` | calls `on_accept` and `recv_and_send`, and the connected callbacks |
| `Moai_io_base` | none | receive by size, by pattern, until zero; `close_ISock/OSock/closeSocketAll`; `procExile` | closes through the table |
| `Moai_server` | the one `MoaiContext` (`as_local_proxy_`, `draft_info_`, buffers), the listening sockets | `MoaiServer_main`, `recv_and_send`, `scanHttpFirst`, `doLocalProxy`, `sendOnConnected_GET/POST/CONNECT` | everything |
| `Moai_info` | array of `MoaiInfo` by id | `regist`, `find`, `erase`, `parseHdr` | ids are held in the connections' lists |
| `Moai_http`, `Moai_post` | none | headers, chunks, POST bodies, the user's confirmation of a POST | read from I and O sockets |
| `Moai_web_server`, `Moai_cgi`, `Moai_cgi_manager` | CGI manager's table; configuration | pages, configuration, CGI | may close all connections, restart server or process |
| `Moai_server_info` | configuration | load and save | read by all |
| `moai/main.c`, `birdman` | files: configuration, authentic key, versions | restart loop, hand-over | processes replacing each other |
| `libRano`, `libZnk` | none shared, except module tables | filters, containers, strings, sockets | used by all |

Not part of the running server: the CGI applications (`easter`, `custom_boy`,
`proxy_finder`, `cgi_developers`, `guest`), the plugins, the build tools and
vendored libraries.

What makes it correct, and hard to test:

* *Connection table.* A socket belongs to one record, as I or as O; a record in
  the table holds open sockets only. Sockets are numbers which the kernel reuses
  at once, records of departed browsers are taken over for new ones, and both
  happen in callbacks.
* *Descriptor sets.* `select` is given open sockets only; no socket is
  forgotten; `connecting_socks_`, `fdst_observe_w_` and the in-progress records
  agree; the number of sockets is limited.
* *The loops.* The sockets a pass serves, and the connects it completes, are
  copies taken before the handlers change the originals.
* *Handlers.* One connection's failure leaves the others alone. `as_local_proxy_`
  is shared by all of them.
* *Requests.* Each request is sent once, to the server it is for, in the order
  it came; a POST that waits for the user is not sent before Send is pressed; a
  response is paired with the request it answers. A connection serves one host
  after another, and a callback works through a list that other requests joined.
* *Framing.* A response ends where its length, its chunks or its connection say,
  however the bytes are cut by `recv` and whatever fails under way.
* *Upgrade.* moai and birdman replace each other and share files that nothing
  locks: the authentic key, a flag, birdman's directory, the state the page
  polls. moai comes back, with the key its pages have, and the report says what
  was done.

`PROJECT.json` lists the hazards with their lines.

## 2. Plan

In order; each module says which part is composed with which.

1. `MoaiServer` - event loop, table, descriptor sets, handlers. **Done.**
   `MoaiServer_proofs` - type correctness and ownership, nothing leaks, handlers
   do not interfere, the fd_set does not overflow;
   `MoaiConnecting_proofs`, `MoaiWatched_proofs` - connects in progress, no deaf
   socket, no closed one in `select`. **Done.**
2. `MoaiPipeline` - the requests of a connection: pending ids, invoked ids,
   response index, the NULL callback of a POST that waits for confirmation.
   Its promise is the abstract module `RequestQueue`, which it refines. **Done.**
   `MoaiPipeline_proofs` - types, right host, nothing stranded, response index;
   `MoaiTunnel_proofs` - registry and tunnels; `MoaiQueue_proofs` - the
   refinement. **Done.**
3. `MoaiResponse` - where a response ends: `content_length_remain_`, chunks,
   receive by size, by line and until zero, checked against the conversation the
   server meant. **Done.** `MoaiResponse_proofs` - types, what the browser has,
   the length that remains, nothing held back. **Done.**
4. `MoaiUpgrade` - the processes moai and birdman, the authentic key and the
   upgrade, with crashes and faults between the steps. **Done.** `MoaiUpgrade_proofs` -
   types, the key, the report. **Done.**
5. Left: the array of MoaiInfos against an abstract map; the CGI manager's
   table.

No module meant for proof declares a RECURSIVE operator.

## 3. `MoaiServer`

One action stands for each step of the single thread between two points where
the outside world or another part of the program can differ:

| Actions | Code |
|---|---|
| `SelectReady`, `SelectError`, `SelectTimeout` | `MoaiServer_main`, `MoaiFdSet_select`, `MoaiIO_procExile`, `MoaiFdSet_procConnectionTimeout` |
| `AcceptDeny`, `AcceptAllow`, `AcceptDone` | first phase of `MoaiFdSet_process`, `MoaiConnection_regist` |
| `ConnectingNext/Ready/Unknown/Done`, `Completed` | second phase, with its copy of `connecting_socks_`, marking and compaction |
| `Callback*` | `MoaiConnection_invokeCallback` and `sendOnConnected_GET/POST/CONNECT` |
| `ReadKnown`, `ReadUnknown`, `Scan*` | `recv_and_send` and `scanHttpFirst`: what the bytes turn out to be |
| `PostBodyCut`, `Connect*`, `Connected`, `Relay` | `doLocalProxy`, `MoaiConnection_connectO` |
| `WebReply`, `WebConfig` | `MoaiWebServer_do` and its `do_post` |
| `ReadDone`, `Restart`, `Relaunch` | end of the pass, `adoptReserveSocks`; the loop of `moai/main.c` |

`pc` is where the thread is; `cur`, `ptr`, `cb`, `ret` are the C locals that
survive from one action to the next (`ptr` is the `mcn` a handler goes on
with). `mcn` keeps of a record its sockets, the in-progress flag and `ev`, the
last pushed callback; `open` is the kernel's view.

Abstractions:

* Bytes, hosts, filters and clocks are the choices the code makes from them.
* The first match of an array search is any match. Readable sockets are
  served in any order; builds differ in it.
* `Cap` is the room of the read set as a count of sockets beside the listening
  ones, as `fd_array` of Windows has it; the write set, which has no listening
  sockets, has room for `RoomW = Cap + NListen`. Where the code looks at the
  result of `ZnkFdSet_set` a socket without room goes into reserve; where it does
  not (`AddConnecting`, `Moai_fdset.c:139`) the socket is just not in the set. On
  Unix the limit is on the number of a descriptor and `ZnkFdSet_set` does not
  fail: `Cap = 9` (more than `Socks`) is that case.
* Which side a message comes from is not looked at by `scanHttpFirst`: it tells
  requests from responses by the first line alone (`Moai_server.c:312-327`,
  395-441). The model assumes of its peers that browsers send requests and data
  and servers send responses and data (`Inner` in `ScanRequest`, `~Inner` in
  `ScanResponse`). What the code does else is not modelled: a line of a server that
  looks like a request has the O socket recycled and `doLocalProxy` run for it, and
  one of a browser that looks like a response counts up the response index.
* `MoaiIO_close_ISock/OSock` do nothing for a listening socket
  (`Moai_io_base.c:308`, 325). Listening sockets are no members of `Socks`, so
  `DropI` and `DropO` have no such guard.
* How long a connect has been in progress is measured with `clock()`, on Unix CPU
  time: `SelectTimeout` lets any connects in progress be found expired, or none,
  and nothing in the model says that one ever is.
* `Alias` is the descriptor that `FD_SET/CLR/ISSET(-1)` touches, undefined
  behaviour: bit 63 in glibc's macros, nothing on Cygwin (skipped) and Windows
  (no entry matches).
* `Restart` assumes that the listening sockets can be bound again, and `select`
  interrupted by a signal is left out. A failing `accept` is `AcceptDeny`.
  `CriticalError` is never returned by any handler.
* `Recs` bounds the table: with all records in use an accept is refused in the
  model only (`AcceptDeny` stays possible, so no behaviour is cut short).
* `result` and `acc` keep only the values that later code looks at.

### Properties

* `TypeOK`: types.
* `Ownership` = `DeadHoldNothing`, `OwnedIsOpen`, `NoSharedSocket`, `TwoSides`.
* `ConnectingMirrors`: at `select`, `connecting_socks_`, `fdst_observe_w_` and
  the in-progress records are one set, no duplicates, INVALID at index 0 only
  (the compaction never looks at index 0).
* `SnapshotAligned`: while the loop walks the copy of `connecting_socks_`, the
  live array agrees with it beyond the current index - which is what makes
  marking it by the copy's index right, whatever callbacks erase.
* `Watched`: at `select`, every socket of every connection is observed, in
  reserve or connecting. A POST waiting for confirmation is the one exception.
* `ObservedOpen`: at `select`, every observed descriptor is open.
* `CapacityRespected`: both sets fit, and what is left in reserve after a pass
  does not.
* `WritableHandled`: at `select`, whatever is observed for writing is an entry of
  `connecting_socks_`. This is the half of `ConnectingMirrors` that holds
  whatever happens; a socket reported writable that the loop does not know would
  be reported again at once, for ever.
* `OneRecordPerISock`: a browser's socket is that of one record. This is the part
  of `Ownership` that survives a POST body that breaks off.
* `NoLeak`: no step but `Restart` loses an open descriptor.
* `Isolation`: the handler of one connection changes no other; only the step that
  changes a proxy setting, and closes every connection on purpose, is left out.
* `PassEnds`: liveness.

## 4. `MoaiPipeline` and `RequestQueue`

`MoaiServer` keeps of a connection's pending requests only the last callback.
`MoaiPipeline` turns it round: sockets are only open, connecting or closed, and
the lists are kept in full. `conn[c]` has `pend` (`info_id_list_`), `inv`
(`invoked_info_id_list_`), `ridx` (`response_idx_`), `cb` (`cb_func_`), `I`,
`O` and `host`; `method[id]` is the `req_method_` of the registered MoaiInfo.

| Actions | Code |
|---|---|
| `Accept`, `End`, `CloseI`, `CloseO` | `MoaiConnection_regist`, `erase`, `MoaiIO_close_ISock/OSock`, whatever their reason |
| `Ask`, `AskConfirm`, `Submit` and their `...Fail` | the request branch of `scanHttpFirst` (SrcRecycle), `doLocalProxy`, `connectFromISock`, `connectO`, `pushConnectedEvent` |
| `AskWeb` | a request that Moai answers itself or refuses |
| `ConnectDone` | the completed connect, which calls `invokeCallback` |
| `Invoke*` | the loop of `MoaiConnection_invokeCallback`, one id a step, with the callbacks `sendOnConnected_GET/POST/CONNECT` |
| `Response` | the response branch of `scanHttpFirst`: `countResponseIdx` |
| `Restart`, `Relaunch` | `clearAll`; a new process after a crash |

`calling` and `at` are the C locals of `invokeCallback`, `wire`, `await` and
`tunnel` the servers' and browsers' view, `goal`, `shown`, `approved`, `sent`
history. `Submit` is the POST that the Send button of a confirmation page makes:
it registers a MoaiInfo of its own and then pushes the id its page names.

Abstractions and assumptions:

* A host is a host name with a port. A request arrives whole.
* Browsers do not pipeline POST and CONNECT behind other requests (the comment
  at `Moai_server.c:138-144` relies on it), and send nothing but tunnel data
  over a tunnel. Send is pressed at most once per page.
* Servers answer in order and answer nothing they were not asked, unless
  `"extra" \in Faults`.
* GET stands for all methods `sendOnConnected_GET` handles. The MoaiInfo at
  index 0 of the array, which erasing leaves out, is the context's draft.
* Ids are never issued twice: `issueNewID` puts the time beside the counter.
* `MaxReq` bounds the ids, and `ridx` with them.

Properties:

* `RightHost`: what is sent goes to the host it is for.
* `NotStranded`: when the thread waits, only a POST that was put before the
  user is pending on an established O socket.
* `IndexBehind`: the response index never outruns the invoked list, if servers
  answer only what they are asked. It is an upper bound: an index that lags behind
  would pair a response with an earlier request, and is not excluded. Without the
  assumption the index does outrun the list, and `MoaiConnection_getInvokedInfo`
  (`Moai_connection.c:404-415`), which compares only the size of the list with 0,
  reads beyond its end.
* `Registered`: the MoaiInfo of a listed request exists.
* `DirectTunnelKnown`: a tunnel without parent proxy is recognised by the method
  of the last invoked request, which decides how its bytes are read.
* `QueueSpec`: `RequestQueue` under the mapping of `queue` to the pending ids
  the callback has not reached, `flight` to `wire` and `done` to `sent`.
  `RequestQueue` says: sent on in order, on the connection it came on; answered
  in order; only a loss empties a queue. At most once is promised of all but the
  free requests (`Free`): a POST that was put before the user may be submitted
  over another connection while it still waits on its first, and a CONNECT is
  answered by the proxy.

## 5. `MoaiResponse`

One connection and a server that answers what it was asked; what is modelled is
how many bytes the code believes to belong to a response. A cell stands for a
byte, `"H"` for a whole header, `Digits[n + 1]` for the size of a chunk of `n`
bytes as it is written. A server closes after a body whose length it does not
tell (`Closing`), unless there is none.

| Actions | Code |
|---|---|
| `FirstRecv`, `FirstBody`, `FirstEof` | the first `recv` of `scanHttpFirst`: body as long as `content_length_remain_` says so, a header otherwise |
| `RecvMore`, `LineCut`, `LineBody`, `LineHead` | `MoaiIO_recvInPtn` and the three kinds of first line; `LineHead` is `parseHdr`, the new `content_length_remain_`, `is_unlimited_` and the choice of a branch |
| `Detect*` | `detectChunkedBodyBegin`, which looks for a chunk size in bodies that announce none |
| `Chunk*` | `parseChunkData`, `MoaiIO_recvByPtn2`, `ZnkBfr_erase` |
| `Size*`, `Zero*` | `MoaiIO_recvBySize`, `MoaiIO_recvByZero` |
| `Reply` | `sendToDst` in `doLocalProxy`, with the Content-Length Moai puts in |
| `Ask`, `ServerSend` | browser and server |

`stream` is `draft_info->stream_`, `remain` is `res_content_length_remain_`,
`pc`, `goal`, `mark`, `cbegin`, `csize` and `total` are the locals of the
functions named. A server may take any time and its bytes arrive in any pieces;
`faults` says what else may happen in a conversation: `recv` gives up after its
retries, the connection is reset, `errno` is left set by an earlier call, the
server closes instead of sending its last chunk.

Properties:

* `Intact`: at every moment the browser has a prefix of what it should get.
* `FramingSync`: when the server waits, `res_content_length_remain_` is exactly
  what is still to come.
* `AllDelivered`: nothing is held back once everything was received.
* `Delivered`, `Returns`: liveness, for finite conversations: a body that never
  ends keeps the thread for as long as the server sends.

Conversations are left out of a property by name, not of the model:

* `Chunklike` (not `Intact`, `FramingSync`): a body that begins like a chunk size
  line is taken for chunks, whatever its header says.
* `Untold` (not these either): a text with another status than 200 whose length no
  header tells.
* `Headlike` (not these either): binary data of which no length remains
  (`Linewise`: announced chunks, or another status than 200) and in which a line
  begins like a header. The comment at `Moai_server.c:340` admits that the code
  cannot tell it from a response.
* `Refused` (not `AllDelivered`, `Delivered`): a body shorter than `check_size`; a
  200 with an empty body; `Linewise` data, of which the end is not a line.
  What becomes of them is in section 9.

A conversation without the first three is `Plain`, one that besides has nothing
`Refused` and no faults is `Served`.

Left out: gzip and filters (a text body is replaced by itself), interim
responses, HTTP/1.0 servers that close before they have answered a later
request (`Ask` waits until O is open again), short sends (`Moai_server.c:1040`
ignores what `sendToDst` returns).

## 6. `MoaiUpgrade`

| Actions | Code |
|---|---|
| `Start`, `Boot*`, `IssueKey`, `IssueUnkept`, `PutKey`, `Bind`, `BindFail`, `RestartServer` | `moai/main.c` and the start of `MoaiServer_main`: the flag `__authentic_key_reuse__`, `authentic_key.dat` (truncated, then written, or not opened at all), the listening sockets |
| `ShowPage`, `PressQuery`, `PressDownload`, `PressApply` | the upgrade page and `do_post` of the web server |
| `TakeBirdman`, `Mark`, `Unmarked`, `Exec`, `ExecFail`, `OldEnds` | the end of `moai/main.c`, `ZnkProcess_execRestart` |
| `EnterList`, `EnterNone`, `Skip`, `Copy`, `CopyFail`, `Applied`, `NoSection`, `Launch` | `birdman upgrade_apply`: `applyFiles`, `applyCore`, `runMainAppFile` |
| `LoadKey`, `NoModule`, `Clean`, `Cleaned`, `Answer*`, `WriteName` | `birdman upgrade_query` |
| `OpenName`, `Fetched`, `FetchFail`, `Extract`, `Extracted` | `birdman upgrade_download` |
| `Crash`, `JobCrash` | a process is killed |

`pc` is the resident process: moai from `"boot"` to `"exec"`, then birdman from
`"enter"` to `"launch"`; `jobs` are the birdmans beside it, each with the key it
read and how far it has got through the tree or the archive. `keyFile`,
`reuse`, `tmp`, `fresh` and `console` are files. What the platforms differ in:

* Windows: `CreateProcess` without inherited sockets; the replaced process ends
  some time after its successor began (`linger`) and its file cannot be
  overwritten before; `CopyFile` reports a failure.
* Cygwin: `exec` may linger too (comment at `moai/main.c:118-126`), birdman.exe.
* Linux and Android: `fork` and `exec`, inherited listening sockets, birdman
  without `.exe`; as on Cygwin nobody looks at the status of `cp`.

The lines of `apply_list.myf` come in two sections: `Common` and the one of the
platform, `Section`. birdman goes through the second only if
`RanoVTagUtil_getPlatformID` finds a platform in the name of the directory Moai
is in, which `dir` stands for: `"section"` (`moai-v2.2-win64`, or any name that does not
begin with `moai`, where the compiler's platform is taken); `"bare"` (`moai`,
`moai-v2.2`), no platform, so that `applyFiles` walks `Common` alone and reports on
that (`Walked`, `Applied`); `"other"` (`moai-v2.2-win64-copy`), a section that is not
in the list, where `applyCore` reads through the NULL `ZnkMyf_find_lines` returned and
the process ends (`NoSection`).

Faults that are counted, up to `MaxFaults`: a process is killed; the key file
cannot be opened by moai to take the key over or to write it, or by birdman to
read it; the flag cannot be written; birdman or moai cannot be started. What may
fail at any time without being counted: a copy, a download, the network.

Abstractions: a patch is the files of the two sections, one of them the version,
one moai, one birdman. A write or a copy happens at once
or not at all, but for the key file. `delete`, `mkdir` and `rmdir` lines are left
out. birdman's own configuration loads (if not, it ends at once and moai with
it). One moai at a time: Windows refuses a second, Unix does not (section 9).

Properties:

* `KeyFileAgrees`: while moai serves, the file birdman copies into its forms
  holds moai's key, whatever was killed when - or moai could not open the file,
  and then no form that birdman printed is accepted.
* `KeyContinues`: an upgrade does not change the key, unless the flag or the file
  could not be opened.
* `ReportTrue`: on Windows "done" means that every file birdman had to copy was
  replaced: those of the sections it went through, but its own.
* `AllReplaced`: on Windows "done" means that every file of the patch was, but
  birdman's. The user's guide says so; the code does not (`viol_section`).
* `Resumed`: on Windows moai comes back from an upgrade unless something fails;
  directories of kind `"other"`, where birdman ends, are left out.

## 7. Runs

| Run | Instance | Shows |
|---|---|---|
| `loop_faults` | 4 descriptors, 2 records, room for 3, failing sends and parent proxy, all callbacks | types, `Ownership`, `ConnectingMirrors`, `SnapshotAligned`, `Watched`, `NoLeak`, `Isolation` |
| `loop_full` | 3 descriptors, 2 records, room for 1 in the read set and for 2 in the write set, POSTs whose bodies break off | `CapacityRespected`, `WritableHandled`, `OneRecordPerISock` |
| `loop_live` | 3 descriptors, 2 records, room for all, no failure, no tunnel, a waiting POST | `ObservedOpen`, `PassEnds` |
| `pipe_safety` | 2 connections, 3 requests, a host with confirmation, one with a tunnel, one with a tunnel through the parent proxy, failing sends | `MoaiPipeline`'s safety properties and the refinement |
| `resp` | conversations of two messages of all framings, buffer of 4, chunk check of 3; without faults and with all of them | `MoaiResponse`'s properties |
| `upgrade` | Windows in every kind of directory, Cygwin and Linux, a patch of three files, one query or download at a time, 2 keys, one fault | `MoaiUpgrade`'s properties but `ServesAgain` and `AllReplaced` |
| `viol_ebadf` | one failing send | `ObservedOpen` fails |
| `viol_sticky` | no failure | `ResponsesAreRelayed` fails |
| `viol_unconfirmed` | 1 connection, 2 requests | `OnlyApproved` fails |
| `viol_coalesced` | two pipelined pages | `Intact` fails |
| `viol_resume` | Linux, no fault | `ServesAgain` fails |
| `viol_section` | Windows, a directory called moai, no fault | `AllReplaced` fails |

Why the bounds are enough. In the loop, two records are what interference needs:
one being served, one disturbed. Four descriptors give both records both
sockets, three a whole connection and a second browser, so that reuse of a
number is immediate. Room for three of four sockets makes both the reserve and
two busy connections occur. With room for one, and so for two connects at a time,
a third finds the write set full (where a body broke off, `connectO` takes a record
over and forgets its O socket, which stays in the set, so that three connects can be
in progress with two records); that this state is reached was checked with its
negation as an invariant.
The array of connects then has up to two entries, and three with an INVALID left
at index 0, which is where the index arithmetic is delicate.
In the pipeline, three requests are two on a connection and one that comes
between or on the other connection; a host with confirmation also takes GETs,
so all orders of plain, confirmed and recycled requests occur. With one
connection, four requests and four hosts the same properties hold (871 000
states), with two connections and four hosts as well (2.6 million states, five
minutes, therefore not kept).
For responses, the framing state that a message leaves behind is what the next
one meets, so conversations have two messages; every pair of framings occurs.
A buffer of four cells is shorter than every message and longer than a line, so
all cuts occur, also within a line end; a body has a line end in it, or what
looks like a header; an error page of untold length is among them, which `Untold`
keeps out of `Plain`. For the upgrade, two keys are an old and a new one, one
fault is a crash, or a file or program that cannot be had, at any single step;
three files are one in the common section, and in the platform's moai and one that
is skipped. (Two birdmans at once were tried on Windows without faults, before the
sections were told apart: 11.5 million states, the same properties; not kept, for
its time.)
Descriptors, records and connections are interchangeable, so safety runs use
symmetry (a descriptor in `Alias` is not exchanged with others); liveness runs do
not.

Fairness. `FairSpec` says that the thread runs: `select` has a timeout, every
handler returns (receives give up after retries), so `WF_vars(Next)`. Nothing is
assumed of the network or of time: that a connect in progress ends, or that
select ever times out, is not ensured by the code and not claimed (section 9).
`MoaiPipeline` states no liveness: whether a request is answered is up to
servers. `MoaiResponse` assumes that the thread runs, that the server answers
and the browser asks (`WF_vars(Next)`); `Delivered` is about conversations
without faults, `Returns` about all. `MoaiUpgrade` assumes that every process
which can take a step does, and nothing of the user or of the network: each
download ends one way or the other because its `recv` has a timeout.

The deadlock check is off for `MoaiResponse`, where a conversation ends, and for
`MoaiUpgrade`, where moai may be down and the bound on keys keeps it so; the server
itself never stops and is checked.

## 8. Proofs

`MoaiServer_proofs` proves for every number of descriptors, records and
listening sockets, every capacity, set of failures and aliasing:

* `TypeCorrect`: `Spec => []TypeOK`. Inductive together with `CalledBack` (a
  callback in progress has a record). `Compacted` and `Without` keep their
  types because the increasing enumeration of a finite set of indices exists:
  lemmas `Greatest`, `HasOrder`, `InOrderType`, by induction on the strict
  subset order.
* `OwnershipHolds`: `Spec => []Ownership`, assuming that POST bodies arrive whole
  (`"post" \notin Faults`; without it `TwoSides` is false, see below). `Ownership` is not
  inductive: a handler keeps a record and a socket number across actions that
  may close either. The strengthening `IInv` adds `TypeOK`, `CalledBack` and
  `Serves`: from the scan to the dispatch the served record `ptr` is in the table and the
  served socket `cur` is one of its two. The lemmas `Closing`, `Erasing` and
  `Giving` are the three ways in which ownership changes: sockets are closed
  and forgotten, a record is erased, a record gets a fresh socket; each action
  is one of them or leaves the table alone.

The same module proves from `IInv` what no step may do, each by a
predicate on one step that all actions are shown to satisfy:

* `NoLeakHolds` (`Tracks`: what a step opens it gives to a record, and what it
  takes from a record it closes), if POST bodies arrive whole.
* `IsolationHolds` (`Spares`: record, open and observed sockets of a connection
  that is not served; `WebSpares` for the web server, of which only a changed proxy
  setting is left out), if besides `Alias = {}`. With `Alias`, `FD_CLR(-1)` of one
  handler takes another one's descriptor out of the set.
* `CapacityHolds` (`Fits` for the read set, `FitsW` for the write set), for finitely
  many descriptors, whatever fails.
* `OneRecordPerISockHolds`, for all constants, whatever fails: a record gets an I
  socket only when no other record of the table has it.

`MoaiConnecting_proofs` is about `connecting_socks_`. The lemmas on `Without`
(erasing entries keeps the others, in order, once each) come from the increasing
enumeration of the indices that stay.

* `SnapshotAlignedHolds` needs no assumption. The invariant `Aligned` adds that
  the array has no entry twice, and that while a completed connect's callback
  runs, its socket is not in the array: the entry was marked before. So a
  callback, which erases at most its own record's socket, erases nothing, and
  no index shifts.
* `WritableHandledHolds` needs no assumption either. While the loop runs, what is
  observed for writing is in the array or is the entry whose callback runs.
* `ConnectingMirrorsHolds`, if POST bodies arrive whole, `Alias = {}`, and the write
  set has room for one socket of every record (`RoomForAll`); otherwise an entry of
  the array may be missing from the set. The
  invariant `Mirror` holds at every point of a pass; between the test of the
  socket's state and the end of its callback the write set has one socket more,
  `wk[idx]`.

`MoaiWatched_proofs`:

* `WatchedHolds`, under the same assumptions, from `Heard`: an I socket is
  observed or in reserve from the start; an O socket is once its callback has been
  invoked; and a connect in progress always has an event pending (`Awaits`), so
  that there will be a callback that observes it. The last is what makes it
  inductive: a record whose connect completes without an event would stay deaf.
* `ObservedOpenHolds`, from `Clean` under `Calm`: nothing fails, no CONNECT, `Alias`
  empty, room for every descriptor. TLC finds a closed descriptor in the set when
  any one of these is dropped (for a failing send it is the run `viol_ebadf`): the
  theorem says exactly when the code is right.

`MoaiPipeline_proofs` proves for any connections, hosts, number of requests and
faults:

* `TypeCorrect`: `Spec => []TypeOK`; `TypeOK` is inductive.
* `NotStrandedHolds` and `RightHostHolds`, from the invariant `Lists`
  (`ListsCorrect`). `Lists` says for each connection (`Good`): pending ids were
  issued, are for the host the connection is at as long as it has an O socket,
  and are confirmation pages when O is established and nobody is invoking them.
  Two of its conjuncts are only there to make it inductive: a NULL callback
  during a connect in progress means that all pending ids are confirmation
  pages, and another pending id during a connect means that its browser waits
  for an answer - so that the browser's rule against pipelining a POST is what
  keeps the NULL callback from swallowing a request. A step is either on one
  connection (`GoodOne`, with `GoodEmpty`, `GoodNoSocket`) or a request
  (`RequestLists`, `RequestFailLists`). `RightHost` then needs that no other step
  looks like a send (`OthersQuiet`, `NotAppended`).
* `IndexBehindHolds`: the response index plus what servers still owe is at most
  the number of invoked requests (`Behind`), for `"extra" \notin Faults`.

`MoaiTunnel_proofs`, for any constants:

* `RegisteredHolds` and `DirectTunnelKnownHolds` from `Sound`. A MoaiInfo is erased
  with the connection that has invoked it; `Apart` says that this takes it from no
  other connection, because two connections list the same id only if its POST was
  put before the user. `Tunnelled` says that what was invoked last on a tunnel is
  its CONNECT, and `Noted` that its method is still known.

`MoaiQueue_proofs`, for any constants:

* `QueueHolds`: `Spec => QueueSpec`, the refinement. Every action works on one
  connection (`Alone`) and is there a step of the queue or invisible to it
  (`LoseOne`, `SeenNot`, `ChangeOne`). That a request is new to the queue when it
  is received follows from `Sound` and from `History`, which adds that nothing is known of
  ids that were not issued, and that a NULL callback is at the start of its list:
  returning from it brings no id back. That a CONNECT may be left out of the
  promise of once follows from `Tunnelled`.

`MoaiUpgrade_proofs` proves for any hosts, patch, number of birdmans, keys and
faults, from one inductive invariant `IInv` = `TypeOK`, `Held`, `Reported`:

* `TypeCorrect`. That no more keys are issued than `MaxKeys` is not a matter of
  types alone: a boot that may still issue a key was started below the bound or
  has a key in the file (last conjuncts of `Held`).
* `KeyFileAgreesHolds` and `KeyContinuesHolds` from `Held`, which says for each
  place of the resident process where the key is: in memory and in the file from
  `bind` to `exec` unless the file could not be opened (`kept`), in memory only
  while the file is written, in the file under the flag while birdman works.
* `ReportTrueHolds` from `Reported`: what was gone through without a failure is
  installed, and `ok` is false outside of `applyFiles`. What there is to go through,
  `Walked`, depends on the directory and not on what fails. `OthersKeepKeys` and
  `JobsKeepReport` are the frame lemmas for queries and downloads.

`MoaiResponse_proofs` proves for any conversations, any `Digits`, `CheckSize` and
`BufSize`, and any faults:

* `TypeCorrect`, with `TypeInv`: beyond `TypeOK`, the header in question is known
  wherever the thread is beyond it, and what was received last (`mark`) is no
  more than there is, so no length is negative. This holds for pipelining
  browsers as well. It rests on lemmas on what finding a line end, reading a size and
  erasing return (`SizeOfType`, `ErasedType`, `RecvFacts`).
* `IntactHolds` and `FramingSyncHolds`, for browsers that wait for an answer before
  they ask again (`~Pipelined`; otherwise `Intact` is false, `viol_coalesced`).
  Neither is inductive: between two receives a response is spread over
  `net`, `stream` and `out`, in a different way for each reader. `Sync` says how:
  `Waiting` (all answers are out, nothing is on the way), `Requested`, `Lost` (the
  connection was given up with an answer that is not whole), or `Answering`: with
  `m` the message and `w` what the server sends for it - `Wire(m)`, or less if it
  closes early - the places are in one of the shapes of `Shape`. `Passing` has a
  piece in `out` and the rest before it; `Looking`, `Measured`, `Unbounded` have all of
  `w` in `stream \o net`; `Chunking` has `i` chunks put together (`Assembled`) where
  `SentFront` is what was sent for them, which is longer (`SentIsLonger`), and a
  chunk, a size line or a line end in hand; `Ready` has the whole answer.
  Each action moves a cut between two of these, and the lemmas `Split`,
  `Regroups` and `EraseBehind` say how cuts and erasing commute with `\o`.
  That a chunk is recognised and its length read back needs only that `Digits`
  are distinct; that a body does not look like one is `Plain`.
* `AllDeliveredHolds` from `Calm` in addition: where nothing fails, errno stays 0
  and O is open until its answer is out. `Calm` is inductive because in each
  shape a reader that still wants something has something coming: what it waits
  for is not longer than what is in `net` and `stream` (here `CheckSize` and the
  conversations that `Refused` names come in).

`FrameInv` is `TypeInv`, `Plain => Sync`, `Served => Calm`. TLC checked the last two
as an invariant, with the strings of `Shape` taken from the parts of `w` and `stream`,
on every message of `resp` alone and on five pairs (28 000 states; not kept as a run:
the set `resp` takes is too large with these quantifiers). `FlattenSeq` is a fold,
and what it does to a longer sequence is shown by induction over the length; the
induction theorems of the library take an operator, so induction is stated once
with a set (`InductionSet`, from the fact that the order of the naturals is well
founded) and each use defines the set of numbers for which its claim holds.

The assumptions `ServerAssumption` (INVALID is no descriptor, NULL no record, at
most one descriptor is behind `Alias`), `PipelineAssumption` (the kinds of hosts,
NoHost and NoConn are apart), `ResponseAssumption` (the types of the constants, and
that two sizes are not written alike) and `UpgradeAssumption` (the
types of the constants, and that no file of a patch is called like the list or
patch_basename.dat) are checked by TLC in every run.

All invariants, action properties and the refinement that a passing run checks
are proved. Only model-checked is liveness - `PassEnds`, `Delivered`, `Returns`,
`Resumed` - which is out of the prover's reach, as is
ENABLED.

## 9. What the runs found

1. `sendOnConnected_GET` and `_CONNECT` observe the O socket they have just closed, if the send
   fails; the next `select` reports EBADF, the server restarts and forgets all
   open sockets without closing them (`viol_ebadf`; `Moai_server.c:880`, 1556).
2. `as_local_proxy_` of the last parsed request decides what happens to a
   response of another connection (`viol_sticky`).
3. A POST that waits for confirmation is sent, unconfirmed, by the callback of the
   next request on its connection: its id is in `info_id_list_` already, only
   the callback was NULL (`viol_unconfirmed`; `Moai_connection.c:288`).
4. Two pipelined pages that arrive in one segment become one response
   (`viol_coalesced`; `Moai_io_base.c:461`).
5. Where the directory of Moai is called moai or moai-v2.2, an upgrade skips the
   platform's files, moai.exe among them, and reports that all was done
   (`viol_section`; `birdman/main.c:802`, `Rano_vtag_util.c:93-102`).
6. On Unix a birdman at work keeps moai's ports, and the moai that is started by
   another birdman, or entered again after a change of the configuration, ends
   at once (`viol_resume`; `Znk_process.c:180`, `Moai_server.c:1562`).

More follows from the models. Each can be seen by naming the property in the cfg
given, with the module's other runs as a pattern:

* Readable sockets are a copy; one of them may be closed and its number given
  to a connect in progress in the same pass (`ReadOnlyConnected` in
  `viol_sticky.cfg`; `Moai_fdset.c:429`).
* `doLocalProxy` goes on with a record that the callback erased
  (`NoDanglingRecord` in `viol_ebadf.cfg`; the result of `invokeCallback` is
  dropped at `Moai_connection.c:219`).
* A RestartProcess is overwritten by the result of the next socket
  (`RestartHappens` with `FairSpec` in `viol_sticky.cfg`; `Moai_fdset.c:432`).
* Pressing Send pushes the same id again, so the POST is sent twice when the
  page's own entry is still pending (`SentOnce` in `viol_unconfirmed.cfg`).
* With a parent proxy the method of the CONNECT is cleared, and the data of the
  tunnel is parsed as HTTP (`TunnelKnown` in `pipe_safety.cfg`;
  `Moai_server.c:732`).
* In `MoaiResponse`, with `Served` made TRUE for the framing in question:
  `Content-Length: 0` and none are the same value, so an empty 200 is waited for
  until `recv` gives up, which closes O, and is dropped (`Moai_info.c:477`); a
  body shorter than `check_size` likewise if the server keeps the connection
  (`Moai_http.c:233`); the last segment of a binary chunked body that ends in the
  middle of a CRLF is dropped (`Moai_server.c:279`). With `Untold` taken out of
  `Plain`, `Intact` fails: for another status than 200 `is_unlimited_` is reset
  (`Moai_server.c:431`), so of an error page whose length is not told only what was
  received with the header is sent, with that as its Content-Length. With `"errno"` a response
  that ends with its connection is dropped, because `recv` returning 0 does not
  set errno and an earlier value is read - on Unix, that of the non-blocking
  connect (`Moai_io_base.c:498`). With `Pipelined` and a HEAD behind a GET the
  page of the GET loses its body (`Moai_server.c:640`).
* A second moai on Unix writes a key of its own into `authentic_key.dat` before it
  finds the port taken, after which the first one refuses birdman's forms
  (`Moai_server.c:1298`).
* In a directory like moai-v2.2-win64-copy, for which the list has no section,
  birdman reads through a NULL pointer and moai does not come back (`Resumed` with
  `dir # "other"` taken out; `birdman/main.c:808`).
* On Linux and Android the new birdman of an upgrade is looked for under
  `.../birdman/birdman.exe/birdman/birdman`, and birdman itself leaves it out, so it
  is never installed (`moai/main.c:158-164`), although the guide says that moai
  sees to it (upgrade.html:157). In the model `NewBirdman` is false on Linux.
* On Unix "All upgrade is successfully done" may be reported of an upgrade that
  copied nothing (`Znk_dir.c:163`), and on every platform a failed upgrade whose
  vtag was copied counts as the newest version (upgrade.html:326).
* With `Alias` non-empty `Watched` fails (`Moai_server.c:545` clears the bit of
  another descriptor), and with `"post" \in Faults` `TwoSides` fails (a closed I
  socket's number comes back as the O socket of the same record,
  `Moai_server.c:926`): set the constant and the invariant in
  `viol_sticky.cfg`.
* Closed sockets stay in the reserve lists: with `Cap = 1` in `viol_sticky.cfg`,
  `ReservedOpen` fails (`Moai_fdset.c:448`).
* A pending connect may never end. It is given up only when `select` itself times
  out (`Moai_server.c:1606`), which other sockets can keep it from, and only after
  45 seconds of `clock()`, which on Unix is CPU time and hardly advances while
  `select` waits.
* A connect in progress for which the write set has no room is never reported: the
  result of `ZnkFdSet_set` is dropped at `Moai_fdset.c:139`. It stays in
  `connecting_socks_` until it is given up, if it is; `ConnectingMirrors` fails in
  `loop_full.cfg` with four descriptors, three records and no faults.
* The page of a confirmation outlives the MoaiInfo it names. `MoaiInfo_find`
  then returns NULL, which `invokeCallback` reads through: `NoStaleInfo`
  fails in the instance of `pipe_safety` (a POST put before the user on
  one connection, sent on another which then ends, and invoked on the first;
  `Moai_connection.c:283-286`).
* The confirmation page names its host without the port (`Moai_server.c:956`),
  which the model, where a host has its port, does not show.
* The MoaiInfo that a pressed Send registers for itself, and those that are
  pending when a list is dropped, are never erased.

## 10. Not modelled

* The array of MoaiInfos (`ZnkObjAry`), CGI and its manager, configuration files
  and their forms, module tables, the contents of pages, headers and filters,
  gzip, time.
* birdman's `install`, `is_new_patch` and `yesno`; more than one patch, that is,
  two versions of the tree in birdman/tmp.
* The CGI applications, plugins and build tools: sequential programs that make
  pages and files, with nothing shared but the files they are given.
* libressl, zlib and minizip: vendored. Together with the character tables and
  the generated sources they are most of the lines of the repository, so the
  share that this project maps is small and stays so; of `libMoai`, `moai` and
  birdman's commands it is the greater part of what has state.
