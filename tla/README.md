# ZGrab in TLA+

ZGrab reads targets (addresses with optional domain names, or domain names
only), opens one or more connections to each from a pool of sender goroutines,
speaks the protocols its flags ask for, and writes one JSON record per
connection and a summary at the end. It carries forks of an SSH library, of
Go's HTTP library, and of Certificate Transparency, X.509 and ASN.1 code. This
directory models the program's own logic and the stateful parts of the forks,
model-checks them with TLC and proves with TLAPS, for every value of the
constants, the safety properties of the program's own logic, of the SSH
transport and of the HTTP/1 server.

## Inventory

| Part | Source | State it keeps | Operations | Talks to others through |
|---|---|---|---|---|
| Command line | `main.go` `init`, `zlib/config.go` | `config` | parse, imply, refuse | read by everything after it |
| Scan pipeline | `ztools/processing/input.go` | `processQueue`, `outputQueue`, two WaitGroups | `Process` | channels, `panic` |
| Grab worker | `zlib/processing.go` | `statuses`, `success`, `failure` | handler, counter goroutine, `Done` | a channel; counters read without a lock |
| Decoders | `zlib/grabber.go` | the reader, fields per record | `DecodeNext` twice | called by `Process` |
| Report | `main.go` `main`, `summary.go` | what it read of the counters | log line, summary | reads the worker's counters |
| Connection and dialogue | `zlib/grabber.go`, `zlib/conn.go`, `zlib/dial.go`, `zlib/mail.go` | `Conn` (raw and TLS connection, `isTls`), `GrabData` | `GrabBanner`, `makeGrabber`, a method per stage | one goroutine, the peer |
| HTTP grab | `zlib/grabber.go` `makeHTTPGrabber` | transport, redirect chain | `CheckRedirect`, body reads | callbacks of the HTTP client |
| Protocol scanners | `zlib/modbus.go`, `ztools/{ftp,telnet,smb,scada}`, `ztools/util` | buffers | request, read and parse loops | the `net.Conn` they are lent |
| SSH transport | `xssh/handshake.go`, `transport.go` | keys, sequence numbers, `sentInit`, `incoming` | read loop, rekey, write | a condition variable, a bounded channel |
| SSH connection | `xssh/mux.go`, `channel.go`, `buffer.go` | `chanList`, windows, buffers, queues | open, data, adjust, request, close | goroutines per channel |
| SSH users | `xssh/client_auth.go`, `server.go`, `certs.go`, `agent`, `tcpip.go`, `session.go`, `terminal` | caches, keyring, listeners, the line | authenticate, sign, forward, start and wait, edit | messages, channels, locks |
| SSH wire | `xssh/messages.go`, `cipher.go` | sequence number, nonce | marshal, frame | the transport |
| HTTP/2 | `http/h2_bundle.go` | streams, two flow controls, pipes | serve loop, read loop, RoundTrip, handlers | frames, channels, condition variables |
| HTTP/1 server | `http/server.go`, `fs.go` | `activeConn`, `connReader`, response flags | serve, background read, Shutdown | goroutine per connection |
| HTTP/1 transport | `http/transport.go` | idle pool, `reqCanceler` | dial, loops of a connection, cancel, retry | channels |
| HTTP client | `http/client.go`, `cookiejar` | hops, jar, watchers | `Do`, cookies, deadlines | goroutine per hop |
| HTTP/1 messages | `http/transfer.go`, `chunked.go`, `httputil/persist.go` | position in a body, pending requests | write, read, close | the connection |
| CT scanner and codec | `zct/scanner`, `zct/client`, `zct/serialization.go` | ranges, jobs, counters | `Scan`, pools, submission | channels; not linked into zgrab |
| X.509, ASN.1 | `zct/x509`, `zct/asn1` | cache of chains | `Verify`, `Marshal`, `Unmarshal` | not linked into zgrab |
| Logging, output types, schema | `ztools/zlog`, `zlib/output.go`, `zgrab_schema.py` | none | formatting | - |

What is hard about it: the goroutines of the pipeline and the order in which
its three channels are closed and joined; a process that dies half way through
its output; counters read while another goroutine writes them; two dozen flags
that switch stages of one dialogue on and off, over a connection that may change
from plaintext to TLS, be closed by a scanner or be replaced by another; replies
that are matched to commands by position only and come in pieces of any size. In
the forks: key changes under traffic, windows that two goroutines and two ends
share, ids and connections that are used again, shutdowns and cancelations that
race everything else, caches whose keys say less than their values depend on.
`PROJECT.json` lists the main hazards by line, with the properties that cover
them.

## Modules of the program

**`Pipeline`** is `processing.Process`, `GrabWorker`, the decoders and `main`'s
report. A goroutine is a program counter and its local variables (`mainPC`,
`mainObj`; `wpc`, `wobj`, `wrun`, `wres` per worker; `opc`, `ohold`; `shold`),
a channel is a sequence with capacity `QueueCap` and membership in `closed`, a
WaitGroup its counter. Each action is what a goroutine does between two points
where another can see it: one receive, send, close, join, write or counter
read. `crashed` records why the process died: a send on a closed channel, a
panic of `GrabBanner`, a write error of the encoder, or the metrics server.
What a connection does is one step, with any outcome. `Lineage` says where a run
can be, in which order it passes the places and which lines have been decoded,
`Tally` where each status is: they are parts of `FileSound` and `CountsSound` and
what their proofs rest on.

**`Scan`** states what `Process` promises without goroutines: each object is
handled `RunCount` times, each run is emitted once or lost once, in order, and
`Process` returns when nothing is outstanding. `Pipeline!ImplementsScan` is the
refinement.

**`Flags`** is `init`'s validation: which flags imply which (`Implied`) and
which combinations are fatal (`Refused`).

**`Grabber`** is one call of `GrabBanner` from the command line to the `Grab`.
`pc` is the stage of `makeGrabber`; there is one action per stage, in the
code's order, and `Skip` passes one that was not asked for. `layer` is
`Conn.isTls`, `line` the health of the connection (`"abandoned"` is a handshake
given up after the certificates, which `TLSHandshake` reports as success),
`open` the connections not closed, `inbox` the replies not yet read, `sent` a
history of what was sent over which layer, `data` the fields of `GrabData`
(each named by the request its text really answers). The scanners appear by
their effect on the connection: what they send, read, close or replace. `Rank`
orders the stages; `RecordSoFar` says what the record holds when a stage is
reached, and `EndedIn` what a grab that stopped in a stage leaves.

**`Scanners`** is how they read: `ReadUntilRegex` with the patterns that end a
reply, the Telnet negotiation and banner, the Modbus response and its objects,
the S7 packet, and BACnet's queries over UDP. `rest` is what the connection
still holds; a read takes any part of it that fits, so each reply is met in
every division into pieces; the connection then ends with EOF, a reset or
silence. BACnet's answers may come twice.

**`HttpGrab`** is the HTTP branch: `makeHTTPGrabber` with its `CheckRedirect`
callback inside the redirect loop of `Client.Do`, and the TLS set-up of the
transport. Servers answer with any status, Location and body; the URL in a
Location is chosen where it is parsed. `unclosed` holds the responses whose body
is open, `hellos` the names that TLS handshakes presented.

## Modules of the SSH fork

**`SSHTransport`** has two ends that both run `handshake.go` over
`transport.go`: per end the read loop, which also runs every exchange
(`loop`), the goroutine that becomes the multiplexer and another writer
(`thread`). `net` carries packets with the key they were encrypted with,
`rkey` and `wkey` are the keys of each direction, `incoming` is the bounded
channel between the loop and its reader. The messages of an exchange carry the
number of the exchange and their place in it, as a history of what is on the
wire: `PhasesKept` ties the loop's place to `sentInit` and the keys,
`StreamInOrder` says which exchange messages can follow which on their way to
an end, `DataInOrder` does the same for what users write. **`PacketConn`** is what the interface
of that name promises (in order, once, none lost before a later one), and
`SSHTransport!ConnSpec` the refinement.

**`SSHMux`** has two multiplexers over a connection that behaves as
`PacketConn`: `chanList` with its reused ids, both windows, the buffers and
bounded queues of a channel, global requests, and one goroutine each that
writes, reads, requests and serves on every channel.

**`SSHAuth`** (authentication of client and server, with the cache of public
key verdicts and the certificate checks; either end may be replaced by an
arbitrary peer), **`SSHAgent`** (keyring, server, shared client),
**`SSHForward`** (listeners, the list they are kept in, the goroutines of
`NewClient`), **`SSHSession`** (`Start`, the copying goroutines, the exit status,
`Wait`), **`Terminal`** (the line editor, with the screen as VT100 defines it)
and **`SSHWire`** (messages as structures, packets as the ciphers frame them)
each stand alone.

## Modules of the HTTP fork

**`H2`** is one HTTP/2 connection between the fork's `Transport` and `Server`:
the serve loop with its one frame in flight, streams and handlers (`srv`), the
client's read loop, RoundTrips and body writers (`cli`), flow control of both
directions on the connection and on each stream, resets, GOAWAY and graceful
shutdown.

**`HttpServer`** is the HTTP/1 server: accept loop, connections with the
`connReader` and its background read, what `chunkWriter.writeHeader` decides
about the rest of a body and the connection, hijacking, `Shutdown`, `Close`.
What a client sends is a sequence of tokens, each with the request it belongs to
and its place in it; `sent` keeps them and `used` counts those the server has
consumed, so `BytesInOrder` can say that the rest is, in order, in the buffer, in
the byte of the background read and on the wire. The server knows only what it
has read. A client that asked to continue waits for the answer and does not
pipeline. **`HttpTransport`** is its counterpart: the pool with its two lists, limits and
timers, dials, `readLoop`, `writeLoop` and `roundTrip` of a connection,
cancelation, header timeouts and retries. `connLRU` is the set of its connections and
the relation of the older ones (`pool.older`). An operation is a function of a
state record (`Now`), so that `putOrCloseIdleConn` is the same in the four places that
call it.

**`HttpFraming`** writes a message and reads it back (lengths, chunks, trailers,
HEAD, early close, a cut connection). **`FileServer`** is `fs.go`: canonical
paths, preconditions, ranges, the multipart pipe. **`CookieJar`** is `cookie.go`
and the jar. **`HttpClient`** is `Client.Do` with the goroutine that watches each
hop's deadline. **`Persist`** is `httputil/persist.go`: both ends of a pipelined
connection used from several goroutines.

## Modules of the CT fork

**`CTScan`** is `Scan` with its fetchers, matchers and progress goroutine, and a
submission with retries; unsynchronised increments take two steps.
**`CTCodec`** reads and writes chains, leaves, timestamps and what is signed.
**`X509Verify`** is `Verify`: candidate parents, the cache of chains,
constraints, usages, host names. **`ASN1`** is `Marshal` and `Unmarshal` over
types as data.

`PipelineProofs`, `GrabberProofs`, `HttpGrabProofs`, `SSHTransportProofs`,
`SSHMuxLemmas`, `SSHMuxProofs`, `HttpServerProofs` and `HttpTransportProofs` hold
the theorems. The `MC` modules give TLC its inputs. `MCGrabber`, `MCSSHUser` and `MCParts` put
modules that share no state into one run: a variable `part` chooses one of them
initially and the variables of the others keep a fixed value, so the state space
is the sum, not the product, of theirs.

## Runs

A property that a run checks is, for most parts, a conjunction of named ones
that are about the same piece of the code; the definition at the end of each
module (of `MCParts` for parts with two modules) lists them, and the comment
above each part says what it is about. The `TypeOK` of a module is one of the
conjuncts.

| Run | Modules | Properties | Shows |
|---|---|---|---|
| `pipeline` | `Pipeline`, `Scan` | `ChannelsSafe`, `RunsConserved`, `FileSound`, `CountsSound`, `KeepsContract`, `Termination` | two workers, two connections per host, every kind of line, a failing read, every way to die: no send on a closed channel, no run lost, repeated, invented or reordered, a summary that lags by no more than the channel holds, `Process` implements `Scan`, the program ends |
| `pipeline_log_counts` | `Pipeline` | `LogCountsAllGrabs` | violated: the log line "finished grab (%d success; %d failure)" is printed while statuses are still queued |
| `grabber` | `Grabber`, `Flags`, `Scanners` | `TLSDiscipline`, `NoPlaintextAfterTLS`, `DialogueKept`, `RecordTellsHowFar`, `ReadInPieces`, `AnswersMatch` | every command line of three flags and all combinations of the mail, TLS and Heartbleed flags: one handshake, no return to plaintext, the connection closed, replies attributed to their commands, a record that tells how far it got. And what is recorded does not depend on the pieces in which replies come, with the exceptions the properties name |
| `http_no_sni` | `HttpGrab` | `NoNameSent` | violated: `-no-sni` is undone by the transport |
| `ssh_transport` | `SSHTransport`, `PacketConn` | `KeysInStep`, `ExchangeOrderly`, `ConnSpec`, `WritesReturn` | two ends that rekey all the time, with lost connections and refused keys: keys change in step, an exchange is not disturbed, no writer is left asleep, the transport implements `PacketConn`, and writes return unless the loop is wedged |
| `ssh_rekey_deadlock` | `SSHTransport` | `BlockedUntilDone` | violated: "all writes will be blocked until the change is done"; the multiplexer is one of the writers, and the change waits for the multiplexer |
| `ssh_mux` | `SSHMux` | `ChannelsOrderly`, `WindowConserved`, `CallsReturn` | windows agree, ids find their channels, nothing follows a close, answers reach who waits, every call returns |
| `ssh_user` | `SSHAuth`, `SSHAgent`, `SSHForward`, `SSHSession`, `Terminal`, `SSHWire` | `AuthSound`, `AgentSound`, `ForwardSound`, `SessionSound`, `TermSound`, `WireSound` | only genuine requests are accepted, also from the cache and over time; agent calls get their own answers, and keys are used while they are held; forwarding settles; `Wait` has all the output; the screen shows the line and what `Write` wrote above it; messages and packets come back as they were. What the code does otherwise is named in the properties, case by case |
| `h2` | `H2` | `StreamsSound`, `WindowsAgree`, `StreamsEnd` | no end ends the connection over what the other did, but for a cancel in one window; the windows of both directions differ by exactly what the code loses or gives twice; bodies that end are whole, what is retried never ran, calls and shutdowns end unless that loss has used up the connection's window (`Starved`) |
| `http_server` | `HttpServer` | `ConnectionsSound`, `ServerEnds` | the rest of a body is never taken for a request, no byte is lost to the background read, kept connections are delimited, Shutdown returns and closes no connection under its request |
| `http_transport` | `HttpTransport` | `CallsKept`, `PoolSound`, `CallsReturn` | responses match calls, a connection has one call, nothing is repeated that may not be, the pool is consistent, connections are owned, calls return |
| `parts` | `HttpGrab`, `HttpFraming`, `FileServer`, `CookieJar`, `HttpClient`, `Persist`, `CTScan`, `CTCodec`, `X509Verify`, `ASN1` | `RedirectsKept`, `ResponsesKept`, `MessagesSound` (`HttpFraming`, `Persist`), `FilesSound`, `ClientSound` (`HttpClient`, `CookieJar`), `CTSound` (`CTScan`, `CTCodec`), `CertificatesSound` (`X509Verify`, `ASN1`) | redirect chains of a grab; bodies framed and found again; files that change while they are served; cookies in their domains; deadlines over hops; pipelined requests; every log entry once; formats that come back; the chains that exist, with path lengths and usages, and no others; values to DER and back |

The three violated properties each state a line of help text, a log line or a
comment of the repository; `PROJECT.json` quotes it.

### Also noticed

Disagreements of code and text that are not runs:

* The help of `-tls-certs-only` and `-heartbleed` says "(implies --tls)"
  (`main.go:76`, `main.go:118`), but only `-tls-version` sets `config.TLS`
  (`Flags!Implied`).
* With `-lookup-domain` a last line without a newline is not scanned
  (`grabber.go:80`), SSH dials the nil address and HTTP ignores `-port`
  (`grabber.go:652`).
* The retry of the S7 scanner leaves TLS (`s7.go:22`); without `-banners` the
  greeting of an SMTP server is taken for the answer to EHLO
  (`grabber.go:533`); a second https host in a chain of redirects is greeted
  with the first one's name (`grabber.go:281`).
* A Telnet banner may be longer than `-telnet-max-size`, "Max bytes to read"
  (`main.go:130`), and with a limit that is a multiple of the buffer, as the
  default is, the last round is dropped (`telnet.go:107`). The bytes read while
  options are negotiated are not counted at all. `BannerAsSent` says what the
  banner is in each of these cases.
* A malformed BACnet answer is recorded as an empty value without an error, and
  the instance number is masked to 18 of its 22 bits.
* The client's documentation (`client.go:40-45`) keeps sensitive headers from
  domains other than "the initial domain", but each hop is compared with the
  one before it (`client.go:684`), and the headers are copied from the first
  request each time: the second of two hops inside a foreign domain gets them.
  A POST answered by 303 and then 307 sends its body with a GET. When `GetBody`
  fails the response of the redirect is left open (`client.go:557`), as it is
  without a usable Location.
* `If-None-Match` ending in a comma makes the file server's handler panic
  (`fs.go:379-382`: the rest of the list is indexed after it became empty).
* A request that has been read on a kept connection and not yet been marked
  active is cut by `Shutdown` and `SetKeepAlivesEnabled`, and its handler runs
  when `Shutdown` may have returned (`server.go:1763-1767`).
* SSH: extended data of an unknown kind is charged against the window, and
  nobody reads it (`channel.go:328`); Reject keeps the channel's id
  (`channel.go:511`); a source-address without a mask is compared byte by byte
  with whichever form of the address the connection has (`server.go:324`).
* SSH agent: `ServeAgent` drops the lifetime and the confirmation that were asked
  for with a key (`agent/server.go:158-176`), against `agent/client.go:70-72` and
  what `TestAgentLifetime` (`agent/client_test.go:306-343`) asks of an agent, which
  there is OpenSSH's; and a key that is added again with a longer
  lifetime goes when the first one expires (`agent/keyring.go:117`).
* SSH session: an exit-status of fewer than four bytes panics (`session.go:406`).
* Terminal: after a `Write` that does not end in a newline the prompt is painted
  in a column the code takes for the first; and `Write` clears the cursor's row
  and those above it, so that with the cursor on an upper row of a wrapped line
  the rows below stay, and a longer text is written over them
  (`terminal.go:641-645`).
* HTTP/2: the GOAWAY about a connection error is written to a buffer that is
  not flushed (`h2_bundle.go:6560`). A cancel of one stream between the unlock in
  `processData` and its write to the stream's pipe ends the whole connection
  (`h2_bundle.go:7001-7007`). DATA for a stream that the client has forgotten is
  given back without having been taken (`6965-6973`), DATA for one that was
  closed or cancelled is taken and not given back (`6979-7007`), and what the
  server ignores after a GOAWAY is not given back either: enough of it stops the
  connection for the streams that are left. What a handler reads of a stream that
  was closed under it is given back twice (`4072-4075`, then `noteBodyRead`).
* A connection that the transport's idle timer and a request pick at the same
  moment is closed by nobody (`transport.go:771`; `NoLeak` names the case).
* ASN.1: an optional field with a default comes back as the default when it is
  zero; `set` is ignored when parsing; APPLICATION is written as
  context-specific; bytes after the last field of a SEQUENCE, and the length of
  an explicit wrapper, are not checked, so that damaged DER can end in an index
  out of range (`asn1.go:684`, then `402`).
* X.509: a certificate with the extended usage "any" is commented as "explicitly
  good for any usage" (`verify.go:438-442`), but the `continue` is that of the
  inner loop and nothing follows from it; and a chain is missed when the first
  path to an intermediate was too long for it and left the cache empty
  (`verify.go:301`).

### Bounds

* `pipeline`: two workers are enough for each race between workers (who takes an
  object, who leaves last). `QueueFactor` is 1 where the code has 4, so that the
  channels fill up. Input files have two or three lines, with each kind of line
  before and after a good one, since the decoder's only memory is the width of
  the first record. `RunCount` 2 gives a first and a last run. At most
  `MaxFaults` reads fail: the code loops on a persistent error, and nothing
  promises to end then.
* `grabber`: `MaxFlags` 3, since the stages interact pairwise through the
  connection and a flag that breaks a pair makes three. Buffers of six bytes
  stand for those of the scanners: a reply, or three commands, can be shorter,
  equal and longer. Two duplicates can shift BACnet's answers twice.
* `ssh_transport`: `IncomingCap` 1 and a threshold of no packets, so that every
  packet asks for new keys and the channel is soon full; one or two messages per
  goroutine give traffic before, during and after an exchange.
* `ssh_mux`, `h2`: windows of two bytes (of one for a stream of `h2` that was not
  told otherwise) and packets of one or two, so that writers block and a byte that
  is lost or given twice shows; two channels or streams, so that ids and credit
  are reused. The scenarios fix what each user does (cancel, close early, panic, shut down) and
  leave all orders open.
* `http_server`, `http_transport`: two connections, two calls; `MaxPost` 2
  (`maxPostHandlerReadBytes`) with bodies below, at and above it, from clients of
  both versions; pools of one
  and two; at most one close by the server.
* `ssh_user`: a clock of two ticks puts expiry before, between and after two
  requests; four keys in an agent let the loop over expired ones move entries
  before and behind it; texts of `Write` end in a newline or not and have up to
  two rows; a screen of three columns wraps lines of up to six characters twice;
  bytes of two bits and words of two bytes give integers that need one byte more
  for their sign.
* `parts`: `MaxRedirects` 2 gives a redirect that is first, middle and one too
  many; bodies of up to three bytes, files of four; lists of up to four tokens
  (tags, commas, a star, something else) in a precondition; two fetchers and two
  matchers over channels of one; a base of three and lengths of two digits in
  the codecs, so that a length can overflow.

### Fairness

`Pipeline`, `SSHTransport`, `SSHMux`, `H2`, `HttpServer` and `HttpTransport`
assume weak fairness of every goroutine, as Go's scheduler gives each that can
run; the parts of `ssh_user`, `CTScan` and `HttpClient` assume only that some
goroutine moves as long as one can, which is weaker. That a grab ends is the
doing of the deadline `makeDialer` puts on every connection. Nothing is assumed
of crashes, of a peer that cancels, closes or sends more, of timers, or of the
users of a library: what they may do is a step that may never happen, and the
liveness properties say under which of it they hold (a server that answers, a
log whose entries decode, listeners that are serviced). Two exceptions are named
in the properties because the code does not end: an exit-signal that does not
parse (`WaitReturns`) and a listener added after the connection's end
(`ForwardsSettle`). Deadlock is not checked where a system may simply be done:
in the library runs a behaviour ends when its scenario does.

## Proofs

The theorems are of the form `Spec => []Inv`, an action property or a
refinement. They hold for every number of workers, queue factor, input and run
count; for every command line and peer; for every set of hosts and limit on
redirects; for every rekeying threshold, channel capacity, offer of algorithms
and number of writes; for every set of connections, script and limit of the
server; for every set of calls, keys, limit and script of the transport; for every
window, packet size, queue length and scenario of the multiplexer. They assume only the named `ASSUME`s next to the constants: a finite
nonempty set of workers, a run count as `init` admits it, flags that exist,
natural limits (positive where the code's constant is), scripts that are
sequences of requests, requests whose key is one of the keys.

| Module | Properties of runs that are proved | Theorem |
|---|---|---|
| `Pipeline` | `ChannelsSafe`, `RunsConserved` | `ChannelsStaySafe`, `RunsStayConserved` |
| | `FileSound`, `CountsSound` | `FileStaysSound`, `CountsStaySound` |
| | `KeepsContract` (the refinement of `Scan`, and `Settled`) | `ProcessKeepsContract` |
| `Grabber` | `TLSDiscipline`, `DialogueKept` | `TLSDisciplined`, `DialogueStaysKept` |
| | `NoPlaintextAfterTLS`, `RecordTellsHowFar` | `NeverBackToPlaintext`, `RecordAlwaysTells` |
| `HttpGrab` | `RedirectsKept`, `ResponsesKept` | `RedirectsStayKept`, `ResponsesStayKept` |
| `SSHTransport` | `KeysInStep`, `ExchangeOrderly` | `KeysAlwaysInStep`, `ExchangesStayOrderly` |
| | `ConnSpec` (the refinement of `PacketConn`) | `TransportIsPacketConn` |
| `SSHMux` | `ChannelsOrderly`, `WindowConserved` | `ChannelsStayOrderly`, `WindowsStayConserved` |
| `HttpServer` | `ConnectionsSound` | `ConnectionsStaySound` |
| `HttpTransport` | `PoolSound`, `CallsKept` | `PoolStaysSound`, `CallsStayKept` |

These are all the safety properties that the runs check of these seven modules.

* `Pipeline`. `ChannelProtocol` is inductive together with `TypeOK`: it says
  that `workerDone` counts the workers that have not finished, that a channel is
  closed only past the join that makes it safe, and that a finished worker
  implies a closed and drained queue. Without the counting part a worker could
  still be between its last receive and its send when `outputQueue` is closed.
  From it follow `NoSendOnClosed`, and, with the place of each run
  (`Accounted`: in a queue, in somebody's hand, in the file or dropped),
  `NothingLost`.
* `Pipeline`'s file and counts. `Accounted` says that a run is somewhere;
  `Lineage` adds that it is in one place only and that its earlier runs are past
  it, which is what makes `OutputSound` (once) and `RunsInOrder` (in order) hold
  when a record is written; its part `LinesDecoded` counts the objects against the
  lines read, for `EveryLineDecoded`. `Tally` is the same argument for statuses: those
  counted, in the counter's hand, in the channel and about to be sent are those
  of the runs grabbed, so the counters differ from the runs by what the channel
  and the counter hold (`SummaryBounds`). Each step of `Process` is a step of
  `Scan` or none: decoding issues, writing a record emits, `nil` results and
  failed encodings lose, the last join returns, and `Accounted` shows that
  nothing is outstanding then. `Settled` follows from the same places.
* `Grabber`. `TLSOnce` (`layer = "plain"` implies no handshake yet) gives
  `OneHandshake`; `SendsOverLayer` (a step sends over the current layer) gives
  `NoPlaintextAfterTLS`; `Layered` (accepted flags, and the layer that the
  stages passed leave behind) gives `TLSFirst` and `HeartbleedReady`;
  `OpenKnown` gives `MainClosed`. `MailAnswersMatch` needs `InSync`: from the
  banner to STARTTLS the inbox is empty between stages, so the next reply read
  is the reply to the last command. `RecordTellsHowFar` is about the record at
  the end; what makes it inductive is `RecordSoFar`, the fields that must be
  there when a stage is reached, for every stage.
* `HttpGrab`. `Bounded` (at `"send"` there is room for one more request, and
  the next host is allowed), `Configured` (no https request is about to be sent
  without a TLS configuration) and `Kept` (length of the chain and open bodies
  at each place of the loop).
* `SSHTransport`. `KeysInStep` (a packet is decrypted with the key it was
  encrypted with) is inductive once it speaks of the packets on their way: the
  key a packet needs is the reader's key and the number of newKeys before it.
  `ExchangeOrderly` needs `PhasesKept` and `StreamInOrder`: an end waits for the
  very message that comes next on its wire, so an exchange is never met by
  anything but its own messages. `QuietExchange` (a newKeys between
  a message of an exchange and later data) is read off the stream at the first
  data packet after the message (`LeastNumber`: a nonempty set of numbers has a
  least, which stands in for induction). `DataInOrder` (taken by the writer = got by the reader, then what is in
  `incoming`, in the loop's hand and on the wire) gives `DataEncrypted` and the
  refinement: an exchange in the middle of the traffic moves nothing in it.
* `SSHMux`. The invariant `Inv` is about a view of the state, `Now`: the packets on
  their way to each end (`Coming`, with the one the loop has in its hand), the
  channels and the lists. Two parts are what makes it inductive. The first is
  about ids that are used again: a packet's id finds the channel it was written
  for (`PacketsOK`), because an end forgets a channel only when the other end has
  done with it (`ListingOK`) and nothing follows a close (`Orders`); and the two
  channels of a pair know each other, from the open on its way (`OpensOK`) over
  the answer (`AcceptOK`) to the end (`PeersOK`). The second counts. What a sender
  may still send, has reserved, has on its way or will get back is at most the
  receiver's `myWindow`, and equal to it while neither closes (`WindowsOK`), so no
  data is refused by `handleData`; and answers that a channel has or may get are no
  more than the goroutines that wait for one (`AnswersOK`, and `AskedOK` for the
  time before the other end was told), so `ch.msg` never blocks the loop.
  `LoopOK` and `GlobalOK` say the same of the loop and the global requests. The
  lemmas of `SSHMuxLemmas` are about a view `S` and the view `T` that a change of
  one channel, of a list or of the packets makes of it; each action is then shown to
  be such a change. Sums over the packets on their way (`Total`, a recursive
  function) are reasoned about with `LeastNumber`: the first place where two sums
  differ does not exist.
* `HttpServer`. Connections share only the server's flags and `activeConn`, and a
  step changes one connection or closes some, so the proof is about one
  connection `C` and its requests `R`: `Sound(C, R)` is kept by each action, one
  lemma per action. Its parts are `SendsInOrder` (the client's place), `BytesInOrder`
  (nothing consumed twice, lost or reordered on its way through the buffer and
  the background read), `InStep` (what the server takes the next token for is
  what it is), `OneReader` (no read while the background read runs),
  `ServesInOrder`, `Replies` and `KeptOpen` (what has been decided about the
  response and the connection). `Framing` needs all of `InStep`: that the rest
  of a body is not parsed as a request follows from the reader's knowing, at each
  place, how much of the body is unread or that the connection is given up.
* `HttpTransport`. The invariant `Sound(S)` is about a state record: the lists
  (`Listed`), what calls refer to (`Refers`), and for each connection `Kept`: it has
  one call, the requests in its channels are that call's, and somebody owns it.
  `OneCall` alone is not inductive: that a connection put back into the pool is
  lent to nobody follows from `RequestsKept`, which says at each place of the read
  loop which call it works for. A step changes what at most one connection is lent
  to, and only calls that have it before or after (`Confined`); the others are
  closed, unlisted or have a timer stopped at most (`Lightened`), so one lemma
  (`ChangeSound`) leaves `Kept` of one connection to each action. The three outcomes
  of `tryPutIdleConn` (refused, idle, handed to a call that waits for its dial) are
  one predicate, `Outcome`, and its four callers are shown to make the connection
  `Lendable` first. That the LRU list has an oldest member (`OldestFacts`) and that
  the limit is kept when a connection is added are facts about finite sets.
* `HttpTransport`'s calls. `CallsKept` rests on `Sound` and on `Orderly`, which says
  of each connection what is on it (`InLine`): what the server sent and nobody read is
  all of the response to the request in `reqch`, or the rest of the body the read loop
  hands over; the one request the server has yet to answer is in `reqch`; and a
  connection whose body was not read to its end (`Spoilt`) is neither idle nor lent.
  Without the last part a reused connection could begin with the rest of an old body.
  A request that may not be replayed reaches servers once because of `SentOnce`: once
  it is written, its call is past sending, and `nwrite` has passed the value that the
  call remembered, so `mapRoundTripErrorAfterClosed` cannot take the failure for one
  before the first byte.

Only model-checked: liveness and `ENABLED`, which are out of the prover's reach
(`Termination`, `WritesReturn`, `CallsReturn`, `StreamsEnd`, `ServerEnds` and the
temporal parts of the other runs' properties); what the scanners read
(`ReadInPieces`, `AnswersMatch`) and `CertificatesSound`, since what the
recursive definitions of `Scanners`, `ASN1` and `X509Verify` compute cannot be
proved by induction here; and, so far, the invariants of `H2` and of the modules
of `ssh_user` and `parts` other than `HttpGrab`. Those of `H2` sum credits over
frames as those of `SSHMux` do, and could be proved the same way; those of
`HttpFraming`, `Terminal`, `SSHWire`, `FileServer` and the codecs compare a fold
over the input with a reference definition, which needs induction over data.

## Not modelled

* Layouts without state: the SMB encoder, the text of Fox, DNP3's header, HPACK
  and the HTTP/2 frame codec, header lists, forms and multipart bodies, parsing
  and creation of certificates (`x509.go`, `pkix`), JSON layouts, logging, the
  schema. They are long and sequential; tests reach them well.
* Cryptography (ciphers, key exchanges, signatures, TLS), external and ideal
  wherever it is met; vendored code.
* In the modelled parts: HTTP proxies, compression, `Expect: 100-continue` on
  the client, server push, the priority tree, `ServeMux`, `TimeoutHandler`, the
  version lines of SSH, `SetSize` and `SetPrompt` of the terminal, peers that
  send malformed SSH or HTTP/2 frames.
* How much of an HTTP body the grab keeps (`-http-max-size`) and the resolution
  of names by `redirectsToLocalhost` (the set `Local`) are parameters.

## Plan

1. The windows of `H2` (`WindowsAgree`), with the lemmas about sums of
   `SSHMuxLemmas`, and then `StreamsSound`.
2. A composition: `Pipeline` with `Grabber`'s outcome in place of its one-step
   grab, so that what a dialogue leaves open is seen across runs of one worker.
