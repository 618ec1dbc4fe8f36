# barqr in TLA+

barqr renders QR codes and barcodes over HTTP, reads them back, and packs many of them
into archives and label sheets. It keeps almost no state. What can go wrong in it happens
*between* requests (limiters that refill lazily and are swept behind their users' backs, a
semaphore that every path out of a handler must give back, batches, a shutdown that races
all of it), *inside* one request (a deadline between stages, a resolver that changes its
answer, a walk that must stay within its budget), and in arithmetic that several functions
have to agree on (margins, escapes, check digits, object numbers). These modules describe
that, TLC checks it on small instances, and TLAPS proves what matters most for every size.

Paths below are relative to the repository; `middleware.go` and the like are in
`internal/httpapi` unless a directory is given.

## The system

| Component | State | Operations | Talks to |
|---|---|---|---|
| Limiters (`middleware.go`, `limiter`) | a map of token buckets behind a mutex, one limiter for the rate of a key and one for failed attempts of an address | `allow`, `blocked`, `sweep` | called by the middlewares; swept by a goroutine of `Serve` |
| Middleware chains (`router.go`, `middleware.go`, `metrics.go`, `docs.go`) | the semaphore, the in-flight gauge, the request's deadline | peek, key check, charge, rate limit, deadline, enter, shed, release, record | limiters, semaphore, handlers |
| Batch runner (`internal/batch/batch.go`) | tickets, wait group, result slots | choose items, dispatch, render, skip, release, wait, return | called by `handleBatch` and `handleSheet`; calls the pipeline back |
| Packaging (`internal/batch/output.go`, `csv.go`) | none beyond one call | parse CSV, name entries, zip or JSON | the batch runner |
| Server and process (`server.go`, `cmd/barqr/main.go`) | readiness, listener, three goroutines, connections held by net/http, the exit status | parse arguments, configure, load presets, bind, serve, drain, close, return, exit | signals, net/http |
| Request decoding (`decode.go`, `request.go`) | none | four transports into one request; presets, configuration and batch options below them | handlers |
| Pipeline and errors (`pipeline.go`, `errors.go`, `handlers.go`) | the stage of one render, its deadline | build, encode, style, logo, render, score, write; every fault to one status | builders, encoders, renderer, writers, fetcher |
| Fetcher (`internal/fetch`) | the pinned address and the budget of one fetch | check, resolve, vet, dial, read | resolver, remote hosts |
| Decoder (`internal/decoder`, `decode_handler.go`) | the results, depth and budget of one search | load, scan, walk strips, report | a third-party reader, the builders |
| Sheet (`sheet_handler.go`, `internal/sheet`) | cells, images, pages of one document | lay out, decode, compose | batch runner |
| Configuration, presets (`internal/config`, `internal/preset`) | built once at start, then read-only | parse, collect errors, check, redact; load, overlay | everything |
| Encoders, builders, renderer, writers, map links | none | pure functions | the pipeline, the decoder |

The hard behaviours are the concurrent ones of the first three rows and of the server,
and the waits of the fetcher. The rest is sequential: there the questions are bounds,
precedence, what becomes of the others when one of several steps fails, and whether two
functions that must be each other's inverse, or must compute the same thing twice, do.
`PROJECT.json` lists each hazard at its line with the properties that cover it.

## The modules

| Module | Models | Kind |
|---|---|---|
| `TokenBucket` | the arithmetic of one bucket | operators, used by `Limiter` |
| `IdealBucket` | what a rate limiter promises: an allowance credited on every tick and never forgotten | abstract specification |
| `Limiter` | `limiter`: each method, under its mutex, is one action; the sweeper; the clock | shown to implement `IdealBucket` |
| `LimiterWindow` | `Limiter` with an observer that counts what each key is granted in any interval | composition |
| `ParallelMap` | what `batch.Run` promises: one verdict per item, bounded width, one answer when nothing is in flight | abstract specification |
| `Batch` | `renderAll`, `renderOne`: dispatcher, workers, deferred calls, cancellation | shown to implement `ParallelMap` |
| `Admission` | one request per process through the chains of `router.go`: API, docs, metrics | uses the ideal limiters |
| `RenderBudget` | the server's semaphore and each batch's tickets, one inside the other | composes the promises of the two |
| `Config` | the loader of `internal/config`: every kind of setting, the collected errors, the start-up checks, the redacted listing | operators, used by `Process` |
| `PresetLoad` | `Load`, `readPreset` and `Set.add`, with the directory changing in between | sequential, with an environment |
| `Lifecycle` | `Run` and `Serve`, and the part of net/http they rely on | concurrent goroutines |
| `Process` | `main` and `cmdServe`: arguments, configuration, presets, server, exit status | composes `Config`, `PresetLoad` and `Lifecycle` |
| `Request` | the transports, presets, defaults and batch options that make one request | operators, used by `Pipeline` |
| `Fetch` | one remote fetch against a resolver and a host that may do anything | sequential, with an environment |
| `Pipeline` | a render call from its decoded request to its answer, with the deadline | composes `Request` and `Fetch` |
| `Decoder` | a decode call: upload, header, pixels, the walk over strips, the report | sequential, with a client that leaves |
| `Endpoints` | a call on either path | composes `Pipeline` and `Decoder` |
| `FileNames` | `assignFilenames`, `safeStem`, `safeExt`, `unique`, `zipOutput`: the entries of an archive | sequential, one action per slot |
| `Layout` | the geometry of a sheet: `PerPage`, `Validate`, `CellRectMM` | operators, used by `Sheet` |
| `Sheet` | `handleSheet` and `Compose`, from the request to the numbered objects of the PDF | sequential, every early return an answer |
| `Packaging` | what becomes of a batch: an archive or a sheet | composes `FileNames` and `Sheet` |
| `Drawing`, `Writers` | `internal/render`: canvas, frame, caption, logo, eyes, ramps, scannability; `internal/writer`: sizes, runs, text, inks, PDF objects | operators |
| `Texts`, `Cards`, `Uris`, `Builders` | `internal/builder`: escapes and check digits; records; links; the registry and who claims a decoded text | operators |
| `Symbols` | `internal/encoder`: what each symbology takes, and its check digits | operators |
| `MapLinks` | `internal/mapsurl`: places in every notation, and every provider's links | operators |
| `Intake` | what `Run` takes in: `ParseCSV`, `resolveItems`, limits, the choice of output | operators |
| `Calls` | the pure functions above, one call at a time, and what they promise each other | state machine of calls |
| `BatchProofs`, `AdmissionProofs` | theorems about the module they are named for | TLAPS |
| `LimitsProofs` | theorems about `Limiter`, `LimiterWindow` and `RenderBudget` | TLAPS |
| `ProcessProofs` | theorems about `PresetLoad`, `Lifecycle`, `Config` and the `Process` composed of them | TLAPS |
| `EndpointsProofs` | theorems about `Fetch`, `Decoder`, `Request`, `Pipeline` and the `Endpoints` composed of them | TLAPS |
| `PackagingProofs` | theorems about `FileNames`, `Layout`, `Sheet` and the `Packaging` composed of them | TLAPS |
| `CallsProofs` | theorems about `Intake`, `Drawing`, `Writers`, `Symbols` and the distance of `Texts`, as `Calls` calls them | TLAPS |
| `DataInduction` | induction over numbers for properties that are sets, recursion for functions on sequences, and two uses of both: sums and the table of edit distances | lemmas, TLAPS |
| `MC*` | instances for TLC | model checking |

Definitions named `Bug...` are mutants: each is the definition that follows it with a
plausible mistake, and shows that a property would notice. No specification uses them.
A property that is a conjunction of named parts is one question asked of a component; the
parts carry the details and are what the lemmas prove.

### How state and actions correspond to the code

**Limiter.** `buckets` is the Go map, with `tokens` in units of 1/`Per` token so that a
tick adds a whole number of units, and `age` for `now - last`. The code computes with
`float64`; rounding is abstracted. `age` saturates at `2 * Per + 1`: from `Per` on a
bucket is full whatever it held, and from `2 * Per + 1` on the sweeper takes it, so a
larger age changes nothing the code computes. `answer` records the last call's result, so
that the refinement compares what callers are told.

**Batch.** `main`, `next`, `tickets`, `wg` and `out` are the dispatcher's program counter
and variables. A worker's two deferred calls are two actions in their order (ticket first,
wait group second), because the dispatcher may run between them. The branch of
`renderAll` for a concurrency below one is left out: the configuration admits only
positive values and both callers pass it on. `Finish` covers every way out of a render
(bytes, error, empty output, panic, deadline).

**Admission.** `pc` names the middleware a request is at; one action is one middleware.
The two limiters are levels of whole tokens to which tokens come back at any time: an
over-approximation of the ideal limiter that `LimiterImplementsIdeal` entitles to. Request
metadata is a route family, an address and a key; a missing key is an invalid one. The
client that leaves and the deadline that passes are the same event, the context's end.
`docs` covers every path of `handleDocs`; the landing page and the probes pass through no
limiter and are left out.

**RenderBudget.** A request that renders one code is a batch of one. Within a request only
the width, the cancellation and the return of `ParallelMap` are kept.

**Config, Process.** An environment is a sequence of assignments; a value is a sequence of
tokens (a number, a unit, a word, a blank, a comma). Sizes are computed in a word of
`MaxInt` with its wrap-around, as `loader.bytes` does before it checks. The ranges of
single integers are one range, and of the spellings of a boolean only some are enumerated.
`proc` is where `main` has got to, `code` the exit status, `shown` the pairs of setting and
value that were printed. The process runs `PresetLoad` and then `Lifecycle` to their ends;
a signal that comes before `Serve` has installed its context ends it at once (`Kill`).

**PresetLoad.** A file is its stem, its extension, its type, and a condition that says
which test of `readPreset` it fails; `Change` may alter the condition at any time between
listing and reading, also by putting a link in the file's place: the root of the directory
is opened with `os.OpenRoot`, so a link inside it is followed and one that leads out of it
fails like a malformed file. A named pipe put there would hold the boot at its opening, for
as long as nobody writes to it; that is left out. The containment guard of `Load` cannot fail for the base names
`ReadDir` yields, as its comment says, and is left out. The order of the listing is open.

**Lifecycle.** A shutdown that begins before `http.Serve` has been given the listener is
taken to close it too; in the code that listener is closed by `Serve` when it finds the
server shut down, with the same answer. `main` is `Serve`'s program counter; `accept`, `sweeper` its goroutines;
`serveErr` the one-place channel. Of net/http it keeps what its documentation states of
`Serve`, `Shutdown` and `Close`. `Close` returning an error is left out: by then the
listener is closed and forgotten, which is the only error it reports.

**Request.** A message is an endpoint with its query, body and item; a body is JSON, a
form, multipart or nothing, and a raw text is what it says and whether it needs trimming
or folding. One field stands for each kind of field the reflection of `walkPaths` treats
alike (string, number, boolean, pointer, list, payload member). Operators follow the
layers in the code's order: query, body, file parts, preset, configuration, batch options.

**Fetch.** `stage` is where `Fetch` is, `elapsed` what its waits have used of `Timeout`,
`pinned` the address `pin` vetted, `dialled` the addresses connected to. The resolver may
rebind a name between any two steps (`RebindName`), a host may answer with any header,
stop, trickle or lie about its length. `Abandon` is the end of the request's own context: a
lookup ended by its deadline is a timeout, one ended by the client an unresolved name. Tags fold case; a reference carries no user part.

**Pipeline, Endpoints.** `phase` is the stage of `pipeline`; each stage is one action that
ends in the next stage, in the answer, or in a fault with the status `asFault` gives it.
`Expire` may come between any two actions; `late` counts stages run after it. The verdict
on a design is left open here (any grade), and what makes it is in `Drawing`; so is whether
the renderer knows the shapes a style names.

**Decoder.** `at` is the place in `handleDecode`, `todo` the stack of strips of
`multiScan.walk`, `budget` and `scans` its counters, `found` its results with points in the
caller's coordinates. The reader of one strip is external: it returns some code that is
whole in the strip, the one on its middle row for linear codes. An upload is a grid of
smallest strips with codes on it.

**FileNames.** A name is a sequence of tokens; a token is one character or a word no rule
looks into. The loop of `assignFilenames` is one action per slot, `safeStem`'s loop is a
fold. `unique`'s loop is a choice of the least free number up to `MaxSuffix`, which N + 2
makes enough. Compression methods and media types are left out.

**Layout and Sheet.** Lengths are whole hundredths of a millimetre. `cols * rows` and
`len(items) + skip` wrap as Go's `int` does, and the number of pages is Go's division,
which rounds towards zero, by a count of cells that may be zero or negative. An item is what rendering makes of it (the
batch runner is `Batch`), a body is a PNG or not, with a number of pixels, and an object of
the PDF is a record of what `Compose` writes in it. Errors of CSV and of unknown templates
or pages precede the modelled part. A caption is taken to have a glyph that WinAnsi can
write.

**Calls.** `call` is the call in hand with its result. A payload that was built
is offered to every builder, and what a builder read in a text is built again, so that a
round trip is three calls. A text is a sequence of characters
and of words no rule looks into; numerals and dates are tokens. A symbol comes from the
third-party encoder as its size, its kind, and any set of dark modules. A colour is a
luminance or one channel; the pixel sizes of `PixelSize` are 64-bit words in eight bytes,
with Go's wrap-around. Regular expressions of `mapsurl` are features of a text; coordinates
are whole seconds and are printed to hundredths of a degree. The bounds on the amount of a
transfer and on the counter of a one-time password are scaled down; of the latter the case
of type and algorithm is not kept. A numeral that is not finite is a token that `number`
refuses and a parser's own `ParseFloat` reads. Of the `location` builder the modelled part
is an address without tuning; the other notations are `MapLinks`. What the encoding
libraries have room for is a free choice in each call (`Holding`) beyond a hundred bytes,
which every level of the four two-dimensional codes holds. A record of CSV that the reader
refuses makes the header, or the row at its place, a refusal.

## What the runs check

All bounds are constants of the `.cfg` files and definitions of the `MC*` modules.

| Run | Instance | Shows |
|---|---|---|
| `limiter` | two keys, 2 tokens per 3 ticks, intervals of up to 7 ticks | `ImplementsIdeal`: lazy refill, peeks that move `last`, buckets born one token short and sweeping never change an answer; `WithinRate`: an interval grants at most the burst and what the rate adds; `KeptOnlyIfCalled`: a bucket that stays for ever belongs to a caller who keeps calling |
| `batch` | four items, two tickets | `Balanced`: tickets and wait group count their workers; `AnswerStands`: an answer is whole and final; the refinement `KeepsPromise`; `Returns` |
| `admission` | three requests, one address, one good key, one slot, one attempt, one token of rate | `NoLeak` on every path including a panic, which is the only one that goes unrecorded; `OnlyAuthorisedWork`; `ChargesExactlyFailures`; `NeverStuckInQueue` though no handler need end |
| `render_budget` | three requests of one to three items, two slots | `RendersBounded`: at most the square of the setting, none of a request that gave its slot back; `EveryoneAnswered` |
| `process` | command lines of every kind; environments of one to three variables; up to three preset files, one change of the directory; two connections | `TypesOK`; `DenyByDefault`: no port others can reach opens without keys or the operator's word; `SettingsTold`: a refusal lists everything wrong, an accepted size is the one written, no key is shown; `PresetsSound`; `OrderlyEnd`; `ExitTells`: the status says what happened; `AllEnds`: commands end, listings end, a signal ends the server |
| `request` | every place and query, 18 bodies, conditional requests, items of a batch, every kind of logo; strict and lenient; uploads of up to three codes | `TypesOK`; `RequestHonoured`: the more specific statement wins on every field and transport, nothing is dropped, one intent is encoded, an error is the caller's own; `BoundedOverrun`: a deadline that passed costs two more stages at most; `ServedAsAsked`: readable where strict, never without its logo; `FetchSound`; `SearchBounded`; `CodesReported`: each code once, where it is; `CallAnswered` |
| `packaging` | three items with eleven ids that collide with each other, with a numbered name, with the manifest, or clean to nothing; sheets of up to three labels of five bodies on ten grids, four of them with a count of cells that wraps to zero, to one, to minus one and to the least int; five values of skip, ints of five bits | `DistinctEntries`, `EntriesHonest`, `SheetSound`, `SheetDrawn` |
| `calls` | a QR code, a Data Matrix, an EAN-8 in styles that vary one concern at a time; ramps of up to three stops; sizes around the cap on pixels; one payload per type with each free text replaced by every short text of its grammar's own characters, and texts with a token dropped, doubled, replaced or inserted; keys of up to four letters; codes of every length around their limits, mistyped; places in every notation; tables of up to three columns and rows | `SymbolKept`, `ReportHonest`, `WritersAgree`, `RoomKept`: one design, readable, the same symbol in every format, in the room it is given as far as pixels can be counted; `PayloadsReread`: `Parse` undoes `Build` for values that hold the grammar's own characters, and nothing is claimed that would not be built but numbers that are not finite; `MistakesCaught`: check digits and "did you mean"; `PlacesHonest`; `TablesKept` |

Why these sizes are enough: the limiter's rate is not a whole number of tokens per tick, so
refills land below, on and above a token, and `Stale` is past the sweeper's cutoff. In
the batch the dispatcher blocks twice and a ticket is reused while its last owner still
lingers in the wait group. In admission each limit is below the number of requests,
so every limit is reached while another request is past it; the requests are symmetric,
and callers are dealt out to them in one order. In the budget a batch is longer than it is
wide and the third request queues. In `process` the word is 16 bits wide with units of 16
and 256, so that products wrap; three variables are what one check of `checkSecurity`
relates; a preset set with room for one more meets its cap, an override at the cap and a
file after it; directories are listed and connections opened under the empty environment
only, since the others do not concern them. In `request` the budget of a fetch (5) is more
than one wait (3) and less than two, the resolver has five answers (none, a public
address, one public and one private, and each spelled as IPv4 mapped into IPv6), and the cap on bytes (2) is met exactly and passed. The scan budget
of 8 is passed by a walk of depth two, and codes straddle strips. In `packaging` the pixels
of two labels pass the cap and the labels of three fill a page in part. In `calls` each
value is at, below and above the limit its function tests. What does not depend on a size
is proved for all sizes below.

`CHECK_DEADLOCK FALSE` is set where the modelled part ends: batches return, requests are
answered, processes exit. That they do is a liveness property of the same run.

### Fairness

`WF` on the steps of goroutines that can run (the Go scheduler), on timers (the request's
deadline, the drain's grace, the sweeper's ticker) and on the clock. A handler is *not*
assumed to end in `Admission` and `Lifecycle`: shedding and the forced close are there for
handlers that do not. In `Batch` and `RenderBudget` a render is assumed to end, since the
canvas cap bounds every stage (the comment of `withTimeout`), and no deadline is relied on.
`Process` assumes the same of its own steps (a command, the configuration, loading, exit)
and of the server's goroutines and timers. In `Endpoints` the handler's own steps are fair
(`RenderCall`, `DecodeCall`), among them a wait of a fetch, which the budget's timer ends;
the resolver, the fetched host's answers, the client and the deadline need do nothing.
Clients need not arrive, leave or hang up, and nothing makes a context be cancelled or a
signal come. `Packaging` and `Calls` state no liveness.

### Where the code and its documentation differ

Four runs check a sentence of the documentation or of a comment and find it false of the
code; each is listed under `findings` with the sentence quoted.

- `claim_budget`: renders in flight are bounded by the square of `BARQR_CONCURRENCY`, not
  by it (`batch_handler.go` 34). `RendersBounded` shows the square is a bound.
- `claim_row`: an item's own `output.format` overrides the sheet's, and `Compose` then
  refuses the whole document (`sheet_handler.go` 101 and 246 say the opposite): of two
  labels, the first asks for SVG, the second is a good PNG, and neither is printed.
- `claim_finder`: a logo whose clearing reaches into a finder pattern is drawn over it. The
  clearing spares the pattern's modules (`internal/render/logo.go` 218) and clears the rest;
  the report says only that the logo is large (`logo.go` 205-208 says it is reported loudly).
- `claim_cap`: with sizes, resolutions and scales within their clamps, the product of width
  and height may still wrap before it meets the cap on pixels (`internal/writer/writer.go`
  154): at 2^20 inches and 2^16 dots each, 32 modules a side have 2^36 pixels a side, and
  2^72 is zero in 64 bits (`pipeline.go` 432-437 says the clamps prevent it). `RoomKept`
  holds the cap for every picture whose pixels 64 bits can count.

The models show more differences, by behaviours of the passing runs or by the restrictions
their properties need; they have no run of their own.

Requests around shared state:

- A valid key *is* throttled by the attempt limiter, when others at its address have
  emptied the bucket: `Peek` comes before `Auth` and cannot tell (`middleware.go` 243 and
  `docs/SECURITY.md` 63 say it never is).
- A request past its deadline may start work: `Enter` does not look at `done`, as `select`
  takes any ready branch (`middleware.go` 218 says it is shed). The batch dispatcher has
  the same select; there `renderOne` looks again.
- A request that panics is answered but neither logged nor counted (`middleware.go` 112
  says one record per request).
- Newly arrived requests are not served during the drain, since the port is closed
  (`server.go` 178 and `deploy/k8s/deployment.yaml` 62 say they are).

Start-up:

- An override of a built-in preset is lost when it is listed after the file that found the
  set full, because the loop breaks there (`internal/preset/load.go` 22 and 119 say it
  takes no place); `print.json` and `print.JSON` both give the preset `print`, and one
  silently wins (`load.go` 165).
- `serve --print-config` leaves out the warnings that `check-config` prints; arguments after
  a command are ignored.

One call:

- A decode past its deadline answers 500, not the 504 of `asFault`'s comment, and so does
  `type=raw` without its data. `style` says it refuses before anything is encoded
  (`pipeline.go` 182); `Encode` has run by then.
- JSON bodies over the limit read as malformed; a `}` after the body is accepted; a bad
  number hides an unknown field before it; a `null` option of an item becomes the empty
  text; the JSON spelling of a batch is compared before it is normalised
  (`batch_handler.go` 58); a preset's `output.size` beats a request's `output.scale`; the
  order of the files of a multipart body is not that of the body (`decode.go` 367).
- The decoder takes two codes with the same data for one, and does not scan strips narrower
  than 100 pixels. A very wide quiet zone draws the issue `DEGENERATE_MATRIX`, on which
  strict mode refuses. `quiet_zone` and `bar_height` have no upper bound before the grid is
  made (`pipeline.go` 326).

Documents and archives:

- An entry whose id is punctuation is `item-N`; the manifest keeps the id
  (`internal/batch/output.go` 91 says they match).
- Captions on cells of up to 4.6 mm leave codes undrawn and the answer does not report them
  (`sheet_handler.go` 154). A skip may leave whole pages blank.
- A product of columns and rows that wraps below one passes the cap of `Validate`
  (`internal/sheet/sheet.go` 135). Zero divides the page count (`compose.go` 98); below
  zero the page count may be zero, which prints a document without its labels, negative,
  which panics in the `make` of the kids, or positive, which panics in the slice of the
  first page.
- The PDF and EPS writers drop logo, frame and caption without a word (`pdf.go` 146,
  `eps.go` 84; the comment of `checkTextCanvas` in `ascii.go` promises a refusal). The text
  under a linear code is put over a frame or caption that shares its margin
  (`raster.go` 268). At one pixel a module a caption is not drawn. Off the diagonals the
  linear gradient of an SVG ends elsewhere than that of a PNG.

Payloads, codes and places:

- `geo:NaN,NaN`, an amount of `+Inf` in a payment link and `EURNaN` in a transfer are
  claimed by their builders (`internal/builder/geo.go` 128-137, `crypto.go` 150, `epc.go`
  185-188), which would not build them (`payload.go` 335): no comparison holds of NaN.
- A bookmark with a title of blanks is written with an empty field, and the field is not
  read back (`internal/builder/bookmark.go` 61 and 85), although `docs/API.md` 327 says
  that `Parse(Build(payload))` returns an equal payload for every builder.
- The greatest lengths of QR, Data Matrix, Aztec and PDF417 codes are upper bounds: the
  library may refuse less than that for want of room (`internal/encoder/datamatrix_test.go`
  79, `pdf417_test.go` 99, `aztec_test.go` 123).
- A `wa.me` link is read back as `url`, which is asked before `whatsapp`
  (`decode_handler.go` 232); `example.com:8080` is read as a scheme.
- Of the check digits, that of a UPC-E does not cover the last digit but one, which says how
  the others are read. Levels fold case; symbologies do not.
- `-0°30'` is read as half a degree north (`mapsurl.go` 234): the sign of zero is lost. An
  option `WithOrigin` does not force directions for a text that is a route by itself
  (`mapsurl.go` 100). Some notations check the range of coordinates and some do not.

## What is proved

TLAPS checks these for every value of the constants, under the named assumptions of the
modules (positive concurrency and batch size, a rate of natural numbers with a positive
window, a finite set of requests, a fetch whose budget is a natural number).

- **Limiter** (`LimitsProofs`). `LimiterTypeOK` is inductive by itself. For
  `LimiterImplementsIdeal` the refinement maps a key to what its bucket *would* hold if it
  were asked now (`Level`), full if it has none; each action maps to the ideal one, a sweep
  to a stutter, which needs that a bucket older than two windows is full. For
  `GrantedWithinRate` the invariant is an account: what a key has left plus what it was
  granted is at most what it could have had (`Accounted`). The products of the rate are
  isolated in one lemma.
- **Batch** (`BatchProofs`). `BatchInvariant` adds to the type and the counts what the
  properties do not say: which items have been handed out, which slots are filled, that
  verdicts about the deadline need the deadline, and what the dispatcher knew when it
  returned. `NoneOutlives` then follows because a wait group of zero counts no worker, and
  `AnswersAreWhole` because a live context at the end was live all along; together they are
  `AnswerIsFinal`. `CountMove` is the lemma on counting workers by stage, and gives
  `TicketsBalance`. `BatchImplementsMap` is the refinement: the only step that needs the
  counts is the start of a render, where a worker that holds a ticket and does not render
  yet leaves room for one more; an answer needs that an empty wait group means nobody
  renders and every slot is filled.
- **Admission** (`AdmissionProofs`). `AdmissionInvariant` adds which routes pass which
  middleware, that the answer to a panic is the last thing written, that nothing is written
  before the handler, and how far a request without a good key gets. `NoSlotLeaks`,
  `WorkIsAuthorised`, `AdmissionTypes` and the action property `OnlyFailuresCharge` follow.
- **Render budget** (`LimitsProofs`). `BudgetInvariant` says that the semaphore counts
  the requests that hold a slot (`Counted`), and that a render in flight keeps its request
  in its slot (`Attached`). `RendersStayBounded` embeds the renders in flight into the
  product of holders and tickets, whose cardinality is at most the square.
- **Lifecycle, presets, process** (`ProcessProofs`). `LifecycleInvariant` adds what each
  phase of `Serve` implies of the server; `OrderlyRetreat` and `NilLeavesNobody` follow,
  together `EndsInOrder`. `PresetInvariant` adds where each accepted file stood in the
  listing; `SetStaysCapped`, `ServedWasVetted`, `FullMeansFull` and, with what is settled
  about each file passed (`Settled`), `FilesAreAccounted` follow, together `LoadingIsSound`.
  A file that is listed after the one that found the set full is neither read nor warned
  about, and the theorem says so.
  `ProcessInvariant` composes the two with the arguments, the configuration and the exit
  status: a part that has not been reached is at rest, a part that was left keeps what it
  ended with. From it follow `ProcessTypes`, `ProcessEndsInOrder`, `ProcessPresetsSound`,
  `StatusTells`, `DeniesByDefault` (a server that runs has a configuration that passed
  `checkSecurity`: on an address others can reach it has keys or the operator's
  acknowledgement, on the loopback address it may have neither) and `TellsTheTruth`, for every environment over the enumerated tokens.
- **Fetch and decode** (`EndpointsProofs`). `FetchGuarded` carries the vetting of the pinned
  address from the answer of the resolver to the connection: a stage at or after the dial
  has an address that was vetted, and no stage has more connections than one.
  `FetchInBudget` needs that every stage before the end still has time left (`TimeLeft`),
  as each wait is cut at what remains. `FetchIsSound` is both. `SearchStaysBounded` relates
  scans to budget and stack to depth, and keeps every strip inside the image.
  `ReportIsComplete` is the argument of `multiScan.walk`: while neither depth nor budget ran
  out, each code not yet found lies whole in a strip still to be walked, because the box of
  one code leaves every code that does not overlap it whole in one of the four strips. It
  has the hypothesis `SeparateCodes`: the codes of an image do not overlap and each is
  larger than the strip that is too small to scan. The code promises no more ("a sliver
  narrower than this cannot hold a readable symbol", `internal/decoder/decoder.go` 287), and
  the run's uploads satisfy it.
- **Pipeline** (`EndpointsProofs`). `PipelineInvariant` says what each phase has
  established: that the accepted request says what its message says (`Heard`), that the
  data to encode is the one stated intent (`BuiltOnce`), that the logo that was asked for
  is there (`Branded`), how often a stage began late by phase (`LateSoFar`), and the fetch's
  own invariant. Under it are lemmas on the layers of the decoder, one per
  transport. `RequestIsHonoured`, `OverrunIsBounded` and `ServedIsAsAsked` follow;
  `LogosFetchedSoundly` and `CallTypes` are about the composed call.
- **Names and archive** (`PackagingProofs`). `NamesInvariant` adds which slots have a name
  by now, that each name given is a good one, and how many are taken. That `unique` ends
  needs that at most one name is taken per slot passed and that numbered names differ for
  different numbers (the positions of the last dot agree), so one of N + 1 numbers is
  free. `EntriesAreHonest` is about loops over data: `Cleaned`
  and `Kept` are recursive functions, and an induction over the length of an id shows that
  what `safeStem` writes is made of safe tokens, never has two dots in a row and starts with
  neither a dot nor a hyphen. `Itoa` recurs on all of Nat, and exists because its finite
  parts do and agree.
- **Sheet** (`PackagingProofs`). `CellsInsidePage` and `CellsApart` are the geometry, from
  division with remainder and one monotonicity lemma; they hold even where the count of
  cells wrapped, since wrapping only lowers it. `SheetInvariant` adds that a request past
  the checks satisfies them, and that content streams draw only positions of their page;
  `LabelsLandOnPaper`, `ImagesStoredOnce` and `SkipNeverWraps` follow. `DrawingInvariant`
  adds the numbering of the objects (`Document`): catalogue, page tree and font, the images,
  then a content stream and a page in turn, so that a reference written ahead names the
  object that will be there; and that every reference is to the image of its cell
  (`RefsMean`). That labels land in their own cells is stated where `PerPage` is positive
  (`Countable`), since it is false of the grids whose count wraps below one. The count of pixels is their sum by induction over the images.
- **Packaging** (`PackagingProofs`). One of the two documents is at rest while the other is
  made (`PackagingInvariant`); `EntriesAreDistinct`, `EntriesAreHonest`, `SheetsAreSound` and
  `SheetsAreDrawn` are the properties of the run.
- **Tables** (`CallsProofs`). `TakesAreAnswered` says that a batch in hand has the answer of
  `Run`; the rest of `CellsReachTheirItems` is about the functions, for every table and every
  limit. In an accepted header each name has one column, so that an item is its row
  (`ItemIsRow`); two sequences of which the same places are kept stay in step (`KeptPairs`,
  by induction), which pairs the rows that say something with the items, and the items of a
  table with those of the same table in another order of columns (`SameReading`).
- **Drawings** (`CallsProofs`). `SymbolsAreKept` says of every matrix and every style what
  `calls` checks of a few. `RenderIs` reads the canvas off `Render`, field by field, and
  `ShapeIs` the rectangles off the canvas; `DecorPlaced` bounds the frame, its bar, its tail
  and the caption by the pads and the band, and from these follow that no decoration enters
  the symbol or its margin (`DrawnClear`) and that a module is dark exactly where the encoder
  made it so, but for the hole of a logo (`DrawnIntact`). `Squares` turns the sets of modules
  of the finder patterns into inequalities; with it the corner that `findEyes` recognises by
  its neighbours and the one that `svgEyeOrigins` computes from the size are the same three,
  because two patterns of a symbol of 21 modules or more do not touch (`DrawnAgreed`).
- **Reports** (`CallsProofs`). `ReportsAreHonest` takes the report apart into a cost and two
  flags per check: a check that fires for a design fires for the same design with a weaker
  level or a larger logo, or one at least as grave fires in its place, so that the sum of the
  costs only grows and the grade only falls; the share of dark modules, which a larger hole
  changes, is bounded on both sides. That the insertion sort of `slicesSortIssues` yields the
  errors, then the warnings, then the rest, each in the order found, is an induction over the
  list with three growing parts (`Inserted`).
- **Writers** (`CallsProofs`). `DesignsComeOutAlike` shows for each way of writing that what is
  inked is what is dark. A run of a row is a maximal stretch of dark modules: each dark module
  lies in one, by the greatest start and the least end around it, and two of a row that differ
  do not meet (`RunsDrawn`, `RunsApart`). A terminal's cell stands for two rows (`CellsDrawn`);
  a finder pattern painted whole covers what the encoder drew of it (`PaintedWhole`). Blending
  is division with remainder (`InksBlend`), a ramp a search for the neighbouring stops
  (`StopsParsed`, `SampleBetween`), and a PDF's offsets an induction over its objects
  (`ObjectsResolve`).
- **Encoders and suggestions** (`CallsProofs`). `MistakesAreCaught` rests on one notion: a
  number *closes* when its last digit is the check digit of the rest (`Closes`). What an encoder
  of numbers answers closes, and is taken as it stands when it is whole (`NumberPayload`,
  `ClosedTaken`). A check digit is the remainder of a weighted sum; two lists that differ in one
  place differ in their sums by that much (`OneTermChanged`), one to nine times one or three
  leaves another remainder of ten (`RemaindersDiffer`), hence `MistypeCaught`; for a UPC-E this
  goes through its expansion, in which each of the first six digits appears once
  (`BodyChanges`). Zeroes in front change no sum (`ZeroesInFront`), so that a padded or expanded
  number closes too (`PaddedCloses`, `ExpandedCloses`), and weights counted from the left are
  those counted from the right in the lengths an EAN has (`EanClosing`), so the library agrees
  (`NumbersDrawn`, `OthersDrawn`). An encoder calls nothing too long that its capabilities admit unless the
  library does, and the library only past a hundred bytes in two dimensions
  (`HeldAsAdmitted`, `HeldIsHonest`). The two rows of `levenshtein` hold the table of distances
  because neighbouring cells differ by at most one (`RowsSmooth`): where two letters are equal
  the diagonal is then the least of the three, which is how the definition has it
  (`RowsAreDistances`), and there is only one such table (`OneTable`).

**Induction over data.** The library's induction theorems take an operator as a parameter,
which no installed prover can instantiate. `DataInduction` states them for sets instead: a
set of numbers that has 0 and, with each number, the next one, has them all (`Induction`,
by the least counterexample); and a step function on a named set has a function that
computes it (`Recursion`). With these what a recursive *function* computes can be proved;
`Cleaned`, both `Kept`, `PixelsHeld`, the numerals of `Itoa`, `Cost`, `slicesSortIssues`,
`pdfSerialise`, `Weighted` and `levenshtein` were written as such functions.

**Assumptions.** Each is named, stands in the module that declares the constants, and is
evaluated by TLC on an instance. `BudgetAssumption`, `NAssumption` and their like say that
counts and limits are natural numbers. `PlainAssumption` says that digits are plain tokens
and separators are not, `SuffixAssumption` that the loop of `unique` is followed far enough,
`NamesAssumption` that ids are sequences. `SheetAssumption` says that limits are natural
numbers and that a batch and its cap do not sum past the word; grids are any whole numbers. `NumbersAssumption`, `DefaultsAssumption` and
`EnvironsAssumption` give `Config` a word of some size, defaults that parse, and environments
that are sequences over its tokens. `MessagesAssumption`, `StagesAssumption` and
`LogosAssumption` say that messages name only keys there are, that an encoder refuses
with one of its two faults, and that a logo a message names has a reference.
`UploadsAssumption` puts the codes of an image inside it. `BatchesAssumption` says that a table
begins with its header and that the limit on items is a natural number. `DrawingsAssumption`
gives a matrix and a style the types of their fields; it says that only square symbols are
`qr`, and that none is narrower than twice the tail of a bubble, four modules: the smallest
symbol an encoder makes, a Data Matrix, is ten by ten. It also says that an encoder draws a
finder pattern as the standard has it, seven modules with a ring and a core, since the writers
that paint it whole do not look at the modules. `InksAssumption` and `RampsAssumption` make a
channel and an alpha a byte and a stop a colour at a place, `KeysAssumption` a key a word, and
`BarcodesAssumption` a payload a sequence over the characters that the encoders tell apart,
with the options of a symbology there is.

**What the proofs found in the models.** Several operators were written as `CASE` with arms
that overlap, where the code tests in order. TLC takes the first arm that is true, so every run
passed, but TLA+ lets `CASE` take any of them and the invariants could not be proved. They are `IF` chains
now (`Request`, `Decoder`, `Cards`, `Config`, `Pipeline`, `Drawing`, `Uris`, `Writers`).
`BoundedOverrun` said in its comment that a late request is not answered from a symbol
drawn after its deadline, and in its formula only that two stages are late; it states both
now. `MonotoneVerdict` is false of a picture nearly all dark: a larger hole for the logo makes
it lighter, and the error that "almost every module is the same colour" goes away. No symbol an
encoder makes is such a picture, but the code does not exclude it, so the property now does
(`NearlyAllDark`). `EveryModuleDrawn` compared the sum of the lengths of the runs with the
number of dark modules, which two mistakes can balance; it now says that no two runs of a row
overlap. `CleaningAssumption`, which took on trust what a loop of `safeStem` writes, is a lemma.

Only model-checked: every liveness property (fairness is out of the prover's reach):
`Returns`, `NeverStuckInQueue`, `EveryoneAnswered`, `AllEnds`, `CallAnswered` and
`KeptOnlyIfCalled`; and three of the eight properties of `calls`. `PayloadsReread` relates a
payload to what its parser reads back, through the escaping of seven grammars: each would need
an induction of its own over texts. `PlacesHonest` is the same for notations and links of
places. `RoomKept` is arithmetic on machine words written as sequences of limbs, with a search
for the largest scale in it. They are checked on the instances of `MCCalls`.

## Not modelled

- The bit patterns of symbols and the reading of a strip: third-party encoders and readers
  (`boombuler/barcode`, `gozxing`), external to the models.
- The outlines of module and eye shapes, the glyphs of fonts, and the bytes of the output
  formats (PNG chunks, SVG text, PDF streams, escape codes): drawing, not decisions. What
  they draw, where, and in which object, is modelled.
- The table of label templates, the built-in presets and themes: data. What is done with
  them is in `Sheet` and `Request`.
- The OpenAPI document and the documentation pages: generated or static. Their key check is
  in `Admission`.
- CORS, the body limit, request ids, compression and the wording of logs and of messages.
- Floating point: rates are fractions of a window, lengths are hundredths of a millimetre,
  coordinates are whole seconds, colours are bytes.

What a next step would take: the semaphore's invariant carried through a composition of
`Admission`, `RenderBudget` and `Lifecycle`, with the drain seen by a queued request; and
proofs of the round trips of `calls` and of the room it keeps.
