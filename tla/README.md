# ii-drive in TLA+

ii-drive is a self-hosted drive whose bytes live in Telegram channels: one axum
server on tokio, an embedded SurrealDB for rows, one MTProto connection manager
per account (plus bots), and a web client. This directory models the parts of the
server in which several requests, tasks or failures meet, checks them with TLC
and proves what matters most with TLAPS.

Line numbers are those of `src/src/`. `PROJECT.json` maps every definition to its
lines, lists the hazards at the line where they bite, and names for every property
a mutation of the code that breaks it.

## 1. Inventory

| Component | State it keeps | Operations | Hard behaviour | What makes it correct | Module |
|---|---|---|---|---|---|
| Part plan (`routes/files/upload.rs`) | none | `PartPlan::new`, `expected`, `part_end`, byte router | boundaries, sizes above the document cap | parts tile the file and fit a document | `PartPlan` |
| Resumable uploads (`routes/files/resume.rs`, helpers in `upload.rs`) | `SESSIONS`, spill file, uploader tasks, a progress watch | `init`, `status`, `chunk`, `abort`, `complete`, `sweep`, uploader, rollback | dropped futures, retries, abort or sweep against complete, crash, part failures | stored bytes are the client's; one row; rows name live messages; everyone ends | `ResumeUpload`, `UploadContract` |
| Direct upload (`upload.rs`) | a buffer file, a pumper, a channel and an uploader per part; watches | `spill_upload`, `collect_uploaders`, `cleanup_parts` | body short, long or broken off; a pumper that overtakes its writer | as above; every handler answers | `SpillUpload`, `UploadContract` |
| Telegram transfer (`tg/transfer.rs`) | a channel, workers, a failure counter | `upload_stream`, `upload`, `delete_message` | bounded channel, several receivers, errors | success means delivered; it returns | `UploadPipeline`, `TransferContract` |
| Download (`stream.rs`, `routes/files/serve.rs`) | per part: location, chunk counter, channel; merger's map | `parts_stream_from`, `part_stream`, `fetch_window`, `mark_stale`, `cap` | order, expiring reference, dead worker, short document, client leaves | exact bytes; no quiet end; nobody left behind | `Download` |
| At-rest encryption (`crypt.rs`) | buffers of one stream | sizes, `DecryptingStream` | start inside a block, end of the inner stream, lost tails | sizes agree both ways; the plaintext of the range | `Container`, `Download` |
| Files and folders (`listing.rs`, `folders.rs`, `db/files.rs`, `db/folders.rs`) | file and folder rows, the upload rule | move, show, delete, create, remove, route | check, then act; a delete that restores the row it read | one row per file, final deletions, kept edits, no lost folder contents | `DriveFiles` |
| Thumbnails (`thumbs.rs`, `main.rs`) | preview files | detached task, sweeper | both race with uploads and deletions | listed files keep previews, orphans go | `DriveFiles` |
| Sign-in hub (`tg/hub.rs`, `tg/login.rs`) | users and logins, throttles, session rows | `start_login`, `submit_*`, `claim`, `logout`, `restore`, pruner | two requests for one login, pruner against a holder, failures half-way | one claim, throttle holds, no leftovers | `Login` |
| Session tokens (`state.rs`, `db/settings.rs`, `auth.rs`) | epoch row, epoch cache | `epoch`, `bump_epoch`, `session_user`, `auth_logout` | read without a lock, restart, hang-up | logout is final; sign-in works | `TokenEpoch` |
| Connection manager (`tg/session.rs`, `tg/mod.rs`) | clients, their session rows | `ensure`, `close` | lock dropped before connecting; clients outlive managers | a signed-out account stays out | `TgAccount` |
| Bot pool (`tg/bots.rs`, `db/bots.rs`) | bot list row, pool in memory | add, remove, restore | read-change-write of a list | no lost and no revived bot | `TgAccount` |
| BotFather wizard (`tg/botfather.rs`, `routes/botfather.rs`) | the draft, the chat | relay, cancel, menu walk | late answers, one chat for several requests | an issued token is not lost | `BotFather` |
| Instance tunables (`state.rs`, `db/settings.rs`) | one row, one cache | save, hydrate | row and cache written apart | they agree | `InstanceSettings` |
| Storage channels, database layer, HTTP surface, configuration, setup | little | calls, queries, parsing | external protocols, pure I/O | | section 7 |
| Web client (`web/`) | | one PUT per offset, resynchronises on `status()` | | enters as the discipline of a client | in `ResumeUpload` |

How they meet. Both uploads spawn uploader tasks that call `TgManager::upload`,
which for a large document runs `upload_stream`; the handler joins the tasks and
inserts the row. `raw_file` streams the parts a row names. `delete_file` removes the
row, then the messages. Every request that needs Telegram takes the
account's manager out of the hub and makes sure its client is connected;
`auth_logout` raises the token epoch and, through the hub, drops the manager.

## 2. Modules

| Module | Models | A step is |
|---|---|---|
| `PartPlan` | the arithmetic of part plans | (pure operators) |
| `UploadContract` | what either kind of upload promises | a document comes or goes, or the upload is recorded |
| `ResumeUpload` (extends `PartPlan`) | one resumable upload, its handlers and tasks | what happens between two awaits; a critical section of `SESSIONS` |
| `SpillUpload` (extends `PartPlan`) | one direct upload, its pumpers and uploaders | between two awaits; reading an end of file and looking at `feed_done` are two steps |
| `TransferContract` | what `upload_stream` promises its caller | an effect the caller can see |
| `UploadPipeline` | one call of `upload_stream` | a channel operation, a read, an RPC |
| `Container` | sizes and offsets of an encrypted part | (pure operators) |
| `Download` (extends `Container`) | one range of one file | between two awaits; a refetch and its answer apart |
| `Handlers` | how a request arrives, goes on and is cut short | |
| `DriveFiles` (extends `Handlers`) | rows, folders, messages and previews of a drive | a query, an RPC, or a file operation |
| `TgAccount` (extends `Handlers`) | manager, clients, session rows and bots of an account | between two awaits |
| `BotFather`, `InstanceSettings` (extend `TgAccount`) | the wizard's chat and draft; the tunables | between two awaits |
| `Account` | composes the last three: same requests, same manager, one process to restart | |
| `Login` | one number and one account of the hub | between two awaits |
| `TokenEpoch` | the epoch of one account | a query, or a critical section of the cache |
| `MC*` | constants of the runs, symmetry | |
| `*Proofs` | theorems | |

State and actions follow the code by name.

- `ResumeUpload`: `phase`, `received`, `inFlight`, `handles` are the session entry,
  `onDisk` and `file` the spill buffer, `st`/`try`/`data` the uploader tasks,
  `messages` and `rows` what Telegram and the database have. A chunk is `ChunkBegin`,
  `ChunkAppend`, `ChunkAck`; `complete` is `Gate`, `ReadHead` or `Fallback`, a
  `JoinOk` or `JoinErr` per part, `Undo` per message, `Insert`, `Retire`. `Faults`
  chooses what the environment may do: drop a handler's future, tear a write, lose an
  answer, restart the process.
- `UploadContract` knows neither requests nor tasks: the documents Telegram has (`held`),
  the rows, and whether a part was closed early (`torn`). `Record` asks that there was no row, and that
  the documents of the new one cut the declared file into pieces in their order. `ResumeUpload` maps
  `messages` and `rows` to it (`torn` is FALSE), `SpillUpload` the posted parts, and `stale` to `torn`.
- `SpillUpload` (also extends `Container`): the handler's `pc` walks the phases of `spill_upload` (feed, flush,
  wait for pumpers, collect, insert); per part a pumper tails `file` into `chan` and
  an uploader drains it into `doc` and posts. With encryption on (`sealed`) `upload_stream` is told the size of
  the container (`SentSize`); `doc` stays the plaintext. The state `stuck` of an uploader, here and in
  `ResumeUpload`, is a call of `upload_stream` that never returns (`UploadHangs`).
- `Download`: a worker is `Take`, `Read` (the location, under the lock), `Fetched` or
  `FetchFails`, on an expired reference `Mark`, `Refetched`, `Store`, and `Send`; the
  merger is `Recv`, `HandOutPending`, `RecvError`, `PartEnds`, with the decryptor's
  blocks and `cap` behind it.
- `DriveFiles`: a request is a record with the await it stands at and its locals;
  `DELETE` is `DeleteOwned`, `DeleteRow`, `DeletePart` per message, then `Restore` or
  `DeletePreview`; an upload is `UploadCheck` (the folder, before the body), `UploadPost`,
  `UploadInsert`, `UploadPreview`; removing a folder is `RemoveGet`, `RemoveCheck`, `RemoveFolder`.
- `TgAccount`: `hub` is the users map's slot, `held` the clients installed in
  managers, `open` those connected; `Save` is a client writing its session row, which
  it may do for as long as somebody holds it.
- `Login`: the steps of `claim` are kept apart in the order of the code, because that
  is where a logout, the pruner or a hang-up comes between. A send is booked by `Reserve` and Telegram is asked
  in `AskCode`, two awaits later. `lingering` is a manager that was closed while a request may still use its
  clients; `LingerSaves` is one of them writing the account's row.

Some variables are history, for the properties only, and no guard of the code's steps
reads them: they are listed last among the VARIABLES and marked.

Operators marked "mutant" or "variant" are mutated forms of the definition after
them; no specification uses them. `PROJECT.json` puts them in the place of that
definition to show that a property can fail.

## 3. Runs

| Run | Asks | Answer |
|---|---|---|
| `resume_calm` | nobody lost, no disk error: are bytes, rows and liveness right under two handlers, retries, abort, sweep and failing parts? | `SpillMatches`, `OneFanOutRunning`, `CompletionAnswered`, `UploadersEnd` hold, and `Implements`: it refines `UploadContract` |
| `resume_chaos` | what survives disconnects, disk errors, lost answers and a crash? | `SingleCompletion`, `RowSound` |
| `resume_disconnect` | does `RowFaithful` survive a client that vanishes? | violated, finding 1 |
| `spill` | bodies shorter than, as long as and longer than declared, one or two parts, sealed or not, two faults | `StoredUnlessStale`, `Answered`, `TasksEnd` hold, and `Implements`: it refines `UploadContract` |
| `pipeline` | three workers, eight parts, a channel of three, failures up to all workers | `Delivered`, `NoPartTwice`, `Returns` hold, and `Implements`: it refines `TransferContract` |
| `token_serial` | logouts one at a time against logins, requests, hang-ups, restarts | `RevokedStayDead`, `FreshAccepted`, `CacheBehindStore` hold |
| `token_racing` | two logouts at once | `RevokedStayDead` violated, finding 2 |
| `download` | plaintext and encrypted parts, two workers, two faults of any kind, a client that leaves | `RangeExact`, `NeverShort`, `OneHolder`, `Ends`, `WorkersEnd` hold |
| `download_sealed` | the same without any fault: is a download seamless? | violated, finding 3 |
| `login` | two requests, two logins, pruner, logout, clients that outlive it, failing deletions, hang-ups, restart | `OneSendPerWindow`, `AttemptsBounded`, `OneClaimPerLogin`, `EndedLoginLeavesNoRow`, `SessionAndManagerAgree` hold |
| `drive` | three requests of any kind on one drive, thumbnail tasks, sweeper, a crash | the six invariants and `OrphanPreviewsSwept` hold |
| `account` | three requests over connections, bots, wizard and tunables, one hang-up or restart | `SignedOutStaysOut`, `BotsKept`, `IssuedTokenKept`, `InstanceAgrees` hold |

Deadlock is checked in `drive`, where the schedule can always be set again. The other models end in
states where nothing is left to do (the upload is stored, the call has returned, the
bounds are used up).

`Implements` of `resume_calm` says at once what `AtMostOneRow` (a second row is no step of the contract) and
`RowFaithful` (a row's documents are the file) say apart; those two are proved under weaker or equal hypotheses, and
`RowFaithful` is what `resume_disconnect` shows broken.

Several properties name the situations in which the code does let go, and say that
there is no other: `crossed` (a logout overlaps a claim), `unfiled` (a claim or logout that broke off),
`revived` (a client that outlived its manager wrote the account's row again), `orphaned` (a throwaway row
whose handler broke off, whose deletion failed, or that a late connection wrote), `late` (code requests booked
before a cooldown ended and sent after it), `failed` (a deletion that gave
up), `astray` (arrivals during the removal of their folder), `swept`, `tangled` (two writers of
one row), `leftover` (session rows that a sign-out did not take), `stuck` (an uploader that `upload_stream`
never answers), `stale` (a pumper's early end
of file), `Clipped` (a container cut at a block's end, or inside a tag).

What a property counts is sometimes narrower than its subject. `tested` leaves out the secrets of
clients that hung up before their failure was recorded. `wanted`, the bots that `BotsKept` asks for, is written with the
list, not at the answer. `AcknowledgedEditKept` takes an edit for acknowledged at its query. In `download`
the channel of four is never full, since a part has at most three chunks.

### Findings

1. `resume.rs:329-331` promises that the spill file stays byte-identical and that "a
   retry can never interleave". A request dropped between the append (362) and the
   acknowledgement (373-381) leaves bytes in the file that `received` does not count.
   The client asks `status()`, sends them again, and they are appended twice. Every
   later length check passes.
2. `db/settings.rs:234-237`: "two concurrent bumps can only ever land on the same new
   value", and a logout stays honoured across a restart. A bump that reads early and
   writes late lowers the stored epoch.
3. `stream.rs:366-369` promises a contiguous stream. `DecryptingStream` polls its inner
   stream again after it ended (`crypt.rs:643`) when a block is left to decrypt; the inner
   stream of a download is an `unfold` (`stream.rs:285`), which panics then. The tests use a
   stream that does not.

### Other weaknesses the models show

These are exceptions named in the properties or in the hazards. Where a text of the repository speaks of
the matter it is quoted:

- `transfer.rs:248`: if every worker fails and the channel is full, the producer waits
  for ever, because the caller holds the receiver (220) and `send` never fails. Whoever joins that part,
  `collect_uploaders` or `complete`, waits with it.
- `upload.rs:397`: a body longer than declared spins without an await at the first byte
  that no part has room for.
- `upload.rs:275`: a pumper that read an end of file before the last bytes were written, and looks
  at `feed_done` after, drops them; a client that hangs up earlier leaves pumpers that
  poll for ever.
- `upload.rs:156-167`: with encryption on and no smaller split, a file above Telegram's document cap is cut into parts of
  exactly the cap (and one just below it stays one part), which grow when they are encrypted (337, and 608 for the resumable upload), and `upload_stream` refuses
  them (`transfer.rs:211`) when the whole body has been received (`SealedCapRefused`). The repository's `README.md:14` says that
  such a cap "is honored by splitting into parts".
- `upload.rs:539`: parts are joined in order, and on a failure only those joined are removed; a later part already posted
  stays in the channel. The comment at 507-508 says "on any failure the already-posted parts are removed so no orphans
  stay behind".
- `resume.rs:362`: `write_all(..).or(flush(..))` takes a torn append for a good one.
- `stream.rs:470`: a container that lost its tail at the end of a block, or inside the tag of the
  next one, or of which less than a tag is left (`crypt.rs:554`) ends quietly, and the next
  part's bytes follow; `stream.rs:135`: if the refetch of a location never succeeds the worker goes
  round without a pause.
- `listing.rs:116`: a failed deletion undoes an edit acknowledged meanwhile, and may
  restore a file into a folder removed meanwhile; `folders.rs:62`: what arrives between
  the look and the DELETE ends in a folder that is gone.
- `thumbs.rs:137`: a sweep may remove the preview of a file uploaded while it runs; with the schedule off or
  invalid (`main.rs:89-90`, 100-105) orphaned previews stay.
- `tg/session.rs:219`: a connection that finishes after the logout writes the session row again, and so does a
  client that is still in use (80-91). `tg/hub.rs:296-298`: a sign-out that cannot delete the bots' rows is acknowledged
  all the same.
- `tg/login.rs:193`, 215: a secret that is accepted after the pruner closed its login connects it again, and the throwaway
  row is back (`known_user_id`, 141); `tg/hub.rs:498-500`: the pruner only logs a deletion that fails.
- `tg/hub.rs:407-409`: the cooldown runs from the booking; a request that takes longer than the cooldown to reach
  Telegram and the next one then ask in the same window.
- `routes/session.rs:219`: two additions to the bot pool lose one; `remove_bot` leaves the
  bot's session row; after signing out and in the pool is empty until a restart (`app.rs:139`).
- `tg/botfather.rs:26`: an answer later than eight seconds, or another request's message, is
  not the answer the handler takes; an older token may be taken for the new one (205-209).
- `state.rs:180`: two saves of the tunables may leave row and cache different.

## 4. Bounds, and why they are enough

- `Declared`, `MaxChunk`, `Splits`, `MaxParts` (`ResumeUpload`): a file of two or three
  bytes in one or two parts has a whole part, a short last part, a chunk that ends on a
  part boundary and one that crosses it. `MaxSpill`: no chunk begins when the spill file is
  longer; without lost clients it never binds, with them one repeated append is enough.
  `MaxGens` = 2 fan-outs are the least that can meet. `PartRetries`: 1 shows a retry, 0
  keeps the chaos run small.
- `Sizes`, `Bodies`, `Splits`, `Block`, `MaxChunk`, `QueueCap`, `MaxFaults` (`SpillUpload`): four
  declared bytes, with a cap of six: sealed and in one part they make a container of seven, which is refused, in two parts they fit. They stand against three, four and five received, in one part or in two; blocks
  and chunks of two bytes cross and meet the boundary; a channel of one (8 in the code) is full at
  once; two faults let the second fall into the handling of the first. Size 0 is in.
- `QueueCap`, `Total`, `MaxFail` (`UploadPipeline`): with a channel of three and eight
  parts it is full and empty in turn; three failures can stop all three workers.
- `Files` (`Download`, in `MCDownload`): in plaintext a first part of nine bytes in chunks of four,
  read from byte 2 (inside a chunk, a chunk more than workers, a last chunk of one byte) and from the
  last byte of the file; encrypted, parts that end with a whole block and a part whose last block is
  short, read from a block's start and from inside it. Headers of three bytes, tags and blocks of
  two lie across the chunks. What may be left of a container: less than a tag, less
  than a header, the header, header and tag; header and block, alone, with half a tag and with the
  next tag. The channel of `2 * Workers`
  has that size. `MaxFaults` = 2 of any kind and in any order.
- `DriveFiles`: one stored file, one to upload, two folders, two messages per file, three requests,
  one crash. Three requests are a deletion, its rival and what either overlooks.
- `Account`: three requests, one fault, one tunable. A bot is named after the request that got it.
- `MaxAttempts` = 2 in `Login` (5 in the code): the block must fall while another
  request waits. `MaxEpoch`, `MaxTokens` = 3: the race of finding 2 needs three bumps.

Symmetry is used only for runs of safety properties, over handlers and logins.

## 5. Fairness

- `ResumeUpload`, `SpillUpload`, `UploadPipeline`, `Download`: weak fairness of each handler's, task's
  or worker's own steps. tokio polls every task that was woken, and the MTProto client
  answers every call or times out. That `upload_stream` returns is not assumed: it may hang
  (`UploadHangs`), and does in `UploadPipeline` when every worker failed. Nothing is assumed of a client: the steps of
  `SpillUpload` that consume the body (`BodyStep`) are not fair, and `Answered` excepts a client that
  stalls for ever (`Stalled`; the server sets no timeout). Only in `Download`
  `Serve` needs the reader to read on: one who stops reading and
  keeps the connection is outside `Ends`, one who leaves is
  `ReaderGone`. No fairness is given to arrivals, aborts, sweeps, faults, expiry.
- `DriveFiles`: a sweeper that runs goes on, and a detached thumbnail
  task runs to its end. That there is a schedule is not assumed: the sweeper falls back to `Off` when the
  schedule is disabled or invalid or a sweep fails (`NoSweep`), and nothing makes it come back. `OrphanPreviewsSwept` takes it
  as its premise (`<>[](sweep # Off)`). No request is assumed to be made or to finish.
- `TokenEpoch`, `Login`, `Account` have safety properties only.

`Download!Ends` and `WorkersEnd` hold because failures are bounded (see `stream.rs:135`
above): the download that goes round for ever is not caught by them. `SpillUpload!Answered` excepts the stalled client, the
spinning router and a part whose upload hangs; `ResumeUpload!CompletionAnswered` and `UploadersEnd` and `SpillUpload!TasksEnd`
except the part that hangs; `UploadPipeline!Returns` the case that every worker failed, which is what
makes it hang.

## 6. Proofs

All theorems hold for every value of the constants that satisfies the named assumptions
beside them.

- `SpillUploadProofs`: first the part plan: `PlainPartsFit` (without encryption what `upload_stream` is asked to
  send is neither empty nor above the cap), `SealedCapRefused` (with encryption a first part at the cap is always
  above it, see the weaknesses in section 3), `PartsTile`, `RouterAgrees`. Integer
  division enters through one lemma (the quotient's bounds), the rest is linear arithmetic on
  it. On the plan rests `RecordedIsReceived` (`StoredUnlessStale`), for any body, size, split,
  block, channel and faults. The invariant follows one part from the router to its
  document: its buffer holds what was routed to it (`Written`); document, channel and the pumper's hand
  follow each other without a gap (`Flowing`); a document that is posted is all the
  pumper read, and the pumper read all or took a stale end of file (`Taken`).
  `Feeding` says what the handler knows of the body in each phase, `Collected` that
  a task it has joined has its message. `SpillImplements` (`Implements`) is the refinement of
  `UploadContract` from the same invariant: when the row appears nothing else moves and the documents
  are the pieces of the plan (`WholeFile`); after it every task has ended, so the row stays
  (`DocumentsStay`); only a pumper at an end of file tears (`OnlyAnEndTears`).
- `DownloadProofs`: `SizesCorrespond` (`DecryptedSize` inverts `EncryptedSize` for all sizes
  of block, tag and header) and `RangeStartsInside`, from existence and uniqueness of quotient
  and remainder. `ChunkInOnePlace` (`OneHolder`): the shared counter is ahead of every chunk
  that is in hand, in the channel or in the merger's map, and the merger's place is behind them. The
  invariant claims nothing between two parts, where a worker of the last one may still stand.
  `BytesInPlace` (`RangeExact`) and `EndsForAReason` (`NeverShort`) rest on a second invariant,
  `Serving`, on top of the first. While a part is merged: every chunk below the counter is with a worker, in
  the channel, in the map or handed out, unless something failed (`Accounted`), so a part that ends
  with a hole has a fault to blame; what was handed out is the document up to `Pos`
  (`InDocument`); the decryptor holds the bytes from `First` to `Pos`, in that order
  (`Holding`); and what was sent ends where the part's plaintext has been served up to, `Here`,
  unless a tail was lost before (`Aligned`). When a part is over, `PartOver` reads off from these that the next
  byte is the next part's first one, or that the part is `Clipped`. The sums of the sizes of
  the parts are a recursive function: that they exist, add up and grow is proved
  by looking at a least counterexample (`LeastOf`, `Inductive`), since the library's induction rule cannot be instantiated.
- `ResumeUploadProofs`, in order of what they assume of the faults.
  - Any fault: `TypeCorrect`, which needs `SpansFit` (the chunk being appended ends inside
    the declared size, as `chunk` checked when it began); `CompletionIsExclusive`, in which each step
    that takes a handler in or out of `complete`, or ends the session, is a case; and
    `RowsAreSound`. Its invariant, `Ledger`, is about who owns a message: a fan-out is joined by
    one handler, the first by whoever took the handles out of the session; as long as that
    handler has not begun to roll back, every message its tasks posted is there (`Posted`); once its
    row is inserted nobody is left who could delete them (`Rows`).
  - No client hangs up: `RecordedOnce` (`AtMostOneRow`), since the handler that inserted
    is still there to end the session, and nobody else is past the gate.
  - No hang-up and no disk error: `NoTwoFanOuts` (`OneFanOutRunning`). Whenever a new fan-out may
    begin, the tasks of the last have ended (`Latest`).
  - Telegram errors and crashes only: `SpillIsAcknowledged` (`SpillMatches`) and `RowsHoldTheFile`
    (`RowFaithful`). The spill file is a beginning of the client's file that
    ends at `received` or at the end of the one chunk being written (`Prefix`), and a part is read
    when `received` has passed its end (`Reads`). `ResumeImplements` (`Implements`) puts the four safety results
    together: the parts of one fan-out are the pieces of the file (`FanOutIsTheFile`), only the
    insert changes the rows, and there was none before it (`OnlyInsertRecords`).

  These hypotheses are tight: TLC breaks `AtMostOneRow` with `disconnect` alone, `OneFanOutRunning`
  with `disconnect` or `disk` alone, `SpillMatches` and `RowFaithful` with `disconnect`, `resend`
  or `disk` alone.
- `UploadPipelineProofs`: `PartsInOnePlace` and `SuccessMeansDelivered`. The inductive
  invariant says where parts are (`OnlySent`, `OnePlace`, `Accounted`) and what the way each
  side stopped tells about the other (`Stops`). `PipelineImplements` is the refinement of
  `TransferContract`: from the same invariant, every step saves a part, breaks, answers or
  changes nothing the caller sees.
- `TokenEpochProofs`: `RevocationHolds`, `FreshTokensWork`, `CacheNeverAhead`, from the
  assumption `Serial` (at most one logout runs; finding 2 shows that it is needed). The
  invariant bounds cache, reads in flight and tokens by the stored epoch and says what a
  logout is about to write.
- `DriveFilesProofs`: all six invariants of `drive` (`RowsUnique`, `DeletionsFinal`,
  `ListingsStored`, `EditsKept`, `LateArrivalsOnly`, `PreviewsKept`). None of them is
  inductive: that a restore makes no second row depends on what the request did three awaits
  before. The invariant is an argument about a token. `Tokens`: a file that is neither stored nor
  gone is held by one request, the upload that will insert its row or the deletion whose DELETE found
  it, and a file once deleted has neither row nor holder. `Whole` and `Gone` say what
  the holder has behind it: all messages posted before an insert, all messages up to the current
  one removed in a deletion. `FileStep` shows once that a step on one file does not disturb the
  others; each of the nine steps that hand a file over is then a few lines. `Seen` and `Strays`
  carry the folders: a request that goes somewhere saw the folder exist, so
  what it puts into a folder that is gone, or about to go, is recorded as astray. The root is never either.
- `LoginProofs`: all five properties of `login` (`OneCodePerCooldown`, `BruteForceBounded`,
  `OneClaim`, `NoRowLeftBehind`, `ManagerHasSession`), for any number of requests, logins
  and attempts. A login is its lock holder's from the taking of the flow to the answer (`Locks`), so
  what `Claims` says of a flow stays true under a request that waits. While the block holds nobody
  passes `gate`, so what may still be tested is counted by the requests past it:
  `Attempts` adds cardinalities, and so does the bound of codes, over the requests that booked before a cooldown
  ended and have not asked yet. `Rows` names, for each row of a login that is over, who
  will delete it or why nobody will (`orphaned`), `Agreed` what a claim, a logout and the clients of an old manager
  leave to each other.
- `AccountProofs`: the four properties of `account` (`SignOutIsFinal`, `NoBotLost`, `TokenKept`,
  `CacheIsRow`), for any number of requests, faults and tunables. All rest on one writer at a
  time, unless the store is tangled, and on what that writer holds: the changed tunables
  (`Tunes`), the list it read (`Listing`), the draft (`Drafts`, with `Chat` for what BotFather
  still owes to whom). `SignOut` needs `Managers`: a manager is in the hub or in a
  request's hand only after the request that made it has ended (or it is that request, still
  signing in or out), so a client that writes its row after the sign-out had outlived its
  manager, and its row is in `leftover`, as are the bots' rows that the sign-out failed to delete. `NoBotLost`
  is about the stored list only: the pool in memory is empty after signing out and in until a restart.

The invariants were model-checked with the constants of the runs before they were proved.

Every invariant, action property and refinement that a passing run checks is proved. Only model-checked: all liveness,
`OrphanPreviewsSwept` among it (liveness under fairness, and ENABLED, are beyond the installed provers).

## 7. Not modelled, and why

- Inside modelled components: names, MIME types, which channel a part goes to; token
  signatures and expiry; the one-time migration of session files; credentials and headers of a
  download; the 4 KiB ladder of `fetch_chunk`, which only changes the windows a
  chunk is read in; renaming, listing and paging; which bot serves which chat; the status
  cache and the peer cache of a manager.
- `serve.rs:55` underflows for a file of size 0. Files of the model have at least one byte; the
  range asked for is clipped or refused as there (`Asked`).
- The header of a container is checked in one step (the magic comes first in the code, the nonce a read
  later). A container of 16 to 33 bytes makes the decryptor fail on its nonce; only a tampered
  document has that size, and the model keeps to what the program stores.
- The cipher is an assumption (a block opens if it is complete and genuine), and so are Telegram,
  @BotFather, the disk and SurrealDB: a query is one step. It may fail where the failure leaves something behind
  that the handler's hang-up at the same place does not (rows of bots, the bot list, the draft, the tunables, the
  insert of a file, the deletions of the hub); a query that fails before anything changed ends the handler as a hang-up does.
- Out of reach or without state of interest: image processing and ffmpeg, storage channels,
  parsing, static assets, configuration, the setup wizard, the benchmark, migrations.
- Other uploads reach an upload only through `sweep`, so one is modelled. Other accounts reach
  a drive nowhere: their requests end at the first read, as for a missing id.

## 8. Where to go on

The clock of the sweep's timetable; `Login` and `TgAccount` over one users map; and one contract of upload
and download together: what `UploadContract` records is what `Download` sends.
