# mdloop in TLA+

mdloop is a server for Markdown documents that people and agents review together: documents are
uploaded in versions, commented on, edited through suggestions, approved, shared, published, and in
the end erased. This directory holds TLA+ models of its stateful parts and of the algorithms they
rest on, the TLC configurations that check them on small instances, and TLAPS proofs of nearly all
safety properties for instances of any size. Paths below are relative to `src/packages/`.

`tlc -config MCReview.cfg MCReview` runs a model, `tlapm ErasureProofs.tla` checks proofs.
`PROJECT.json` maps every definition to the lines it models, lists the runs with their properties,
a mutation of the code for each property that the run must notice, the hazards and the findings.

## 1. The system

| Part | State | Operations | Talks to |
|---|---|---|---|
| Uploads (`app/use-cases/upload.ts`) | none of its own; a request holds a reserved `seq` between its transactions | `uploadNewDocument`, `uploadNewVersion` | database, blob store |
| Version and blob store (`persistence`) | `documents` (`next_seq`, `current_version_id`, `deleted_at`, `purge_after`), `document_versions`, `search_index`, object store keyed by document, seq and hash | one transaction or storage call each | Postgres, S3 or file system |
| Lifecycle and erasure (`documents.ts`, `purge-versions.ts`, `erasure-replay.ts`, `jobs`) | `erasures` log, the position of a running cycle | soft and immediate delete, retention sweep, version purge, replay | store, blobs, scheduler |
| Public hub (`public-hub.ts`, `pg-repositories.ts`) | `public_documents`, public objects keyed by row and seq | publish, unpublish, list | document, version and blob, read in three calls |
| Comment threads (`comments.ts`) | `comments` and the version each is pinned to | create, reply, resolve, delete | version purge (pins), review gate |
| Review (`review.ts`) | `review_requests`, `approvals`, the approval gate of the organization | request, revoke, submit; derived status | threads, versions |
| Suggested edits (`suggestions.ts`, `reanchor-threads.ts`) | outcome and applied version on a comment | accept, reject, discovery on read | threads, versions |
| Re-anchoring and comparison (`domain/reanchor.ts`, `doc-diff.ts`, `web/anchors`) | none | resolve an anchor in a later version; compare two versions; capture a selection and mark it | the diff library, the parser |
| Sharing (`sharing.ts`, `guest-sharing.ts`, `project-sharing.ts`, `policy.ts`, `permission.ts`) | `share_grants`, users of role guest | links, user, project and guest grants; redeem, revoke | settings of the organization, project of a document |
| Membership (`sign-in.ts`, `invites.ts`, `org-settings.ts`) | `users`, `org_invites`, allowlist, provisioning mode | sign in by invite, by SSO or as a founder; invite, revoke, list, change a role | the role in the session's cookie |
| Sessions (`api/auth`) | session and CSRF cookies, the signing secret, a cached `sessionMaxHours` | issue, refresh, clear; the guards of a request | settings, grants of a guest |
| Projects and paths (`documents.ts`, `projects.ts`, `upload.ts`) | project, path and archive flag of a document, the organization's advisory lock | create, move, archive, push to a path, make and remove a project | caps of the tier, unique index, foreign key |
| Home screen (`web/components/shell.tsx`) | lane, listed documents, cursor | select a lane, load more, act | `homeOverview`, by keyset pages |
| Viewer (`web/components/viewer.tsx`) | threads, resolved cache, filter, text, old version, triage | create, resolve, delete, upvote, upload, select a version | the API, answers in any order |
| Tiers (`domain/tier.ts`) | none | profiles, clamps, checks of caps | uploads, sharing, settings, purge |
| Rate limiting (`domain/rate-limit.ts`, `app/user-rate-limit.ts`, `persistence/rate-limit/redis-rate-limiter.ts`) | bucket and windows of a user, in the process or in a shared store | one check per request | a pool of connections |
| CLI push and watch (`cli/push.ts`, `watch.ts`, `lock.ts`, `manifest.ts`) | `.mdloop/manifest.json`, `.mdloop/.lock`, debounce timers, queue of one | push, watch, signals | server over MCP, file system |
| CLI local instance (`serve.ts`, `open.ts`, `local-instance.ts`, `instance-record.ts`) | `instance.json`, an embedded database, a supervisor and two children on fixed ports | `serve start`, `serve stop`, `open`, signals | the pid file protocol of the lock |
| REST API, MCP server | none that outlives a request | parse, authenticate, call a use-case, answer | use-cases |

How they interact. The API and the MCP server run use-cases; a use-case runs several transactions
and storage calls with nothing held between them; the scheduler runs sweeps over the same rows in
its own process; several servers share a database, a rate limit store and a signing secret, which
is rotated on one after the other; the browser has several requests in flight and keeps what they
answered; the CLI is one more client, and several of its processes share one folder.

What is hard, and where (the list `hazards` of `PROJECT.json` has each at its line):

- *An operation is several transactions.* An upload reserves a number, writes a blob and inserts a
  row in three; the version purge reads a pointer, a list and the pins, and then acts on them one
  version at a time; a publish reads a document, a version and a blob, and writes its row before its
  object; the hard gate counts and then inserts; accept and reject read and then write; a share
  reads the document, the caller's grants and the settings, and then inserts; a sign-in looks an
  invite up, makes a user and marks the invite; a push looks for a path and then writes it.
- *Order.* Numbers finalize in another order than they were reserved; verdicts get the time of a
  clock that is cut to milliseconds and are listed newest first in one place and oldest first in
  another; cursors are cut the same way; answers reach a page in another order than they were served.
- *Stale credentials.* A cookie carries a role, an expiry and a signature while the role, the
  maximum and the secret change.
- *Failure in the middle.* Each call can throw; a server or the scheduler can die; a create cleans
  up behind itself and a push does not; a manifest is truncated before it is written.
- *Exclusion.* A pid file that is created, filled, read and removed in separate steps; an advisory
  lock that some writers take and others do not; compare and swap over shared connections.
- *Liveness.* Deleted documents must be purged whatever the scheduler met on the way; a change the
  watcher heard of must be pushed or reported; a rate limit check must end.

For each part, what makes it correct:

- *Uploads*: a number belongs to one request; a listed version can be read and is what its hash
  says; a row never changes; a document without a version is one whose creation is under way or
  died, or could not be rolled back.
- *Erasure*: what readers see only ever changes as an abstract history allows; the current version
  and the last N are never purged; what is logged as erased is erased; what is deleted goes in the end.
- *Public hub*: what is served under a slug is a snapshot of a version, the one its row names.
- *Review*: one active request per reviewer; a new version resets an approval; the status changes
  for a reason; an approval under the hard gate has seen every comment older than its count.
- *Suggestions*: one decision wins and is final; "applied" names a version that has the proposal.
- *Re-anchoring and comparison*: a letter the script keeps goes to the same letter; each block is
  shown once and in order; what is marked for a selection is what was selected.
- *Sharing*: whoever hands a permission out managed the document or held as much, and share; a
  grant that was revoked stays so; the guests stay within the limit of the tier.
- *Membership*: an invite lets in one person; whoever is in was invited, could join or founded the
  organization; an organization keeps an admin unless a stale cookie takes the last one away.
- *Sessions*: nobody is served beyond what the ceiling, the organization's maximum and the grant
  allow at that time; a refusal has a reason.
- *Projects*: documents created stay within the caps; the database refuses only what was overtaken.
- *Home screen, viewer*: a listing shows each document once; what the reader did last shows.
- *Tiers*: whatever is configured, the tier's ceiling is kept to.
- *Rate limiting*: a window never admits more than its budget, and every check ends.
- *Local instance*: one process has the data directory's database open; what is up can be found;
  children are left on the fixed ports only by force or a record that fails; a signal ends what it was sent to.
- *Push*: the lock excludes; the manifest names what the server has; nothing the folder does not
  know is overwritten without `--force`; nothing pushed is forgotten; no change is dropped in silence.

## 2. The modules

| Module | Models | Composed with |
|---|---|---|
| `VersionStore` | the rows and the object store, one operator per repository or storage method | extended by `Uploads` |
| `Uploads` | the two upload use-cases, one action per transaction, storage call or exception | extended by `Erasure` |
| `DocumentHistory` | abstract: what the readers of a document may see over its life | implemented by `Erasure` |
| `Erasure` | comments as far as the purge looks at them, deletes, the scheduler with its sweeps, the replay | extends `Uploads`, extended by `PublicHub` |
| `PublicHub` | publish call by call, unpublish, the row and the objects of one slug | extends `Erasure`, extended by `ErasureProofs` |
| `Threads` | versions and comments of one live document, seen from the discussion | extended by `Review`, `Suggestions` |
| `Review` | requests, verdicts, the gate, the derived status | extends `Threads` |
| `Suggestions` | accept, reject, discovery of applied proposals | extends `Threads` |
| `PidFile` | create, read, steal and release a file that names a pid | extended by `Push`, `Serve` |
| `Push` | `runPush`, `pushOneFile`, `mdloop watch`, signals, deaths, other uploaders | extends `PidFile` |
| `Serve` | launcher, supervisor, `serve stop`, `open`, the children and their ports, crashes | extends `PidFile` |
| `Permission` | the lattice read < comment < share < edit | extended by `Delegation`, `Sharing` |
| `Delegation` | abstract: who may hand out what | implemented by `Sharing` |
| `Sharing` | grants, links, guest shares, the settings and the project that change under them | extends `Permission` |
| `Membership` | invites, sign-ins transaction by transaction, provisioning, roles and the role in the cookie | |
| `Sessions` | the cookies of one browser, the guards of a request, refresh, rotation of the secret | |
| `RateLimit` | the bucket and its windows, in the process and by compare and swap over a pool | |
| `Workspace` | projects, paths, archiving, caps: creates, pushes and moves with their look-ups | extends `Keyset`, extended by `Home` |
| `Home` | the home screen's requests over a workspace that changes under it | extends `Workspace` |
| `Viewer` | one reader's page of a document, its requests and their answers in any order | |
| `Keyset` | paging by cursor as the home screen, the export, the hub and the threads do it | a library of operators |
| `Tiers` | the profiles, the clamps and the checks of the caps | a library of operators |
| `Reanchor` | the pipeline that finds a comment's quote in a later version | a library of operators |
| `DocDiff` | the comparison of two versions block by block, and the encoding of words | extends `Reanchor` |
| `Anchors` | from a selection in the rendered text to its source and back to what is marked | a library of operators |
| `SharingProofs`, `PushProofs`, `ServeProofs` | theorems | extend the module of their name |
| `ReviewProofs` | theorems about review and suggestions | extends `Review`, `Suggestions` |
| `MembershipProofs` | theorems about membership and sessions | extends `Membership`, `Sessions` |
| `LimitsProofs` | theorems about rate limiting and the tiers | extends `Tiers`, `RateLimit` |
| `WorkspaceProofs` | theorems about the workspace, the home screen and the viewer | extends `Home`, `Viewer` |
| `ErasureProofs` | theorems about uploads, erasure and the public hub | extends `PublicHub` |
| `MCPublicHub`, `MCReview`, `MCSuggestions`, `MCPush`, `MCServe`, `MCSharing`, `MCMembership`, `MCSessions`, `MCRateLimit`, `MCHome`, `MCViewer` | symmetry sets for TLC, and the pure modules whose assumptions the run evaluates | extend the module of their name |

Definitions keep the names of the source where they translate one function (`insertVersionAtSeq`,
`selectVersionsToPurge`, `deriveReviewStatus`). A definition whose comment begins with *Wrong:* is
no part of the specification: it is the form a plausible bug would give the definition next to it,
and serves to show that a property notices it.

### Correspondence of state

- `VersionStore`: `docRow` is `documents` with `deleted_at` and `purge_after` folded into one life
  (`unborn`, `live`, `deleted`, `due`, `gone`); `nextSeq`, `current`, `versions`, `comment`,
  `indexed` and `blobs` are the column, pointer, table or bucket of that name. A version's id is its
  document and number.
- `Uploads`: `req[r].pc` says which call a request makes next. `Holding` requests are the ones
  that carry a reservation across transactions. A create that failed may fail again in its rollback, whose
  error is swallowed: it then ends as `leaked`, and its document stays.
- `Erasure`: `job.pc` is the position in a cycle of the scheduler, with what the sweep read earlier
  kept in `job` (pointer, old versions, pins, work list): it goes stale exactly as the code's locals
  do. `erasures` is the log. `aged` are the versions older than the retention.
- `PublicHub`: `hubRow` is the row of the slug in `public_documents`, `hubObjects` the objects
  `public/{id}/v{seq}`; `publish[p]` is a publish with the document, version, body and row it has read.
- `Review`: `approvals` is a sequence in insertion order; `ask[a]` and `submission[s]` are calls in
  flight.
- `Suggestions`: `suggestion[c]` is outcome and applied version; `decider` and `reader` are calls.
- `Push`: `run[p]` is one `runPush` with the manifest it read (`base`) and its working copy
  (`work`); `job[p][f]` is one worker's `pushOneFile`; `watch` holds the debounce timers, and
  `pushState`. `overtaken` and `run.saw` are history variables: nothing reads them but properties.
  `Beginnings` says how the folder stands at first and which processes run; those of `Hooks` never use
  `--force`, and one that is through with its push may leave (`Leave`), its pid dead from then on.
- `PidFile`: `file` is the lock file, whose, and whether its content is there yet. Reading it, asking
  whether the pid that was read is alive, and removing whatever is at the path by then are three
  steps. `overreached` is history: somebody removed the file of another process that runs.
- `Serve`: `file` is `instance.json`, and `running` its field `state`. `phase[p]` is where a
  supervisor or an `open` is in its life, `launcher[p]` the `serve start` that spawned supervisor `p`,
  `stop[x]` a `serve stop`. `database`, `children` and `port` say which processes have the database
  open, have children, and have children that listen; the api and the mcp child are one, since
  they are started, awaited and stopped together. `GivesUp` is the catch of `runServeForeground` when the
  record cannot be written, or the database not closed: it releases the record and exits, and stops nothing.
  `forced` and `gaveUp` are history.
- `Sharing`: `grants` is `share_grants` in the order of `created_at`; `guest` says that
  `grantee_email` is set, and `status` folds `revoked_at` and `expires_at` into one, with `revived`
  for a guest's grant that was extended after it had run out. `request[r]` is a call with what it
  read: the document's project, the caller's highest grant (`own`), a row. `lived` is history.
- `Membership`: `role` and `account` are a person's row in `users`, found by address and by provider
  identity; `badge` is the role in the cookie; `invite`, `mode` and `allowlist` are the rows and
  settings of those names; `call[c]` is a sign-in with what it has read. `joined`, `loose` and
  `welcome` are history.
- `Sessions`: `jar` is the pair of cookies; a token is its payload and the secret that signed it;
  `release[s]` says which secrets server `s` knows, `cache[s]` is its copy of `sessionMaxHours`;
  `request[r]` is a request with the header and cookie it carries and, once it arrived, the time of that
  (`at`): the guard reads the clock once, before it awaits the organization's maximum, and judges and signs by it.
  `replaced` and `demoted` are history.
- `RateLimit`: `state` is the user's entry, in the process or, if `shared`, in the store, where
  `written` stands for the expiry of its key; `watching[k]` is the `WATCH` of a connection, `free` and `waiters`
  are the pool; `grants` is history.
- `Workspace`: `document[d]` is the row with its project, path, archive flag and last activity;
  `lock` is the advisory lock, `call[c]` a call with what it has read; `raced` and `strayed` are history.
- `Home`: `lane`, `listed` and `nextCursor` are the screen's state, `fetch[f]` a request and its answer;
  `touched` and `steady` are history.
- `Viewer`: `status`, `voted` and `current` are the server's rows; `threads`, `resolvedThreads`,
  `filter`, `source`, `viewVersion`, `oldSource` and `triageSeq` are the component's state, `against` the
  version its anchors were resolved on; `mine`, `ahead`, `inOrder` and `failed` are history: `ahead[r]` are the
  requests that were served before `r` and are still to be answered, so that an answer is in order when it has none.

## 3. The runs

| Run | States | Question |
|---|---|---|
| `version_purge` | 1,387,780 | do three uploads failing anywhere and a sweep with stale reads, or two and two publishes, keep numbers apart, versions readable, the current version and the last one, and the hub's snapshots, and implement `DocumentHistory`? |
| `erasure` | 728,948 | with a delete, two uploads, a comment and one fault: is the log true, is gone gone, does erasure happen in the end? |
| `review` | 732,836 | does a status change only for a reason, do its two computations agree, does the gate see every older comment? |
| `suggestions` | 483,403 | does one decision win, and is "applied" true and recorded once? |
| `push` | 1,156,412 | a watcher and a push by hand, with an edit, another uploader and a fault, or the two and a hook's push, with a fault: lock, manifest and watcher |
| `serve` | 1,068,209 | two processes, each a start or an open, a stop and one fault, a record that cannot be written among them: record, database, children and signals |
| `sharing` | 1,311,395 | two calls at once among three members and two guests: who hands out what, the guest cap, revocation |
| `membership` | 2,223,249 | two sign-ins at once while admins invite, list, revoke and demote by the role in their cookie: who comes in, and how does the last admin go? |
| `sessions` | 3,187,651 | two requests of a browser over two servers, with refreshes, shorter sessions and a new secret: who is served, and whom does a refusal hit? |
| `rate_limit` | 177,764 | three checks over two connections that throw anywhere: do windows keep their budget, and does every check end? |
| `home` | 1,067,719 | creates, pushes and moves under caps, with a screen paging beside them: are caps held, who meets the database's own errors, what does a listing show? |
| `viewer` | 4,519,103 | two requests in flight, served and answered in any order, while somebody else changes the document: does the page show what its reader did? |

All of them pass, in at most two or three minutes on two workers.

The pure modules have no behaviours: what they claim is stated as assumptions that TLC evaluates
when it starts a run, over every input up to a bound. `Keyset` (evaluated by `home`): truncating the column
to the cursor's milliseconds lists every row once (`TruncatedListsEachOnce`), and comparing it as it
is stored drops rows of the hub (`HubDropsRows`) and repeats threads (`ThreadsRepeatRows`), over four
rows in three milliseconds and pages of up to three. `Tiers` (`version_purge`): no profile contradicts
itself, and an upgrade refuses nothing that was accepted (`ProfilesAreConsistent`, `TiersAreOrdered`).
`Reanchor` and `DocDiff` (`suggestions`): over texts of three to six letters, every edit script and every answer of the
library's search, mapping keeps the order (`MappingKeepsOrder`), an unchanged quote is found unless it
has a twin (`UnchangedIsFound`, `TwinsAreConfused`), a place begins in the text but may reach beyond it
(`PlacesBeginInTheText`, `PlacesReachBeyond`), the id of an edge finds nothing (`EdgesAreOrphaned`);
every block is shown once (`BlocksAreShownOnce`), pairing goes by place (`PairingGoesByPlace`), and the
cap on bytes does not keep words of two texts apart (`WordsShareCodeUnits`). `Anchors` (`viewer`): letters keep
their place under dropped line prefixes (`LettersKeepTheirPlace`), code may be taken for its fence's
word (`CodeMayBeTakenForItsFence`), and what is marked is what was selected (`SelectionIsMarked`).

Where the code does not do what one of its comments, docs or messages says, the entry in `findings`
quotes the sentence. The refuted formula is kept in its module behind the words *Not so*, outside every
run; TLC refutes each within the bounds of the run of its module, or larger ones where noted:

- `Uploads`: `VersionCapHeld` (at a cap of two), `DedupMeansCurrent`, `RollbackRemovesOnlyGhosts`; `Erasure`:
  `OpenCommentsKeepTheirSource`; `PublicHub`: `PublishedExists`.
- `Review`: `LatestVerdictWins`, `HardGateHolds`.
- `Push`: `NothingForgotten`, and `LockExclusive`, which takes three pushes of which one died or left.
- `Serve`: `StartMeansRunning`, `OpenIsAttachedTo`, `OrphansAreForced`.
- `Sharing`: `GuestsWithinLimit`, `OneGrantPerGuest`; `Membership`: `SomeAdmin`, `OneJoins`, `OneWorkspace`.
- `Sessions`: `NobodyBounced`, `SignedOutStaysOut`, `DemotionTakesEffect`; `RateLimit`: `MonthsApart`, `BucketHolds`.
- `Workspace`: `Removable`, `ProjectsHeld`; `Home`: `ShowsTheLane`, which takes two fetches.
- `Viewer`: `RailIsFresh`, `BannerNamesTheText`, `CacheReloaded`, `TriageIsTrue`, `MarksFitTheText`.

### Bounds

Bounds are constants in guards: `MaxSeq` (versions of a document), `MaxFaults`, `MaxVersion`,
`MaxMs` (ticks of the clock), `MaxOthers`, the edits, others and faults of a `Beginnings`, `MaxCommands`, `MaxGrants`,
`MaxCalls`, `MaxBeside`, `MaxSignIns`, `MaxChanges`, `MaxTime`, `MaxEvents`, `MaxActs`, and the numbers of actors.
What they have to allow:

- *version_purge*: three overlapping requests on one document (a create, a push and a re-push), and
  numbers that finalize out of order before, between and after the sweep's reads, with one version
  too many: three numbers, `KeepLastN = 1`, one exception of the sweep. Beside a publish there are
  two uploads and no fault of the scheduler (`MaxBeside`): an overtaking publish needs a second
  version, and the purge of the first one, not more.
- *erasure*: an upload caught by a purge at each of its three steps, and a fault of the scheduler
  at each of its own, followed by a cycle without one.
- *review*, *suggestions*: two actors on the same row and one more that changes what they read;
  three decisions, so that a loser can be followed by another one.
- *push*: two beginnings. In one a watcher and a push by hand, an edit at any moment, one
  version from elsewhere, and one fault. In the other a watcher, a push by hand and one of a hook, and one fault:
  a lock is robbed of a living process only if two find its former owner dead, which takes three, one of
  which dies, or leaves with its lock read by the others. One file suffices for every property here, which all speak of
  one path at a time, and leaves `Concurrency` without effect; with two files and two workers the
  safety properties passed as well (4,153,410 states).
- With three the lock is not exclusive, and the run says what is: until such a removal (`overreached`) it is.
  `PushesExclude` proves that for any number, and `TwoPushesExclude` that two cannot rob each other.
- *serve*: any two of start, foreground start and open, and a stop, in any order and overlap, with
  one fault: a crash, a child that dies, a start that fails, or a record or a database that does at the end. A
  loser that removes a winner's record needs two; a third process that
  then gets in is what `overreached` excepts from the two properties about the record.
- *sharing*: a chain of two hand-outs by people who manage nothing takes three grants (a manager
  to bob, bob to cy, cy on), and a check that goes stale a second call and a revocation, a move or a
  change of settings beside it: three grants, four calls, two of them at once. `Offered` and `Lent`
  are the permissions callers ask for: with share and edit the cap on delegation has something to
  refuse, comment stands for both rungs that a guest may have. The theorems need none of this.
- *membership*: a founder, a person of the SSO connection, one without, and a guest; two callbacks
  that overlap; four changes make a promotion, a second admin's demotion of the first and one more
  that the first cookie still allows. The theorems need none of this.
- *sessions*: a life of two ticks that an organization halves, a grant of two, so that a guest's token is past half
  its life while it is good, a cache of one tick, three ticks of
  the clock: a session can be refreshed, outlive the maximum it was made under, and meet a cache
  that is out of date; two servers, so that one is rolled and the other is not.
- *rate_limit*: budgets of one and two in windows of two and eight ticks, so that a day rolls while a
  check is between its read and its commit; more calls than connections, so that one waits.
- *home*: two old documents at the cap of two, one project with a cap of one, two calls and two
  rows of one millisecond with pages of one: every boundary is at its limit. The theorems about
  caps and conflicts need none of this.
- *viewer*: two threads, three versions, two requests at a time, three acts of the reader and one
  of others: a change, the reload behind it and one more to overtake either.

Symmetry is used only where no liveness property is checked and the specification treats the set
alike. Deadlock is not checked: every model may stop when its bounded actors are done.

### Fairness

- `Uploads`, `PublicHub`, `Review`, `Suggestions`, `Sharing`, `Membership`, `Sessions`, `Workspace`, `Home`, `Viewer`:
  none. A request may stop anywhere; only safety is claimed.
- `Erasure!FairSpec`: weak fairness of the scheduler's own steps (its loop awaits each sweep and
  starts over) and of time passing `purge_after`. Users, and requests in flight, are not fair.
  `DeletedArePurged` and `ErasureEnforced` hold because faults stop (`MaxFaults`): an exception
  that recurs for ever starves what is listed after it.
- `Push!Fairness`: weak fairness of each process's own push and of the watcher's timers and loop.
  A dead process takes no step, and nothing makes a user edit, push or interrupt.
- `Serve!Fairness`: weak fairness of each process's own steps and of its children's start: every wait
  in the code has a deadline, and `NotReady` may take it. Commands and signals are not fair.
- `RateLimit!RateFairness`: weak fairness of each check's own calls to the store, which answers or
  throws. Nothing is assumed of whoever makes checks, nor of the order in which a pool serves them beyond its queue.


## 4. What is proved

Proofs hold for every set of documents, contents, people, requests, comments and calls, and for every
value of the bounds.

**Uploads** (`ErasureProofs`). From `MaxSeq \in Nat \ {0}`, `None` outside the other sets, and
`VersionCap \in Nat \ {0}`. `ReservationsExclusive` and `LiveVersionsReadable` are not inductive by
themselves: a row is readable because its request wrote the blob before, at a number nobody else
could get. The inductive invariant is

    UploadInv == UploadsTypeOK /\ CounterAhead /\ HoldersWellFormed /\ HoldersApart /\ Stored

where `CounterAhead` puts `nextSeq` above every number in a row or in the store,
`HoldersWellFormed` says that a reservation is below the counter of a document that was created,
`HoldersApart` keeps two of them from one number and everybody's rows and objects from a held one,
and `Stored` says that a number has at most one object, and that every row, and every request about
to insert one, has its own. Each action of `UploadStep` has its step in the proof. Theorems: `UploadInvariant`, `UploadsTyped`, `ReservationsAreExclusive`,
`ListedIsReadable`, `RowsAreImmutable` (an action property, by the same invariant).

**Erasure and the hub** (`ErasureProofs`). From the same and `KeepLastN \in Nat \ {0}`, `MaxFaults \in Nat`. Deletes, sweeps
and the replay take rows and objects away while uploads put them there, and all of them act on what they read
some transactions before, so `UploadInv` no longer holds: a row may have lost its object. The invariant is

    ErasureInv == StoreInv /\ ErasureTypeOK /\ (\A x \in Deletes : DelShape(x)) /\ JobShape

`StoreInv` is about rows and objects. A number is used when it was handed out and nobody holds it any more
(`Used`); rows, tombstones, marks of age and log entries are only at used numbers (`Numbered`), a request's own number
has no object but its own (`HolderShape`), a live version of a live document has its object (`Backed`), and
the pointer of a live document is at a live version (`Pointing`). `DelShape` and `JobShape` say what a delete and the
scheduler may still rely on. That lasts because of two things no step does, which every step's lemma proves
beside `StoreInv'`: `Onward` (a used number is never held again and gets no object, what is hidden stays hidden, a
tombstone stays one, the log grows) and `Kept` (only the sweep and the replay make tombstones). The pointer
that a cycle read at its start is the current version or an older one; the current version is never above a
chosen one by less than N live versions (`Enough`), so neither can be purged. From it: `CurrentStaysServed`,
`LastVersionsAreKept`, `ListedStaysReadable`, `NumbersStayExclusive`, `GhostsStayAccounted`, `ErasuresStayTrue`.

`ReadersAreShownAHistory` is the refinement of `DocumentHistory`. Under the invariant what a reader opens, which is
defined by the objects, is what the rows list (`ShownIsListed`); `RowStep` sums up what a step of any actor does to the rows
in one of six ways (`StepsOfRows`), and each is a step of the history or a stutter (`RowsRefine`).

For the hub, `HubIsBeside` says that `HubSpec` implies `Spec`, so that all of the above holds beside publishes, and
`SlugsServeTheirSnapshot` follows from `HubInv`: what a publish read may be gone, but nothing else is ever stored
under its number (`ContentIsFixed`, by `Onward`), and what the row gave it is the row's number now, an earlier one, or another row's.

**Suggestions** (`ReviewProofs`). The invariant is

    SuggestionsInv == SuggestionsTypeOK /\ DecisionShape /\ OneDecisionWins /\ AppliedIsTrue

`DecisionShape` says that a call decides on at most one comment and that what it writes is a decision. Theorems:
`SuggestionsInvariant`, `SuggestionsTyped`, `DecisionsAreFinal`, `AppliedTellsTheTruth`, `AppliedIsFinal`.

**Sharing** (`SharingProofs`). From `SharingAssumption`: admins are members, guests are finitely many and no
members, and the sets do not overlap. The invariant is

    SharingInv == SharingTypeOK /\ RowShape /\ Homes /\ \A r \in Requests : CallShape(request[r])

A call acts on the ground of a grant that may be revoked, expired or of another project by then, so
nothing about the rows now justifies what it writes. `CallShape` says what it was entitled to when it
read (`Entitled`), in a form that later steps cannot take away: no row is ever removed or changes
whom it is for, on what, or from whom, and only a guest's row changes its permission (`RowsKept`); a
project a document was in stays one it has been in (`LivedGrows`). `ShapeKept` is that lemma, and every action
is then either a read, an insert or a change of one row. `SharingRows` sums up what a step can do to
the rows, and three theorems follow from it: `GuestCapCorrect` (`GuestCapHeld` is inductive together with
the invariant, since the count under the lock covers all the guests it speaks of), `RevokedForGood`
(an action property) and `SharingImplementsDelegation`, the refinement of `Delegation`: each step
maps to the step of the abstract specification with the grant's maker as its actor, or to a stutter.
Theorems: these three, `SharingInvariant`, `SharingTypeCorrect`.

**Review** (`ReviewProofs`). From `ReviewAssumption` and the bound on versions. The invariant is

    ReviewInv == ReviewTypeOK /\ Len(approvals) = Cardinality(Inserted)
                   /\ Owing /\ OneActiveRequest /\ GateSeesOlderComments

The comments an approval owes were counted some transactions before it is inserted, and only `Owing`
says why they are closed by then: a call knows its reviewer and version, owes nothing before it reads the
gate, and what it owes was open once and is never opened again. The second conjunct says that there is
room for another verdict. Theorems: `ReviewInvariant`, `NobodyIsAskedTwice`, `ApprovalsSeeOlderComments`.

The derived status is a fold over rows in an order, and the two callers read in opposite orders. Both
end at one of the newest verdicts of a reviewer, and where a reviewer's verdicts differ in their
milliseconds there is only one (`LatestIsOldest`, `OrderDoesNotMatter`): `OverviewsAgree`. A step adds one row at most, not
older than any other, which changes the verdict of its own reviewer only (`VerdictsGrow`, `OneVerdictMore`), and nobody has a verdict
on a version that is to come (`Filed`): `StatusChangesHaveReasons`, an action property. The proof showed a fault of the model: with
nobody asked, the last two arms of the status were both true, and the specification left open which one counts. The code
tests for an empty set first, and so does `deriveReviewStatus` now.

**Membership** (`MembershipProofs`). From `MembershipAssumption`: who founds, who can join by SSO and who is an outsider.
The invariant `MembershipInv` consists of the types, `WelcomeRemembers` (everybody who could join at some
time is remembered to), `CallShape` (what a sign-in read and what of it cannot be undone), `InviteShape`
and `Tight` (how many people and overlapping acceptances an invite's mark stands for), and two conjuncts
about rows: who has an account here has a row, and who has a row has a reason. `InvitesLetOneIn` needs
all of them: that one person came in by an invite follows from the marks of calls that have read the invite and
not written it. Theorems: `MembershipInvariant`, `MembershipTyped`, `InvitesLetOneIn`,
`NobodyJoinsUnasked` and `AdminsGoByStaleBadges`, the last an action property.

**Sessions** (`MembershipProofs`). From `SessionsAssumption`: an organization's maximum is within the global one. The invariant is

    SessionsInv == SessionsTypes /\ TokenShape(jar)
                     /\ (\A s \in Servers : CacheShape(s) /\ ReleaseShape(s))
                     /\ \A r \in Requests : CarriedShape(request[r])

A token lives in the jar, in requests on their way and in answers not yet taken, and outlasts every
sign-out. `TokenShape` holds wherever it is: it ends with the ceiling and a guest's with the
grant, and one of the old secret ends, once every server signs with the new one, within a lifetime of
the last of them. `ReleaseShape` says that the old secret is dropped no sooner, so a token that a server does not accept has
ended or is of a secret it does not know yet (`UndecodedEnded`). `CacheShape` says that a cached maximum is the one in force or was
replaced less than the cache's time before it runs out, and `CarriedShape` that a mutation carries the header of one
token. Theorems: `SessionsInvariant`, and of the answers, as action properties, `ServedOnlyInTime` and `RefusalsHaveCauses`.

**Projects and paths** (`WorkspaceProofs`). From `WorkspaceAssumption`, about the caps and the documents that were there before.
Two invariants, one on the other:

    CapsInv == WorkspaceShape /\ (\A c \in Calls : CallShape(c)) /\ Counting /\ CapsHeld
    RaceInv == CapsInv /\ Filed /\ Fresh

`Counting` says that the holder of the lock who has counted has room for one more; every step of anybody
else only `Shrinks` what is counted, so the room is still there at the insert. `Filed` and `Fresh` say that
a path or a project that a call found free is free unless the call is marked as raced. Theorems, under
`HomeSpec`, of which the workspace is a part: `CapsAreHeld`, `ExceptionsAreRaces`.

**Home screen** (`WorkspaceProofs`). From `WorkspaceAssumption`, `HomeAssumption` and `KeysetAssumption`.

    ListInv == CapsInv /\ ScreenShape /\ (steady => Listing)

Before any of it stands what a page is. `Places`: of rows with distinct ids, in the order of their truncated keys, each has a
place of its own and no place is empty, by counting. `PageShows`: a page has once each row after its cursor
that is not after the next cursor, and none of the others, for any rows, cursor and limit. While a listing is `steady`, `Listing`
says that one request at a time is under way; that its page, once answered, is of the lane as it is now (`PageFits`)
for all documents that nobody touched since; and that what was listed so far is, once each, those up to the
cursor (`SoFar`), which is what the request goes on from (`Continues`). A write of anybody adds what it
disturbs to `touched`. Theorems: `ListingInvariant`, `LanesAreListedOnce`.

**Viewer** (`WorkspaceProofs`). From `ViewerAssumption`, about the bounds and that no list is the value for "not loaded".

    ViewerInv == PageShape /\ (\A r \in Requests : RequestFits(request[r])) /\ PageKnown
                   /\ (~failed => Loading) /\ (inOrder /\ ~failed => AllSettles)

`RailShowsMyChanges` speaks of the moment when all is answered, and so says nothing of the steps before. `Settles`
says it of every state: of a thread that the reader changed last, either the change is still to be answered, and after every
answer on its way that has the thread at the wrong place, as answers come in order (`Overrules`); or there is no such answer, and
the threads are being read again or stand right (`OnRail`). `VoteSettles` is the same of a vote, which is shown before it
is sent and so is right, on the rail, again only when its answer comes. `Loading` says that resolved threads that are
on screen and not loaded are being loaded, and `PageKnown` that nothing is listed that never was. Theorems: `ViewerInvariant`,
`RailShowsWhatIChanged`, `ViewerTypesHold`.

**Push and watch** (`PushProofs`). From `PushAssumption`, `AttemptsAssumption` and `ProcsAssumption`
(finitely many processes). The invariant is

    PushInv == PushTypes /\ (\A p \in Procs : PushShape(p))
                 /\ (\A f \in Paths : EntryTrue(manifest.files[f], f)) /\ WatchShape

`PushShape` ties the step of a push to that of its claim on the lock, and says of each file what its job knows: the
entry in memory is true and not older than the one it read, an answer names what was uploaded, and an update
without `--force` passed the status check at a number no older than what the server had when the push
began. None of this needs the lock: the server only appends (`ServerGrows`), whoever pushes. Theorems:
`PushInvariant`, `PushTypesHold`, `PushEntriesTrue`, `PushBuriesNothing`.

That one push works at a time and that nothing is forgotten does need it, and it is not so in general: three
processes, one of them dead, break it (`LockExclusive`, a finding). `PushesExclude` says that nothing else
does: in every behaviour, both hold until somebody removes the lock of a living process. Its invariant `LockInv`
says that until then the file names whoever holds the lock (`LockNamesHolder`), and how the manifest passes on what was
uploaded (`Passed`); a removal that overreaches ends the claim, and every other one is of a lock whose owner does
not run or gives it up. `TwoPushesExclude` is without that exception, for at most two processes, say a watcher and a push by
hand: who goes to steal has read a lock and found its owner dead (`StealsFromTheDead`), so there is nobody left to rob.

**Local instance** (`ServeProofs`). From `AttemptsAssumption` and `ProcsAssumption`. The invariant is

    ServeInv == ServeTypes /\ (\A p \in Procs : ServeShape(p)) /\ NamedAreBorn /\ RecordAgrees

`ServeShape` ties the claim on the record, the database and the children of a process to the phase it is in,
and its children after its end to its having been killed or having given up; `NamedAreBorn` keeps a pid that is named from being one yet to
start; `RecordAgrees` says that the record names whoever holds it and says what is up, unless a living process's record
was removed (`overreached`, which the finding about `serve.ts` reaches with three processes). Theorems: `ServeInvariant`,
`OrphansHaveCauses`, `OneSupervisorServes`, `RecordTellsTrue`. The protocol of the pid file is stated for both modules
(`ClaimTyped`, `AgainTyped`, `AcquiringKeeps`), as each has the record with fields of its own.

**Rate limiting** (`LimitsProofs`). From `RateLimitAssumption` and `NoneAssumption`. The invariant is

    RateInv == RateTypes /\ PoolIsSound /\ SeenIsCurrent /\ InTime /\ BeganBefore /\ Counted

A check decides on what it read, and commits only if nobody wrote since: `SeenIsCurrent` says that an unbroken
`WATCH` has read the entry as it is, and `PoolIsSound` that a connection in use is one check's. The time a check carries
is no older than `Slack` (`InTime`). `BeganBefore` says that windows began before the last write and that an entry is
gone only when its key ran out, and `Counted` that the entry counts at least the grants of its own windows and
knows no later ones, and that no window, past ones included, has more grants than its budget. Theorems: `RateInvariant`, `RateTypesHold`, `BudgetsHold`.

**Tiers** (`LimitsProofs`). The clamps for any tier and any configuration, numbers or not set: `PurgeKeepsToTheTier`,
`SettingsRefuseTheLooser`, `ClampsCommute`.

**Model-checked only.** Every safety property of the runs, and every action property, is stated by a theorem. What TLC alone checks
are the liveness properties (`ErasureEnforced`, `DeletedArePurged`, `ChangesArePushedOrReported`, `SignalledEnds`,
`ChecksEnd`), which the proof system does not reach under fairness; and the assumptions of the pure modules, which quantify over
sequences up to a length: what following the cursors of `Keyset` lists in all (one page of the overview is proved), and what
`Reanchor`, `DocDiff` and `Anchors` compute, would take induction over data. Exclusion by the lock among three
processes and a death is neither, as it is false. No module declares a recursive operator.

## 5. What the models leave out

- One organization: row level security is taken to keep organizations apart.
- `upload_ledger`, `last_activity_at` of a version, `anchor_cache` and its pruning: no property reads them.
- Refusals of the upload gate (permission, path, project, title, size, read-only organization)
  write nothing and are requests that do not start. The gate's reads are one state although the
  isolation level is READ COMMITTED: the row lock it takes first serializes the reads that matter.
- Deleting a document's objects, a listing and several calls on S3, is one step.
- `StartCycle` stands for the listing of organizations, the listing of documents and `now`, which is fixed
  for a cycle; the batch limits (100 documents, 1000 organizations) are above the instances. The
  replay's lookup of one erasure and its tombstone are one step. Retention is at least a day, so that no
  version ages within a cycle it was created in.
- Organization purge, the sweeps a deployment adds, and the restore of a backup: a replay after a
  point-in-time restore (`erasure-replay.ts:54`) is listed as a hazard without a property. So are
  two that the code does not withstand, and that are findings: the rollback of a create that takes another's version
  with it (`upload.ts:325`), and lanes asked for at once (`shell.tsx:257`).
- `PublicHub`: one slug; the title and the full-text search of the hub.
- `Threads` has one document that stays alive, whose versions the environment publishes; comments
  have no replies, mentions or edits. `created_at` is taken at commit. A reader of the review panel sees one state.
- In `Suggestions`, re-anchoring is the question whether a version has the proposal at the anchor. `Reanchor`
  has the algorithm, with the distance of a shortest edit script for that of a script after semantic
  cleanup, and without the cache of resolutions. `Anchors` leaves out the fallbacks for an anchor whose
  quote is not in its source, and `DocDiff` the parser and the text of the runs inside a block.
- `Membership`: one organization; the seat limit refuses every invite of the tier that has one seat and none of
  the others'; tokens are the invites they belong to.
- `Sessions`: API keys, a look-up by hash in the same request; one browser.
- `RateLimit`: one user, and the limits of one tier at a time.
- `Workspace`: renaming and archiving a project; the foreign key that a project's removal meets is that of a document, not of
  a grant; the keyset of the list of users.
- `Home`: the counts beside the lanes that are not selected. `Viewer`: falling back to another filter when a
  count goes to zero, the search of the rail, keys, drafts.
- `Push`: a document of the server is its path; a pid is never reused; an `rm` of the lock does not fail; faults are bounded; removed
  files are not heard of by the watcher, as in the code; `link`, `unlink`, `status` and the trust
  pin are missing.
- `Serve`: reading the record and probing the port are one state, and so are a poll's read and its
  check of the supervisor's pid; deadlines may pass at any time; a foreground supervisor is taken to lead
  its process group; when two processes write the record at once the last to open it wins; removing the record does not fail, and
  an embedded database whose socket does not open counts as one that was not opened. What
  `open` links and pushes once it is up is `Push`, and `uninstall` is a finding only.
- `Sharing`: roles and owners do not change, documents are not deleted and projects not archived; a
  free organization, which creates no links, is one that never calls `StartLink`; times are an expiry
  that may come at any moment; tokens are the rows they belong to, so that an old token of an
  extended grant is one nobody presents; `createProjectGrant` and `revokeProjectGrant` are one step,
  since their checks (roles, an archived project) read nothing that changes here; `redeemGuestShare` and the lists write no row.
- Not modelled at all: the components with status `not_modelled` in `PROJECT.json`, with the reason
  there: they keep no state (REST, MCP, telemetry) or are somebody else's (Postgres policies, SMTP, billing).

Not modelled, as it has no behaviour of its own: the largest part of the source by lines is React components,
route and tool definitions, repository methods that are one query, clients that mirror the routes, and
the fakes and fixtures of the tests. What they pass on is in the modules of the parts behind them.

## 6. Plan

Done: the modules of section 2. The order was what loses data first, then what misleads a reviewer,
then who may do what, then the clients. Next, in this order:

1. `Restore`: a point-in-time restore of the rows with the erasure log and the blobs kept, and the
   replay after it; the batch limits of the sweeps.
2. `link`, `unlink` and the trust pin in `Push`.
3. The purge of an organization, as one more writer over `Erasure`, `Sharing` and `Membership`.
4. Renaming and archiving a project in `Workspace`.

Abstract specifications worth stating after `DocumentHistory` and `Delegation`: a mutual exclusion for
`PidFile` when nobody dies, and a folder as a partial copy of the server for `Push`.

Proofs to come: the page of the export of an organization, which differs from the overview's by the
direction of its order; that `PidFile` implements its abstract specification, once stated; and the invariants of `Restore` and
of the other modules of this list, along with them.
