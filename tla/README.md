# A formal model of the soft-target report backend

TLA+ modules, TLC configurations and TLAPS proofs for the FastAPI service in
`src/`: field officers file reports, the service keeps their versions as rows
and PDFs, drafts are saved on the way, and accounts belong to organisations.
Every definition is translated from the code; `PROJECT.json` names the lines
of each one.

## 1. The system

One process model underlies everything. Gunicorn runs `2 * cpu + 1` workers
(`scripts/gunicorn.conf.py:15`), each an asyncio loop with a pool of
connections to one PostgreSQL at READ COMMITTED. A request owns one session,
hence one transaction, from its first statement to its end
(`app/api/deps.py:60`, `get_session`). With the FastAPI version the project
pins, **the exit of a dependency that yields runs after the response has been
sent**: the client has its answer before the commit, and the commit may still
fail. A SELECT sees committed rows only, an UPDATE or DELETE keeps the row's
lock to the end of its transaction, and the ORM sends an UPDATE only of
columns whose value changed.

| Component | State | Operations | Talks to |
|---|---|---|---|
| Reports (`services/report_service.py`, `repositories/report_repo.py`) | rows of `reports`, `report_versions` | create, edit, soft-delete, download, read | file store, PDF service, audit log |
| File store (`storage/filestore.py`) | files under `reports/`, written in place, no fsync or rename | write, stream in chunks (in threads) | disk |
| PDF service (`services/pdf_service.py`) | none | render a version, on the event loop | - |
| Drafts (`services/draft_service.py`) | rows of `drafts` | create, replace, autosave ("active"), delete, list | database |
| Login rate limiter (`core/rate_limit.py`) | a deque of times per address, in each worker | `check_and_record` | the clock, `client_ip` |
| Sessions (`services/user_service.py`, `repositories/refresh_token_repo.py`) | rows of `refresh_tokens` | login, refresh, revoke by password change, deletion of account or organisation | accounts |
| Accounts and organisations (`user_service`, `organisation_service`) | rows of `users`, `organisations`, three unique indexes | create, edit, delete, by admins and by organisation owners | sessions, reports |
| Command line (`app/cli.py`) | none of its own | create-admin, convert-to-org, seed-dev | accounts, organisations, reports |
| Audit log (`repositories/audit_repo.py`) | append-only rows, each naming its actor | record, list | written in the caller's transaction |
| Request plumbing (`api/deps.py`, `db/session.py`) | the transaction, the connection pool (30 per worker) | open, commit, roll back; authenticate; role gates | all of the above |
| Migrations (`alembic/versions`) | the schema; 0005 moves drafts between tables | upgrade, downgrade | live requests, by table locks |
| Deployment (`scripts/deploy.sh`, `gunicorn.conf.py`) | files on disk, code that workers run | rsync, migrate, restart; recycling of workers | migrations |
| Configuration, middleware, error mapping, schemas | - | - | - |

What is hard here: read-modify-write without row locks (edits, drafts, refresh
tokens, accounts); commits after responses; files that do not roll back with
their transaction; downloads that read while edits write, and that hold a
connection and a row lock while their client reads; counters and checks that
see committed rows only; two lock orders over the same rows; state in the
memory of several worker processes that are replaced; revocation that misses
what is not yet committed; a migration that copies what requests are writing.

What makes each part correct:

* reports: no row without its PDF, the PDF shows the row, published files
  never change, deletion is final, the audit log explains the history;
* drafts: private to their owner, at most the cap, deletion final, autosave
  does not multiply drafts, the payload limit on every path;
* limiter: a true sliding window per caller, one that headers cannot evade;
* sessions: rotation spends, single use, revocation is complete, dead is dead;
* tenancy: one owner per organisation, owners act and see only inside it, a
  report's attribution is final;
* accounts: an organisation and its owner exist together, nothing unique
  occurs twice, an owner is found by the address they were given;
* connections: all waiting ends, in an answer or an error; a slow reader keeps
  logins, reads, reports and drafts waiting for no longer than the pool's
  timeout (when readers have all the connections, the others get a 500);
* migration: no draft is lost, and no migration waits for ever unless a client
  stalls a download for ever.

## 2. Modules

| Module | Models | Uses |
|---|---|---|
| `ReportHistory` | what API.md promises of a report: a log of published documents | |
| `Reports` | report service, repository, file store, download, audit entries | `ReportHistory` (refinement) |
| `Drafts` | draft service, repository and endpoints | |
| `RateLimiter` | limiter, `client_ip`, worker replacement | |
| `Sessions` | login, refresh, revocation | |
| `Tenancy` | roles, membership, ownership, `convert-to-org`, report stamps | |
| `Accounts` | e-mail addresses, organisation names and owners under unique indexes; `create-admin`, `convert-to-org` | |
| `Connections` | the operations of every service above, reads and `convert-to-org` included, as the connection and the row locks they take; the pool, slow readers, deadlocks, worker restarts | |
| `Migrations` | revision 0005 up and down, `deploy.sh`, requests of the old and the new code | |
| `ReportsProofs`, `DraftsProofs`, `RateLimiterProofs`, `SessionsProofs`, `TenancyProofs`, `AccountsProofs`, `ConnectionsProofs`, `MigrationsProofs` | inductive invariants, lemmas and theorems | the component each is named after |
| `MC...` | the model values and symmetry sets of the runs | one component each |

The components meet in the database. `Connections` composes their operations
with regard to the connections and rows they wait for, and abstracts from
their data; the others keep the data of one component and, of the waiting,
what can change their outcome. Left out of `Connections` are `create-admin`,
which locks no row that others see, and the waits for entries of unique
indexes (section 6).

**Concurrency.** `Request` is a set of slots. `pc[p]` is the statement the
request of slot `p` runs next and `tx[p]` what it carries: what it has read,
computed and will commit. A step is what runs between two awaits at which
another request could be seen: a SELECT, a file operation, the flush that
takes a row lock, the response, the commit. What a transaction wrote appears
in the committed variables at its commit, a step of its own; `Abort` ends a
request at any step before it (client gone, exception, failed commit, worker
killed) and rolls back the rows, never the files. Waiting for a row lock is a
guard on the step that needs it.

**`Reports`.** `row`, `versions`, `audit` are the committed tables, `files`
the disk. `CreateReport` and `UpdateReport` authenticate, load and authorise;
`OpenFile` truncates the file and `WriteFile` completes it (two writers of one
path leave it `Torn`); `Flush` sends the UPDATE; `Reply`; then `CommitCreate`
or `CommitUpdate`. `CommitUpdate` merges, as the ORM does, only the columns
the request changed into the row as it then is (`Changed`, `ReplacedRow`), and
appends the snapshot taken when the row was loaded. `DownloadPdf` authorises,
`ReadChunk1` and `ReadChunk2` stream. The version of an edit is one more than
that of the row it *loaded* (`NewVersion`), which is where the races come
from. Data is one model value per content; a PDF is its version and content.
`Clients` names what a run assumes of the callers: `concurrent` (nothing),
`await_reply` (the next edit of a report after the response to the last),
`await_commit` (after its commit). `MayEdit` keeps edits apart and nothing
else: a deletion or a download runs beside an edit under each of the three.

An edit by somebody who is not the report's creator reaches its commit. The
trap that `Tenancy` calls `Answerable` does not exist here: an edit loads the
report with a `selectinload` of the creator and the creator's organisation
(`report_repo.py:20`, `40`), and SQLAlchemy applies the load options of an
instance again when it refreshes it (`report_repo.py:89`), so the response
finds both loaded. Accounts are loaded without such an option.

**`ReportHistory`.** A report is its content, the list of its published
documents and superseded data, and whether it is deleted. `editing` says
whether an edit is under way, which begins on a report that is not deleted
(`BeginEdit`) and ends by `Edit`, which publishes, or `GiveUp`. `Delete` may
come in between: the edit is then still published and the report stays
deleted, which is what the code does.

**`Drafts`.** `LoadMostRecent` and `CountAndInsert` are the two halves of
autosave, the second also the half of `create`. `updated_at` is the start of
the transaction that last sent an UPDATE. Title and payload are one value. The
history variable `overlapped` collects the users who have had two requests in
flight at once: `CapHolds` bounds the others by the cap and these by the cap
plus the requests that may have counted together.

**`RateLimiter`.** `check_and_record` holds an `asyncio.Lock` over code that
never awaits, so it is one step of a worker. `Restart` replaces a worker. The
clock ticks; `passed` is the history the properties count.

**`Sessions`.** A refresh is `Refresh`, `Scan` (the active tokens as
committed), `MarkUsed` (waits for the row's lock, then writes `used_at`
whatever it finds), `IssueTokens`, commit. The three revoking operations take
their locks in the order of the code; `update_user` locks tokens before the
account and `delete_user` the other way round. Two history fields of each
token row record the races it stems from. `late`: when it was committed, the
DELETE or UPDATE of a revocation had already looked for tokens, or the
account's password or deletion had changed since the login checked it, or the
token it was rotated from was late. `raced`: its refresh committed while
another was presenting the same token. The properties exempt only such rows,
so every other token is covered however requests overlap.

**`Tenancy`.** Requests run against a copy of actor and target taken when they
pass their checks; the commit merges the changed columns. The active-owner
index makes the insert of a second open organisation wait and fail.
`convert-to-org` promotes, stamps the committed reports, commits. `Listed` and
`MayRead` are the two places that decide who sees a report; `belonged` is a
history variable for the property that relates them to membership. `lapses`
records whether two requests have overlapped and whether an administrator has
changed their own role or organisation, the two things that `OneOwner` does
not survive. `Answerable` is a trap of asyncio: after `refresh(user)` the
response model reads `user.organisation`, which can no longer be loaded, so
creating or moving an account into an organisation other than the
administrator's own ends in a rollback.

**`Accounts`.** A request is the list of INSERTs and UPDATEs it sends, in the
order of the code. `Adds` and `Removes` are the entries of the three unique
indexes that a statement adds and takes; it waits for a transaction that would
give or take the same entry, and then runs (`Execute`) or finds the entry
committed (`Conflict`: the repositories roll everything back). `Found` is
`get_by_email`, by lower case.

**`Connections`.** A request arrives at a worker, takes a connection or times
out (`Dequeue`), then takes the row locks of its statements one by one
(`TakeLock`), then responds and commits; a download streams in between for as
long as its client likes. An operation is the sequence of its locks, foreign
key checks included: a snapshot takes KEY SHARE on its report, a token and an
audit entry on their account, and an UPDATE of `users.email`, which has a
unique index, is stronger than any other UPDATE. `Waits` is PostgreSQL's
conflict table; `BreakDeadlock` fails one request on a circle. `CreateDraft`,
`UpdateDraft` and `DeleteDraft` lock one row each, `ReadOnly` none.
`ConvertToOrg` is the command: it has a connection of its own, hence no worker
and no queue, and updates the account and then the reports that it found, in
any order.

**`Migrations`.** Requests of the old code keep the draft in a column of
`users`, those of the new code in rows of `drafts`. The migration goes through
its statements, each waiting for the table locks it conflicts with; nobody
overtakes an ACCESS EXCLUSIVE lock that waits. `Deploy` copies the files and
starts the migration, `Restart` replaces the workers, `Recycle` is gunicorn
replacing one at any time, `Fail` the end of the script. Requests that only
read arrive without bound; a download among them may stay in `stream`, inside
its transaction and with its share of the lock on `users`, until its client
lets it go on (`FinishDownload`). The request code of the previous release is
not in the repository: `SaveColumn` and `CommitColumn` are external, and known
only by the columns that 0005 drops.

## 3. Runs

| Run | Question | Distinct states |
|---|---|---|
| `reports_concurrent` | What is kept however edits, deletions, downloads, failures interleave? | 264 000 |
| `reports_serial` | With the edits of a report, and nothing else, separated by commits, is it the versioned document of `ReportHistory`? Deletions and downloads that overlap an edit, crashes after the response, left-over files. | 212 000 |
| `reports_overwritten` | *Violation*: is it enough that a client waits for the response? `NeverOverwritten` | |
| `drafts` | Isolation, finality and the payload limit under any interleaving; cap and autosave | 409 000 |
| `limiter_window` | Is the window exact at its edges, across a worker's replacement, and whatever the header says? | 1 010 000 |
| `sessions` | Rotation and revocation under any interleaving: by which overlap does a token escape a revocation, or is it rotated twice? | 2 833 000 |
| `sessions_single_use` | *Violation*: two refreshes of one token. `SingleUse` | |
| `tenancy` | Tenant isolation under any interleaving, whatever admins ask for; one owner, complete stamping and deletion of present members only until a lapse | 1 133 000 |
| `connections` | Who can deadlock with whom? Does a stalled download stop others? Does all waiting end? | 449 000 |
| `migrations` | Does every draft survive the upgrade, and the newest the downgrade? Does a migration end, if downloads do? | 1 192 000 |
| `accounts` | Is an organisation ever stored without its owner, an owner without organisation, a unique value twice? | 319 000 |
| `accounts_login` | *Violation*: can the owner of a new organisation log in? `OwnersCanLogIn` | |

No run switches deadlock checking off. Each property of a passing run has a
mutant in `PROJECT.json`: a plausible slip in one definition that TLC then
catches with that property. The mutated forms stand before the definition
they replace, marked "Mutant of".

**Bounds, and why they suffice.** Two requests at a time: every hazard listed
is a race of two transactions over one row, token or count; a third party to a
race is the committed state, which earlier requests have produced.
`reports_serial` has three, an edit with a deletion and a download beside it.
`connections` has three requests or commands, of which one is a download, on
two workers of two connections: two operations can deadlock while a reader
holds the lock of a third kind, and a full pool with somebody in the queue is
reached. Accounts that edit one another need two accounts; longer circles of
account operations are not excluded by a property and not explored (that only
account operations are on circles, of any length, is proved). One report,
since nothing in the code relates two. `MaxVersion` and `MaxEdits` let a
report be edited twice: the second edit meets a history that is not empty and
the left-over file of a failed attempt. Four drafts against a cap of two reach
the cap, overshoot it, and delete. Three tokens are a login, its rotation and
a competing rotation. The limiter's horizon is longer than the window, so hits
expire, at ages equal to, below and above it. `Tenancy` has two organisations,
the smallest number that can be confused, and three accounts, `Accounts` three
addresses of which two are one in lower case; `MaxRequests` bounds how many
requests pass their checks in a run, six in both. `Migrations` has two
accounts (one draft may be missing or undated) and three begins of a save or a
migration: enough for a save before, beside and after an upgrade, or for an
upgrade, a save and a downgrade; requests that read are not counted, so they
can keep arriving for ever. Constants that only bound a run are marked "bound"
where they are declared. Symmetry is used over requests, documents and other
interchangeable values in runs of safety properties, never in a run of a
liveness property.

**Fairness.** `Connections` assumes one thing: the server (event loop, pool,
PostgreSQL) does not stop while it can serve *some* request (`WF` of the
disjunction over requests). Each request of a run is made once, so no request
can be passed over for ever in favour of new ones, and no stronger assumption
on the order of queues is needed. Nothing obliges a client to read, a request
to arrive or to fail, or a worker to be replaced. `Migrations` assumes that
the migration's next statement runs if it can (`WF(Migrate)`; PostgreSQL
serves lock queues in order and requests that come later wait behind an ACCESS
EXCLUSIVE lock), that each request in flight goes on, but for a download in
`stream`, and that PostgreSQL breaks deadlocks. Nothing obliges a client to
read, a migration to fail or a worker to die. `MigrationEnds` says what it
needs of clients: that no download stays in `stream` for ever. Without that it
is false: a stalled download keeps ACCESS SHARE on `users`, and neither
`alembic/env.py` nor `deploy.sh` sets a `lock_timeout`.

## 4. Where code and documents part

Three are demonstrated by runs:

* `reports_overwritten`: filestore.py and API.md say a PDF is never
  overwritten. A second edit sent after the response to the first, before its
  commit, loads the old version, computes the same path and rewrites the file.
* `sessions_single_use`: `mark_used` does not ask whether `used_at` is still
  NULL, so two overlapping refreshes each obtain a pair of tokens.
* `accounts_login`: the unique index is on the address as typed, the look-up
  folds case and expects one row. After "ann" a new organisation for "Ann" is
  answered 201; logging in as either then fails (500).

Others follow from the same modules when a condition is dropped:

* `PdfMatchesRow` and `PublishesHistory` (`report_service.py:166`): in
  `reports_serial` with `Clients` at `"await_reply"`. API.md:297 promises a
  snapshot of the prior state and a version that grows.
* `CapHolds` (`draft_service.py:75`): users whose requests overlap exceed the
  cap, by at most the requests in flight.
* `SessionsKnowThePassword`, `DeletionRevokes` and `OrgDeletionRevokes`
  (`user_service.py:217`, `refresh_token_repo.py:61`, `organisation_repo.py:95`)
  without `late`: a login or refresh that commits after the revocation looked
  escapes it. API.md says all tokens are revoked.
* `AutosaveCreatesOnlyTheFirst` (`draft_service.py:126`): two autosaves of one
  user that both find no draft both create one.
* `OwnersActWithinTheirTenant` without `lapses` (`user_service.py:311`): an
  owner's deletion of a member that an administrator moves away, or makes an
  owner, after the check is still carried out.
* `OneOwner` without `lapses` (`user_service.py:225`, `311`): an administrator
  who moves into an organisation and takes the role is a second owner; a
  deletion in flight while `convert-to-org` runs leaves none. UPDATE.md:91
  says every organisation always has exactly one. For other accounts than the
  administrator's own the rule holds only because of `Answerable`: API.md:565
  and UPDATE.md:132 say that a partial unique index rejects a second owner,
  but that index is over `organisations.owner_user_id` and does not see roles;
  what rejects it is the response that cannot be built (500), which also
  rejects every plain member that API.md says the endpoint creates.
* `ConvertedReportsBelong` without `lapses` (`cli.py:137`): a report in flight
  while `convert-to-org` runs stays without organisation.

And some that the modules make plain but no run is about: a PUT of a draft
that changes nothing does not bump `updated_at` (DRAFTS_UPDATE.md:190 says it
does); with several workers an address has one allotment per process
(API.md:102 says five attempts per IP), and behind a trusted proxy the limiter
counts the leftmost address of the header, which is the caller's only if that
proxy replaces what the client sent (`deps.py:236`); `WindowIsBounded` is
about the others; members of a deleted organisation can still log in, and are
refused on each later request (UPDATE.md:68 says login fails); the owner of a
deleted organisation cannot be deleted (`user_service.py:314` says to delete
the organisation first). An organisation id that does not exist violates a
foreign key and is reported as "email already registered" (409). A taken
e-mail address together with a new password ends in an uncaught IntegrityError
(500 instead of the 409 of API.md:656), because revoking tokens flushes
outside the `try`. `refresh` scans the 10000 newest accounts only. During a
deployment, requests of the old code fail from the commit of the migration to
the restart, and the drafts endpoints of a worker recycled before it fail
until then; a stalled download delays the migration until its client is gone,
and with it every new request, since nothing limits how long the migration
waits for its locks.

## 5. Proofs

Each component has a module of theorems, `...Proofs`, checked by TLAPS: they
hold for every set of requests, accounts, reports, drafts, tokens, every bound
of section 3 and runs of any length, under the component's assumption on its
constants alone. With the exceptions listed at the end of this section, every
invariant and action property that a passing run checks is stated by a
theorem. In most cases the property is not inductive, because what a step
commits was decided when the request read, long before. So every module
defines an inductive invariant `IInv`, of named parts: the types, what is true
of the committed rows, and, in most modules, `TxOK(p)` about what the request
of slot `p` knows and has done so far and `PairOK(p, q)` about what two
requests in flight cannot both have. One lemma per kind of action shows that
it is preserved, `NextStep` joins them, `Invariance` concludes. TLC checked the
inductive invariants on the instances of section 3 before they were proved.

| Theorem | States |
|---|---|
| `ReportsProofs` `TypeCorrect`, `PdfOnDisk`, `OriginalKept`, `AuditKept`, `IdentityKept` | `TypeOK`, `PublishedPdfExists`, `OriginalPdfKept`, `AuditExplainsHistory`, `IdentityIsStable` |
| the same, if `Clients = "await_commit"`: `PdfShown`, `DownloadsFaithful`, `Refinement`, `PdfsAreKept` | `PdfMatchesRow`, `DownloadIsFaithful`, `PublishesHistory`, `NeverOverwritten` |
| `DraftsProofs` `TypeCorrect`, `OwnersOnly`, `GoneForGood`, `CapIsKept`, `AutosaveCreatesFirst` | `TypeOK`, `OwnerOnly`, `GoneStaysGone`, `CapHolds`, `AutosaveCreatesOnlyTheFirst` |
| `RateLimiterProofs` `TypeCorrect`, `BucketsAreExact`, `LimitIsKept` | `TypeOK`, `BucketIsTheWindow`, `WindowIsBounded` |
| `SessionsProofs` `TypeCorrect`, `RotationsSpend`, `DeletedAreRevoked`, `DeadForGood`, `UsedOnce`, `PasswordRevokes`, `OrganisationRevokes` | `TypeOK`, `RotationSpends`, `DeletionRevokes`, `DeadStaysDead`, `SingleUseInTurn`, `SessionsKnowThePassword`, `OrgDeletionRevokes` |
| `TenancyProofs` `TypeCorrect`, `OneOrganisation`, `StampsAreFinal`, `OwnersKeepToTheirTenant`, `OwnersSeeMembersOnly`, `EachHasOneOwner`, `ConvertedReportsHaveOne` | `TypeOK`, `OneOrganisationPerOwner`, `StampIsFinal`, `OwnersActWithinTheirTenant`, `OwnersSeeTheirMembers`, `OneOwner`, `ConvertedReportsBelong` |
| `AccountsProofs` `TypeCorrect`, `NoHalves` | `TypeOK`, `NoHalfOrganisation` |
| `ConnectionsProofs` `TypeCorrect`, `OthersNeverDeadlock` | `TypeOK`, `OnlyAccountsDeadlock` |
| `MigrationsProofs` `TypeCorrect`, `UpgradeIsFaithful`, `DowngradeIsFaithful` | `TypeOK`, `UpgradeKeepsDrafts`, `DowngradeKeepsNewest` |

**`Reports`, any clients.** `TxOK` says what each request in flight knows: a
creating request is alone with its report and, once past its file operations,
the whole PDF is on disk; any other holds a *sound* copy of a row that is
committed, and an edit past its file operations has its file on disk.
`ReportOK` says that committed rows and snapshots are sound: the path is that
of the version, the file exists, and version 1 is still what was submitted.
The step that carries it: an edit writes the path of the version after the one
it loaded, hence never that of version 1, and it never removes a file
(`DiskStep`, `DiskKeepsReports`). The audit log is a second invariant on top of
`IInv`; `IdentityIsStable` is an action property proved from it.

**`Reports`, edits that await each other's commits.** `SerialInv` adds that an
edit is the only edit on its report and that the row still has the content it
loaded, though a deletion may have marked it since (`WriterOK`,
`SameContent`), that a download has read, so far, the
PDF of the row it loaded (`ReaderOK`), and that the row's file shows the row
(`RowShown`). Then each step is a step of `ReportHistory` or changes nothing of
it (`StepRefines`): `CommitCreate` publishes, `CommitUpdate` supersedes
(`UpdateRefines`), `CommitDelete` deletes, or stutters if another deletion
came first (`DeleteRefines`), and a file operation touches only
the path one ahead of the row, which the mapping does not see (`Unseen`,
`FilesBehind`). `PdfsAreKept` needs in addition that snapshots name versions up
to the row's (`BehindInv`). The hypothesis on `Clients` is necessary:
`reports_overwritten` violates `NeverOverwritten` when it is weakened to
`"await_reply"`.

**`Drafts`.** An insert in flight has an identifier that nobody else can know,
an edit or deletion has loaded a draft of its own actor, and one request at a
time holds the lock of a row; a draft's identifier, once used, stays used.
`CapInv` is about counting. A count sees committed rows only, so what is
bounded is the committed drafts of a user together with those inserted but not
yet committed (`Pending`): by the cap for a user whose requests never
overlapped, who has no other insert pending when one counts; by the cap plus
the other requests of the server for anybody else.

**`RateLimiter`.** A bucket is a deque, the property counts a history, and
`Mirror` relates them: a one-to-one map of the bucket's hits to the attempts
let through under its key by this process, which leaves out none that is
recent. `TypeOK` bounds every bucket by the limit, since a hit is recorded only
below it. `Sorted` makes pruning from the left remove exactly the expired ones
(`PruneKeeps`). A process counts in order of time, so a window in the past is
bounded (`KeysBounded`) because it was when its last attempt passed. That the
header changes nothing is `AttemptsOK`: without a trusted proxy the key is the
caller.

**`Sessions`.** A request owns the token it inserts and the rows it locks
(`PairOK`), a committed token belongs to the account it was made for, and its
parent is spent (`TokenOK`); a commit writes only rows that it locked, which is
why nothing dead revives. `RaceInv` is about the races: a row that is not late
belongs to an account that is not deleted and knows its password (`RowOK`);
once a revocation has looked, the tokens it found are all there is to find but
for late ones (`FoundOK`); a refresh that has found its token carries that
row's password, and any successor that the token has got since is marked as
raced (`ReadOK`). It contains `SingleUseInTurn` itself.

**`Tenancy`.** `TxOK` says what remains true of a copy of an account or of a
checked organisation when others change the original; `PairOK` that new
identifiers are one request's own and that, of two conversions of one account,
only one is past its insert. `belonged` contains each stamp and each
membership, those of a request's copies included, which gives
`OwnersSeeTheirMembers` and the first half of `OwnersActWithinTheirTenant`.
`SerialInv` holds until a lapse: until requests overlap, what a request has
read is what is committed (`Reread`), which carries `ConvertedReportsBelong`
and the other half of `OwnersActWithinTheirTenant`; and until an administrator
edits themselves, no administrator has an organisation (`AdminsOutside`),
which is what `Answerable` then needs to reject each second owner.

**`Accounts`.** What the statements of a request update is stored, what they
insert is not, and the owner they name is stored or comes along (`Sound`). The
unique indexes are the rest: statements that have run have entries that no
committed row has, and statements of two requests add different entries
(`PairOK`), so that a commit keeps `EntriesApart`.

**`Connections`.** `RequestOK` relates the locks a request holds to those it
has yet to take. Logins, refreshes, downloads, reads and operations on reports
and drafts follow one of a few lists (`PlainOrder`). Operations on accounts
never lock a report, and hold the key of an account only when nothing but
their actor's lock is left (`AccountOrder`); `convert-to-org` takes no key,
and nothing but reports after its first report (`ConvertOrder`). A request is
on a circle if it is in every set that is closed under waiting (`OnCycle`).
`NoOtherCycle` leaves each operation of the first kind out of such a set: the
set of all others while it holds nothing; while it waits for a report, that of
the requests that wait for a report or for their actor's lock; after that,
that of those who wait for their actor's lock alone. In both cases whoever
they wait for is in the set as well (`LastLock`, `WaitsForKey`). The run has
three requests; the theorem covers circles of every length.

**`Migrations`.** Each revision keeps drafts in its own place (`SchemaOK`),
requests past their first statement belong to it (`TxOK`), the table locks
keep those out whose writes would be missed (`LocksOK`), and therefore what was
copied is what is committed at the end (`MovedOK`).

**Assumptions.** The markers (`NoRow`, `NoTx`, `Null` and the like) are not
values of what they mark; accounts, reports, drafts, organisations and tokens
are different rows, having tables of their own; bounds are numbers; and what
the proofs count is finite: the request slots of `Drafts`, the tokens and
reports of `Connections`. TLC evaluates each assumption on the runs. No
assumption is made about the order of requests or of failures; where a
property is about accounts, tokens or runs without an overlap, the overlap is
recorded by the model as it happens (`overlapped`, `lapses`, `late`, `raced`),
not excluded.

**Only model-checked.** `LightRequestsEnd`, `EveryRequestEnds` and
`MigrationEnds` are liveness properties under fairness, which need `ENABLED`
and are out of the prover's reach; they rest on the runs `connections` and
`migrations`. That the exemptions of section 4 are needed (`Clients`,
`overlapped`, `lapses`, `late`, `raced`) is shown by counterexamples, not
proved. No definition that the theorems use is recursive, and nothing is
proved by induction over data.

## 6. Not modelled

seed-dev (it refuses to run outside development and assumes an empty
database); revisions 0001 to 0004 as migrations (they create and alter tables;
their constraints are in the modules); the wait for an entry of a unique
index in `Connections` (it is in `Accounts` and `Tenancy`, where a circle of
such waits ends by `Abort`): `OnlyAccountsDeadlock` speaks of waits for rows,
and with waits for entries a circle through several account operations, such
as a change of e-mail, the creation of an organisation with its owner and
`convert-to-org`, might reach the report operation that waits for one of them;
the limit on accounts that `refresh` scans; audit entries
about accounts, other than the lock they take; status codes and error texts;
HTML and PDF rendering; JWT and bcrypt; validation, logging, middleware,
configuration; package installation and systemd units. `PROJECT.json` gives
the reason for each component.

## 7. Plan

1. (done) `Reports` with `ReportHistory`, its runs and first theorems.
2. (done) `Drafts`, `RateLimiter`, `Sessions`, `Tenancy`, their runs.
3. (done) `Connections`: pool, row locks, slow readers; liveness.
4. (done) `Migrations`: revision 0005 beside live requests.
5. (done) `Accounts`: addresses, names, unique indexes.
6. (done) Proofs: type correctness of every module, the invariants and action
   properties of every passing run, the refinement of `ReportHistory`.
7. Left to prove: statements that no run checks yet but that would tell a
   reader more, such as which locks bound a migration's wait in `Migrations`,
   the order of locks between operations on accounts in `Connections`, and
   shorter proofs where several modules repeat an argument about rows that
   only their own request changes.
