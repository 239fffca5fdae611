# Verification of the FBA admin template

TLA+ models of the admin backend template in `src/admin`, the TLC runs that
check them on small instances, and proofs, checked by TLAPS, that hold for
every size.

The program is a multi-process HTTP backend: handlers run in goroutines of any
number of processes over one SQL database, one Redis and one object store.
Nothing in the services holds a lock or a transaction across two repository
calls (the exceptions are single repository methods that open a transaction of
their own), so what can go wrong lies between the calls. Every module therefore
models a handler as the sequence of its repository, Redis and storage calls,
each call one atomic step, with the handler's local variables kept in between;
handlers of all kinds interleave, and any of them may stop for good between two
calls (an error, a client that went away, a process that died).

## 1. Inventory

| part | state | operations | where it is hard |
| --- | --- | --- | --- |
| uploads (`plugins/uploadfile/service/service.go`, `owner.go`) | `upload_file_object` and `upload_file_ref` rows, bytes in the object store, URLs in clients' hands | upload, presign, complete, bind, delete, cleanup of expired refs and of stale pending uploads | quota checks, binds and completions against a cleanup made of many calls; failures that leave half of the work; URLs that outlive rows |
| shares (same file, `token.go`) | `upload_share` rows, signed tokens in clients' hands | create, disable, metadata, verify password, download | a download limit checked before and counted after the download |
| scenes and storages (same file) | `upload_scene` and `upload_storage` rows | create, update, delete | "in use" counts before a delete, one default storage, updates filled in from a row read before |
| storage backends (`plugins/uploadfile/storage`) | bytes by key | put, open, head, delete, presign | external; idempotent deletes |
| sessions and passwords (`internal/app/admin/service/auth_service.go`, `user_service.go`) | `sys_session` rows, users, tokens in clients' hands | login, refresh, logout, authenticate, password change and reset, permission toggles, delete | single login and revocation are a list followed by deletes and an insert; refresh replaces a session it read before |
| login lock and captcha (`auth_service.go`) | Redis keys or maps: failures, locks, captchas | count a failure, lock, expire, reset, consume a captcha | several Redis calls per decision |
| departments, menus, roles, data rules (`internal/app/admin/service`) | trees and link tables | create, update, delete, link, build trees, authenticate | parents, names and links checked before they are written: concurrent moves and deletes |
| OAuth2 (`plugins/oauth2/service`) | one-time states, `sys_user_social` rows, users | authorize, callback, bind, unbind | get-then-delete of a state, check-then-create of a binding and of a user |
| task schedulers (`plugins/task/service`) | scheduler rows, the executor's loaded schedule, a Redis lease | create, update, toggle, delete, reload under the lease | a reload skipped because another holds the lease; a release that deletes someone else's lease |
| dictionary, configuration (`internal/app/dict`, `internal/app/config`) | rows | create, update, bulk update, delete | a key looked for before it is written, a code copied from the type |
| notice, email, logs, monitoring | single rows, a code in Redis, reports | read, write | the mailed code is read, compared and later deleted |
| repositories (`repo/memory.go`, `repo/gorm.go` of every plugin) | maps under a lock, or tables | every call of the services | two implementations of one interface, kept alike by hand; the memory one serves the tests and a host without a database |
| runtime and migrations (`internal/runtime`, `internal/app/migration`) | the schema | migrate | start-up only; `migration.NoopLock` lets two processes migrate together |

What the parts share: users and roles (sessions, OAuth2 and uploads act on the
authenticated actor), the upload backend the admin module borrows from the
upload plugin (`FileUploadBackend` in `plugins/uploadfile/module.go`), the task
worker that runs the cleanup, and the database.

What makes each part correct is listed with its module below; the hazards, one
by one with the line where each bites, are in `PROJECT.json`.

## 2. Plan

In order of what matters most to the system.

| # | module | models | composes, or abstracts |
| --- | --- | --- | --- |
| 1 | `UploadFile` (proved about) | uploads, binds, deletion, cleanup | rows, backend, handlers and cleanup runs together |
| 2 | `UploadShare` (proved about) | share links and file tokens | what `UploadFile` does to a file is two of its actions |
| 3 | `AdminSession` (proved about) | sessions and what ends them | handlers of login, refresh and account changes together |
| 4 | `OAuth2Binding` (proved about) | states, callback, binding, account creation | implements `IdentityMap`, an atomic one-to-one map of identities to accounts |
| 5 | `LoginGuard` (proved about) | failure counts, locks, captchas, mailed codes | the Redis commands and the critical sections of the in-memory variant |
| 6 | `Organization` (proved about) | departments, menus, roles, scopes, rules, users; `Authenticate` | the services over the tables they share |
| 7 | `UploadCatalog`, `TaskSchedule`, `Settings` (proved about) | scenes and storages; schedulers and the lease; configuration and dictionary | put side by side by `PluginServices` |
| 8 | `TwoStores`, `AdminRepository`, `PluginRepositories` (proved about) | every repository call, in memory and in the database | the two implementations together, by `Repositories` |

All of them are written. An abstract specification is stated where the code
implements one: `IdentityMap` (the unique indexes make it true). A forest for
the departments or an atomic lock for the logins are not true of this code;
what is true instead is said by `HiddenOnlyByMoves`, `StrandedOnlyByRaces` and
`GuessesBoundedByLock`, which name the overlaps that are the only way to lose
the atomic behaviour.

Runs: few, each with the properties that share an instance. Two handlers of
each kind, which is every pairwise race, three where a bound depends on their
number; clocks to the end of the longest lifetime. Where a module has parts
that do not touch each other's tables, a run picks one of them in its initial
state (`Areas`, `at`, `Called`), so that each is explored with an instance of
its own size.

Every module of the plan has its proofs; what stays with TLC is listed under
Proofs.

## 3. UploadFile: the life of an uploaded file

`UploadFile.tla` models `Upload`, `CreatePresignedUpload`,
`CompletePresignedUpload`, `Bind`, `DeleteFiles` and `CleanupExpiredTemps` with
`cleanupPendingUploads`, over both repositories.

| variable | code |
| --- | --- |
| `object[f]` | the `upload_file_object` row: status, uploader, creation time |
| `ref[f][k]` | the `upload_file_ref` rows of the file, in slots: status, scene, owner, expiry |
| `blob[f]` | what the storage backend has under the key: nothing, the declared bytes, other bytes |
| `url[f]` | the presigned URL the client holds: the lifetime it asked for, and until when it accepts bytes |
| `req[q]` | where a handler is, with what it has read so far |
| `cleaner[c]` | where a cleanup run is, with its lists |
| `now` | `s.now()` |
| `lost` | files whose storage row is gone or has another code, so that `backendForObject` fails for them |
| `granted[f]`, `revived[f]`, `kept` | history only: owners named by a super admin; how often a completion brought a deleted file back; files with an active ref when a run listed |

The actions follow the calls. An upload is `BeginUpload` (scene, owner, count
of all files), `CheckOwnerQuota` (count of the owner's files), `PutBytes` or
`PresignPut`, `CreateObject`, `CreateRef`; a client with a URL does `ClientPut`
as long as the URL lives. A completion is `BeginComplete`, `HeadObject`,
`Activate`; a bind is `BeginBind` and the transaction `BindRefs`; a delete
repeats `DeleteCheck` and `DeleteObject`. A cleanup run is `ListExpired`,
`MarkExpired`, then for each file `CountRefs`, `GetObject`, `DeleteBytes`,
`MarkObject`; then `ListPending` and for each object `DeletePendingBytes`,
`ListPendingRefs`, `MarkPendingRefs`, `MarkPending`, in the order of the ids
(`IsNext`). `LoseStorage` is an administrator's update of a storage's code, or
its deletion beside an upload (`UploadCatalog` has how that comes about); a run
that comes to such a file returns (`StorageFails`). `Abort` and `AbortRun` stop
a handler or a run anywhere.

Abstracted: file names, extensions, MIME types and sizes (a request that fails
those checks stops, which `Abort` allows; declared and actual bytes differ or
not in `blob`), byte quotas (the same check on another column), subjects and
fields of a ref, one storage for all scenes, the dry run (it only reads), ids
given twice in one request, actors without a user id. The access check reads
the object and then its refs; the model does both in one step, because access
can only be lost by a ref being deleted and either order of those two reads
gives a decision some instant justifies. A file has a bounded number of refs
(`Slot`).

### Runs

| run | what it checks |
| --- | --- |
| `upload_presign` | `TypeOK`; `NamesExist`; `LateUploadIsBounded`: the URL of a file that the pending cleanup reclaims outlives the reclaim by no more than its lifetime exceeds the grace period, so that one that does not exceed it has expired; `RevivalsBounded`: completions in flight bring a deleted or reclaimed file back at most once for each handler, however often it is deleted |
| `upload_local` | a backend without presigned uploads: `BoundBeforeRunIsKept`, one cleanup run at a time never removes a file that had an active ref when it listed; `OwnersAreGranted`, no chain of uploads, binds, expirations and deletions makes anyone an owner but the uploader and whom a super admin named |
| `upload_quota` | `QuotaOvershootBounded`: n concurrent handlers pass the limit by at most n - 1 |
| `upload_liveness` | `PendingIsResolved`: each of two stale pending files is dealt with, unless it or one that sorts before it is on a lost storage; `ExpiredRefIsCleared`: an expired temporary ref does not stay temporary |
| `upload_bindrace` | expects a violation of `BoundBytesAreKept`. "Physical delete should happen only when no active refs remain" (`2026-06-07-uploadfile-plugin-design.md:366`); a bind between the cleanup's count (`service.go:734`) and its delete (line 757) loses the bytes of a bound, active file, which is why `BoundBeforeRunIsKept` speaks of files bound before the run |

Bounds: one file with two refs, or three files for the quota, two handlers and
one cleanup run. Two handlers and one run give every pairwise race of the
operations; two slots let a file have an expired and a bound ref at once; two
users and a super admin are the smallest set in which one user can try to pass
a file to another; three files let the limit of one be passed and tried once
more; in `upload_liveness` two files of the same or different age start
presigned (`PresignedInit`), so that either may sort before the one whose
storage is lost, and one handler races the run. The clock runs to the end of
the longest lifetime. Where no lifetime matters it stands still and lifetimes
are 0, so that a temporary ref may expire at any moment. Handlers, files and
runs are interchangeable and are symmetry sets (not in the runs of temporal
properties). The quota run leaves the cleanup out: it only ever lowers the
count.

With PutTTL 1 and 3 against a grace period of 2, `upload_presign` has URLs of
both kinds, those that die before their row is reclaimed and those that do not:
the code caps neither the client's `ttl_seconds` (`api/handler.go:74-77`,
`service.go:358`) nor compares it, or the configured lifetime, with the age at
which rows are taken. So bytes may arrive under a reclaimed key, and
`LateUploadIsBounded` says for how long.

Fairness: the clock advances, and again and again a run of the cleanup gets to
its end: it has no stale pending object left, or it came to one on a lost
storage and returned there (`RunEnds`). In between any number of runs may be
cut short anywhere. Nothing is assumed of a single step, nor that a storage
that is lost comes back; one that is renamed and named back is, for the runs in
between, a failed run. That somebody runs the cleanup is the operator's part:
the plugin registers the task and a command (`module.go:99-140`) and the
template seeds no schedule for it; `uploadfile-usage.md:363-370` and 909 tell
the operator to run it regularly. Handlers get no fairness: a client owes the
server nothing.

Other promises of the documents that the code does not keep, which the model
shows and no run is spent on: completion "rejects deleted files"
(`2026-06-08-uploadfile-api-contract.md:85`), but goes by a status read before
it asked the backend (`service.go:431`), so that a file deleted meanwhile comes
back (`RevivalsBounded` says how often); a deletion "soft deletes objects and
refs" (`2026-06-07-uploadfile-plugin-design.md:366`), but `DeleteFiles`
(`service.go:704`) leaves the refs; "if no active refs remain, mark object
deleted and delete physical object" (same document, line 415), but a run that
fails after it marked the refs (`service.go:730`) leaves active files without a
ref that no later run finds.

Seen while modelling, with no promise to hold it against: an upload that fails
after the bytes were stored, or after the object was created, leaves bytes or
an object without a ref that no cleanup finds; a completion that asked the
backend before the pending cleanup took the bytes makes an object without bytes
active; a ref bound after the cleanup listed it is marked deleted by its id.

## 4. UploadShare: bytes without a login

`UploadShare.tla` models the share links (`CreateShare`, `DisableShare`,
`VerifySharePassword`, `OpenShare`) and the file access tokens
(`CreateFileAccessToken`, `OpenPublicFile`).

| variable | code |
| --- | --- |
| `share[s]` | the `upload_share` row: status, file, whether it has a password, nullable expiry and limit, count |
| `deleted`, `stored` | of a file, what `UploadFile` does to its row and its bytes |
| `verified[s]`, `fileToken[f]` | the latest expiry of the signed tokens clients were given |
| `req[q]` | where a download is |
| `served[s]`, `late[s]` | history only: downloads answered, and those answered after the share had ended |
| `now` | `s.now()` |

A download of a share is `BeginOpen` (valid share, token for a protected one),
`OpenStorage` or `NoStorage`, `CountDownload`, `Answer`. `CountDownload` is the
single `UPDATE ... download_count + 1`, so no count is lost; the check is the
one of `BeginOpen` and is not repeated. A download of a file is `BeginOpenFile`
and `OpenFile`. Signatures are taken to be sound and a token is its expiry:
what the code decides is when a token is accepted, not how it is encoded.
Metadata only reads.

| run | what it checks |
| --- | --- |
| `share_downloads` | `TypeOK`; `DownloadOvershootBounded`: n downloads together pass a limit by n - 1 at most, and never a limit of 0; `ServedIsCounted`: no client gets bytes that were not counted; `EndedShareDrains`: a share that was disabled or expired answers the downloads in progress and no other; `FileTokensAreShort`: no file token outlives the configured maximum |

Bounds: one share of one of two files, of which only one has a registered
backend. Limits of none, 0 and 1 are the boundary cases and two downloads the
smallest number that passes a limit of 1; `CountBound` leaves room for every
overshoot. The clock runs past the longest lifetime of a share, and the
configured maximum is shorter than the default, which is the case the cap is
for; a lifetime of 2 is asked for and refused.

Seen while modelling, without a property of its own: `OpenShare` asks only the
registered backends (`service.go:971`), where every other download falls back
on the storage row; the module registers none (`module.go:91`), so as it is
built every download of a share answers "not found"; two downloads pass the
check of the limit together (`DownloadOvershootBounded` says by how much the
limit is passed).

## 5. AdminSession: who is signed in

`AdminSession.tla` models login (password, Swagger, OAuth2), refresh, logout,
and what ends the sessions of a user: a password change or reset, the end of
multi-login, deletion. A rename is there because sessions are found by name.

| variable | code |
| --- | --- |
| `called` | the operations that run together, chosen at the start |
| `user[u]` | the `sys_user` row: deleted, enabled, multi-login, username, password |
| `session[s]` | the `sys_session` row: user, username as stored; and, as history, the session a refresh replaced and the eras below |
| `history[u]` | the `sys_user_password_history` rows |
| `req[q]` | where a handler is; `row` is the user as the handler read it, which it uses to its end |
| `drawn`, `token` | uuids that were drawn; refresh tokens in clients' hands |
| `era[u]`, `revoked[u][n]` | history only: how many changes that end sessions a user had, and the latest whose handler has returned having looked for name `n` |

A login is `BeginLogin`, `UpdateUserLoginTime`, for a single-login user
`ListSessions` and `DeleteListed` one by one, then `UpsertSession`. A refresh
is `BeginRefresh`, `EnsureAllowed` for a single-login user, `GetSession`,
`ReplaceSession`, and from there as a login. A password change is
`BeginPassword`, `CheckHistory`, `ResetUserPassword`,
`CreateUserPasswordHistory`, then `ListSessions`, `DeleteListed`, `Finish`. The
toggles read the row twice (`BeginToggle`, `ReadFlag`) and write it
(`WriteFlag`); the end of multi-login goes on to `ListSessions`. `Abort` ends a
handler anywhere.

Abstracted: tokens' signatures and expiry (a client has the tokens it was
given; an expired session row is not deleted by anything), captchas and the
login lock (`LoginGuard`), the roles and departments `Authenticate` loads
(`Organization`), superuser and staff flags (toggled as `status` is, no session
depends on them), login logs. The first two reads of `UpdatePassword` and the
two of `clearUserSessions` are each one step: between them nothing is decided.

| run | what it checks |
| --- | --- |
| `admin_sessions` | `RevokedSessionsAreGone`: when a change has finished, no session stored before it remains under the name it looked for; `RefreshedIsGone`: the predecessor of a live session is gone; `SingleLoginOvershootBounded`: a single-login user never has more sessions than handlers run together, where only logins and refreshes store them and the flag stays |

Bounds: one account (handlers of different accounts touch different rows, only
usernames are shared), two handlers, three uuids so that two logins can run
after a session is there, one change that ends sessions (`EraBound`); the
account starts with or without multi-login. `Called` has the four selections of
operations that run together (`called` is the one chosen): what signs in
against password changes and renames, against password changes and the end of
multi-login, against deletion and the end of multi-login with Swagger logins,
and against a disabled account. Together they call all operations. An account
may be deleted for good, after which nothing is left to do: the run does not
check deadlock.

Two promises of comments that the code does not keep, which the model shows and
no run is spent on. All sessions of the user "must be removed to force
re-authentication" (`user_service.go:326`), but they are found by the username
they were stored with (`gorm.go:962`): a password change after a rename leaves
the earlier ones, without any concurrency. "Refresh must replace the old
session row" (`auth_service.go:460`), but two refreshes that both find the row
each store a successor.

The rename is why `RevokedSessionsAreGone` speaks of the name that was looked
for. Seen while modelling, without a property of their own: a login that
verified the old password stores its session after the clearing; two single
logins list before either stores, and `SwaggerLogin` does not look at all; of
two multi-login toggles the one that ends multi-login may see the other's write
and clear nothing; the password in use is not in the history yet and is
accepted as a new one; of two `UpdatePassword` calls both verify the old
password against the row they read, and the later write wins.

## 6. OAuth2Binding: whose account an identity is

`OAuth2Binding.tla` models `LoginAuthURL`, `BindingAuthURL`, `Callback` with
`Login` and `BindingWithOAuth2`, `Unbind`, and what races with them in the
accounts: `UserService.Create`, changes of the email (`UpdateEmailForIP`, and
`Update`), deletion. It is shown to implement `IdentityMap.tla`, in which
identities and accounts are matched one to one and a match is made, dissolved
or looked up in one step.

| variable | code |
| --- | --- |
| `user[u]` | the `sys_user` row: absent, live or deleted; its email |
| `binding` | the `sys_user_social` rows with `deleted = 0`, as pairs |
| `state[t]` | the payload in Redis under a state; not drawn yet, or gone |
| `req[q]` | where a handler is, with the identity and email the provider answered, the state's user, the account found |
| `uses[t]` | history only: callbacks that went on with the state |

A callback is `BeginCallback` (the `GET` of `Pop`), `DelState` (its `DEL`),
then for a binding `CheckBinding`, `GetBySID`, `CreateBinding`; for a login
`GetBySID` and `GetUser` if the identity is bound, else `FindByEmail`, perhaps
`CheckEmail`, `CreateUser` and the read of the new row (`GetUser`), then
`CreateBinding`; a login ends with `OAuth2Login`, whose rest is a login of
`AdminSession`. The unique indexes on (sid, source, deleted) and (user_id,
source, deleted) are the guards of `CreateBinding`. An account is created or
given an email by `BeginCreate` or `BeginUpdateEmail`, `CheckEmail`, and
`CreateUser` or `UpdateUserEmail`. A refusal, an error or a crash is `Abort`,
at any step.

The refinement maps `binding` to the abstract matches, and the abstract answer
of a handler is its identity with its account from the moment `GetBySID` found
it or `CreateBinding` stored it: the point at which the login takes effect,
some calls before it is answered.

Abstracted: one provider (every query names the source, so two never meet); the
exchange of the code, which precedes the first call; the status flag of an
account, avatars, generated usernames, roles and departments, which only let a
handler go on or refuse; the email captcha. Which of several holders of an
email `First` returns is left open. A handler forgets what it has no more use
for: the email in a binding, the state after the `DEL`. Read and write
connections are taken as one database. The variant modelled is GORM with Redis;
the in-memory state store pops under a mutex, which is one of the
interleavings, and the in-memory repository, which has no unique index, serves
tests.

| run | what it checks |
| --- | --- |
| `oauth_identities` | `TypeOK`; `ImplementsIdentityMap`; `AccountsPerEmailBounded`: an email is held by no more accounts than handlers run together; `StateUsesBounded`: as many callbacks at most go on with one state, and none that begins after one of them deleted it |

Bounds: two identities and three accounts, so that an identity can lose its
account and be matched with another while a second identity takes the first;
two handlers, which is every race of two callbacks or account changes; two
states, one for a login and one for a binding. Everything is symmetric.

Also seen, without a run of their own: two callbacks with one state in between
the `GET` and the `DEL` (that is how often `StateUsesBounded` allows); the
bindings of a deleted account stay, so its identity can neither sign in nor be
bound to another; a first login that fails after `CreateUser` leaves an account
without an identity, and two first logins of one identity may each create an
account, of which one stays without; a login looked up before an unbinding
still signs in.

## 7. LoginGuard: what stands before a login

`LoginGuard.tla` models the image captcha of a login, the count of failed
logins and the lock it leads to (`auth_service.go`), and the code mailed for a
change of address (`plugins/email/service/service.go`, checked by
`user_service.go`), in both variants: over Redis, one command at a time, and in
memory, one critical section at a time.

| variable | code |
| --- | --- |
| `failures[u]`, `lock[u]` | the keys of the failure count and of the lock, with what is left of their lives; in memory the maps of the same names |
| `stale` | in memory, the users whose lock ran out and is still in the map |
| `captcha[c]`, `mailed` | the captchas that wait for an answer, and the code mailed to the client's address |
| `req[q]` | where a handler is, with what `INCR` returned to it |
| `called`, `store` | which operations, and which variant, a behaviour is about |
| `used[x]`, `answered[u]` | history only: what a captcha or code has opened; "wrong password" answers since the last lock, right password or end of the count |

A login is `BeginLogin` (or `BeginUnchecked`: Swagger, or captchas off),
`GetCaptcha`, `DelCaptcha`, `CheckLoginLock`; a wrong password goes on with
`IncrFailure`, `ExpireFailure`, and at the threshold `SetLock` and
`DelFailures` (in memory: `RecordLoginFailure`), a right one with
`ResetLoginFailure`. A change of address is `BeginUpdateEmail`, `GetCode`,
`DelCode`, `UpdateUserEmail`. `Abort` ends a handler between any two commands:
a count may be left without an expiry. `Tick` takes one from every life.

| run | what it checks |
| --- | --- |
| `login_guard` | `TypeOK`; `GuessesBoundedByLock`: in memory an attacker is told "wrong" fewer times than the threshold before the lock, over Redis at most a threshold's worth for every handler; `CodesAreSpent`: a captcha opens one login in memory, and over Redis no more than the handlers that had read it; `LocksEnd`: every lock runs out however often the user tries |

Bounds: three handlers, so that two can race while a third finishes a series; a
threshold of 2, the smallest with a count between 0 and the lock; lives of one
tick but two for the lock, so that a count can end within a lock's life.
`FailureBound` cuts the count that handlers which died may leave behind. Not
modelled: a lock duration of 0, for which the memory variant locks for no time.
Fairness: weak fairness of the clock, nothing else. Captchas are drawn once
each; a locked user's refusal and a wrong answer end the handler.

## 8. Organization: who may do what

`Organization.tla` models the services of departments, menus, roles, data
scopes, data rules and users, and `Authenticate`, over the tables and link
tables they share.

| variable | code |
| --- | --- |
| `row[x]` | the row of an id of any table: name, parent (a department's, a menu's, a user's department), status; or none yet; or deleted |
| `link` | `sys_user_role`, `sys_role_menu`, `sys_role_data_scope`, `sys_data_scope_rule` |
| `req[q]` | where a handler is, with what it is asked to write, or what it has read of its user |
| `area` | the tables and operations a behaviour is about |
| `raced`, `looped`, `disturbed` | history only: ids whose deletion overlapped with a write that refers to them; departments and menus whose last move put them below a row of their own subtree; handlers of `Authenticate` during which something was written |

A create or update is `WriteDept` (`WriteMenu`, ...), then `FindName`,
`FindParent` or `EnsureLinks` and `KnownLinks`, then `InsertRow` or
`UpdateRow`; the links of a role or scope are replaced by `UpdateMenus`
(`UpdateScopes`, `UpdateRules`), `EnsureLinks`, `KnownLinks`, `ReplaceLinks`. A
department is deleted by `DropDept`, `FindUsers`, `FindChildren`, `DeleteRow`;
roles, scopes and rules by the one transaction `DeleteRows`. `Authenticate` is
`BeginAuthenticate`, `EnsureUserDeptAllowed`, `UserRoles`, `RoleMenus` role by
role, `EnsureUserRolesAllowed`. `TreeRoots` and `Shown` are what
`buildDeptTree` and `buildMenuTree` show.

| run | what it checks |
| --- | --- |
| `organization_services` | `NamesBounded`: no more rows share a name than handlers run together; `StrandedOnlyByRaces`: a child, a user or a link is left with a deleted row only if the deletion overlapped with the write of that reference; `HiddenOnlyByMoves`: what the trees leave out is in, or below, a row that was moved into its own subtree, and no creation, deletion or other move hides anything; `QuietAuthenticationIsExact`: a request during which nothing was written is granted exactly the enabled menus of the enabled roles of its user |

Bounds: two handlers and at most three rows of a table (the shortest cycle that
two moves, each legal alone, can close has two departments; the third hangs
below it). Seven areas put together the tables that refer to each other; three
departments are moved, two are moved and deleted. Departments, names and
handlers are symmetric. Once all rows of an area are deleted nothing is left to
do, so deadlock is not checked.

Abstracted: all other columns; buttons, whose titles may repeat (menus are
exempt from `FindName` for that reason); superusers, for whom `Authenticate`
checks nothing; the filter of department lists by data rules, which only reads.

Seen while modelling: only the department itself is refused as its parent
(`dept_service.go:94`), so its own descendant may become it and both vanish
from the tree, the one thing `HiddenOnlyByMoves` lets hide a row; a user whose
department was deleted in a race cannot sign in and makes the list of users
fail.

## 9. PluginServices: catalogue, schedules and settings

Three services that share no tables, each a module of its own, put side by side
by `PluginServices.tla`: in a behaviour one of them runs (`at`).

`UploadCatalog.tla` has the scenes and storages, the uploads that look them up,
and the deletions and reclaims that end a file. Files, refs and scenes keep
*codes*; the model also keeps the number of the row each code stood for (`of`,
`under`), which is history. A scene is written by `CreateScene` or
`UpdateScene`, `SceneStorage`, `SceneWrite`; deleted by `DeleteScene`,
`SceneRefs`, `SceneDelete`. A storage is written by `CreateStorage` or
`UpdateStorage`, then a transaction of two statements, `StorageUnset` (the
other defaults) and `StorageWrite`; deleted by `DeleteStorage`,
`StorageObjects`, `StorageScenes`, `StorageDelete`. An upload is `Upload`,
`UploadBackend`, `UploadObject`, `UploadRef`.

`TaskSchedule.tla` has the scheduler rows, what the runtime of each process has
loaded, and the lease in Redis, if there is one (`redis`; without it the wiring
of `module.go:58-70` leaves the `NoopLeaderLease`, which everyone acquires and
nobody holds). A handler, or a command, runs in its process (`Home`). A write
is `BeginCreateScheduler` or `BeginWrite`, the repository call (a toggle reads
first: `ReadEnabled`), then `reloadIfLeader`: `NotAcquired`, or `Acquire`, the
two halves of a reload (`ReloadReads`, `ReloadInstalls`) or `ReloadFails`, and
`Release`. `LeaseExpires` at any time; `ReloadCommand` reloads without the
lease, in the command's own process. No process hears of what another has
written (`Written` marks them `skipped`). The runtime is a library, modelled
from the one method the plugin calls.

`Settings.tla` has the configuration (in memory and in the database, whose
index on keys is `Admits`) and the dictionary. A key is looked for
(`CreateKey`, `UpdateKeys` row by row of a batch), then written
(`InsertConfig`, `UpdateConfigs`); a dictionary entry copies the code of its
type (`TypeOf`, `WriteData`).

| run | what it checks |
| --- | --- |
| `plugin_services` | `CodesKeepTheirRow`: a code kept by a file, a ref or a scene stands for the row that was looked up, unless that row's code was changed or its deletion overlapped; `DefaultIsSingle`: one default storage at most, unless two transactions that make one overlapped; `UndoneOnlyIfOutdated`: an update changes only what it was asked to, unless the row had changed since it was read; `RuntimeIsCurrent`: with Redis or without, when a process is quiet its runtime has what the table has, unless another process wrote since, a reload was skipped or failed, or two may have run together in it and none alone since; `TogglesCount`: a scheduler's status is the parity of its toggles, unless two overlapped; `KeysAreUnique`: no two configurations share a key, in memory unless writers overlapped; `DataFollowTheirType`: an entry has the code of its type unless the type was changed or deleted since |

Each exception is a history variable that is set only by the overlap it names,
so each property says both that the race exists and that nothing else breaks
the rule. Where the exception is the hazard itself (a toggle lost to another, a
stale update of a storage, an entry whose type was changed), the property does
not catch it but bounds it: nothing else has that effect.

Bounds: two codes of each kind and up to four rows, so that a code can be given
to a second row; three task handlers, two in one process and one in another, so
that a lease can be taken by a second while a third releases it, reloads can
overlap in a process, and a process can miss another's write, and two
schedulers; batches of one and two rows over three keys. Requests are counted
(`calls`, `MaxChanges`, `MaxEdits`), so every behaviour ends and deadlock is
not checked. The configuration reads the first row of a key in id order.

Seen while modelling: an object whose storage is gone stops every cleanup run
that reaches it (`service.go:754`, 813; `UploadFile` has this as `lost`); the
lease is deleted by key, whoever holds it (`leader.go:57`); the dictionary's
invalidation message has no reader in the repository.

## 10. Repositories: the memory and the database

Every plugin has its repository twice. The tests of the services run over the
one in memory, and so does a host without a database (`admin/module.go:31`);
`Repositories.tla` makes every call to both and compares.

`TwoStores.tla` has the two stores (`mem`, `db`), a row as `val` (what it
says), `ref` (what it belongs to), `on` and `deleted`, links as lists of ids in
memory and as pairs in the database, and the shapes of an answer (found, not
found, conflict). `AdminRepository.tla` and `PluginRepositories.tla` have a
pair of operators for each call: `MemDeleteRoles` and `DbDeleteRoles` are the
same method of the two types; and pairs for the reads. `Both` makes one call to
both; `said` is how the answers compare, `parted` that a call whose answers are
known to differ has changed one of the stores, after which the behaviour ends.

| run | what it checks |
| --- | --- |
| `repositories_alike` | `SameAnswers`: both answer every call alike, after any calls before it, but for the differences listed below; `SameReads`: every read gives the same in both; `LinksAreLive`: no link outlives what it names, but for rules in the memory's lists of scopes |

Bounds: two rows of each table and two values, fourteen areas of tables that
refer to each other, lists of links of at most two ids with repetition. Ids run
out, so deadlock is not checked. Paging, order and filters of lists are left
out; the objects, refs and shares of the uploads are in `UploadFile` and
`UploadShare`, the bindings in `OAuth2Binding`.

The known differences (the last argument of `Both`): deleting an empty list of
ids is "not found" in memory and nothing in the admin plugin's database
repository; a role or rule given twice to a user or scope is stored twice in
memory and refused by the unique index, with the rest of the transaction; a
password history for a user who is not there is refused in memory only; keys
and codes are unique only in the database; a batch of configurations that fails
is half written in memory; the dictionary counts types and data together in
memory; the memory gives a new scene or storage the number after the largest.
Besides, the memory keeps deleted rules in the lists of the scopes (no read
shows them) and the order of links.

## Proofs

The theorems hold for every value of the constants that meets the `ASSUME`s of
the modules, in particular for any number of files, users, handlers, sessions
and cleanup runs. TLC checked the inductive invariants on the runs' instances
before they were proved. One theorem, `BoundFilesAreKept`, has a hypothesis of
its own.

`UploadFileProofs`:

- `TypeCorrect`: `Spec => [](TypeOK /\ NamesExist)`. Neither half is inductive
  alone: a ref may be given a status only if its row is there, which is
  `NamesExist`, and `NamesExist` needs the types of the local states. They are
  proved together, one step per action.
- `QuotaOvershoot`: `Spec => []QuotaOvershootBounded`. The count of files is
  not inductive, because a handler may be about to add one it counted long ago.
  The invariant (`ClaimsBounded`) counts the claims instead: the files in use
  and those a handler past its check carries. Whoever passes the check saw
  fewer files in use than the limit, and the other claims are at most one for
  each other handler; every later step keeps a claim or drops it.
- `OwnersGranted`: `Spec => []OwnersAreGranted`. The strengthening
  (`Ownership`) says of every handler on its way that the owner it is about to
  write is the uploader of each of its files or was granted them, and that no
  two handlers hold the same new key. It uses that the uploader of a row never
  changes and that a grant is never taken back.
- `LateUploads`: `Spec => []LateUploadIsBounded`, for any lifetimes. `Dated`:
  the URL of a file, and the one a handler is about to hand out, end by the
  file's creation plus their lifetime, because the URL is dated before the row;
  what the pending cleanup holds is older than the grace period. It needs
  `Ownership` for the keys: no two handlers hold the same new one.
- `BoundFilesAreKept`: `OneCleaner` gives `Spec => []BoundBeforeRunIsKept`. The
  task runs one cleanup at a time, a command may start another
  (`module.go:113`, 121). `KeepsBound`: a file the run found bound keeps an
  active ref that the run is not about to mark, so the file whose refs it
  counts as none is another.
- `Revivals`: `Spec => []RevivalsBounded`. `RevivalsCounted`: once a file is
  active or deleted, what has been revived and the completions of it still
  under way are together at most as many as handlers. None can begin any more,
  because a file that was active or deleted is never pending again
  (`NeverNewAgain`), and each revival uses one up.

`AdminSessionProofs`:

- `SessionTypes`: `Spec => []TypeOK`.
- `ChangesEndSessions`: `Spec => []RevokedSessionsAreGone`. `Revocation` adds
  two facts. `ErasAgree`: neither a finished change nor a handler is ahead of
  the era of its user. `ClearsWhatItListed`: a handler that is deleting has
  every session stored before its change and found under its name still on its
  list, or gone already. A session stored since carries the new era, so it does
  not count against the change.
- `ReplacedSessionsStayGone`: `Spec => []RefreshedIsGone`, and
  `SingleLoginOvershoot`: `Spec => []SingleLoginOvershootBounded`, from one
  invariant (`Storage`). A uuid is drawn by one handler and stored once
  (`FreshSids`), and a refresh stores its session after it has deleted the one
  it replaces (`FromIsHanded`, `ReplacedAreGone`). The bound needs more than a
  count: `OnePerHandler` says that there is an injection of the sessions of a
  name into the handlers, under which the session of a handler that has listed
  the others is on its list, so that it goes before the handler stores the
  next.

`OAuth2BindingProofs`:

- `TypeCorrect`: `Spec => []TypeOK`, through `Typed`, which adds what a handler
  knows at each place (`Ready`): its task, and who it is about.
- `Implements`: `Spec => ImplementsIdentityMap`. A step that changes neither
  the bindings nor where an answer is known is a stutter; `GetBySID` maps to
  the lookup, `CreateBinding` to the match (and lookup, for a login), the other
  steps keep or return the answer.
- `IdentitiesMatch`: `Spec => []IM!OneToOne`, proved of the abstract map and
  inherited through the refinement.
- `EmailsBounded`: `Spec => []AccountsPerEmailBounded`. As with the quota, the
  holders of an email and the handlers past its check are counted together
  (`EmailClaims`): whoever passes the check found no holder, or only itself.
- `StatesBounded`: `Spec => []StateUsesBounded`. `PopsBounded` counts the uses
  of a state together with the handlers between its `GET` and its `DEL`; once
  one of them deleted it nobody can begin.

`UploadShareProofs`:

- `TypeCorrect`: `Spec => []TypeOK`, through `Typed`, which adds that the share
  or file of a download is there.
- `DownloadOvershoot`, `DownloadsCounted`, `SharesDrain`: one invariant for
  each share (`Bounded`) counts the downloads in progress together with what
  they still have to do. `LimitKept`: the count and the downloads past the
  check exceed the limit by less than the number of downloads that can run;
  `AnswersKept`: answers, and the downloads that are about to give one, are
  within the count; `EndKept`: the late answers and the downloads in progress
  of a share that has ended are at most as many as can run, and nobody joins
  them.
- `FileTokens`: `Spec => []FileTokensAreShort`.

`LoginGuardProofs`:

- `TypeCorrect`: `Spec => []TypeOK`, through `Typed`: a handler that is about a
  captcha or a mailed code has one (`Ready`).
- `UsesOfCodes`: `Spec => []CodesAreSpent`. `Spent` counts the uses of a code
  together with the handlers past the comparison; while the code waits nobody
  has used it, and once it was deleted nobody can join them.
- `GuessesBounded`: `Spec => []GuessesBoundedByLock`. A handler that has locked
  an account deletes the count later, and may then wipe the count of a later
  series; one that has counted a failure answers later. The invariant (`Fits`)
  is a potential: the answers given and pending are at most the count, as far
  as it is below the threshold, plus a threshold less one for each handler that
  is not on its way to wipe the count, plus one for each handler. A wipe lowers
  the count by less than what its handler stops holding back; a lock starts it
  anew.

`OrganizationProofs`:

- `TypeCorrect`: `Spec => []TypeOK`, through `Typed`: rows, and what handlers
  are about to write, have parents and links in the tables that their kind has
  (`ParentOf`, `RolesOf`), and a handler has at each place what it needs there
  (`Ready`).
- `StrandedByRaces`: `Spec => []StrandedOnlyByRaces`. The invariant (`Races`)
  adds what the checks are worth after they were made: an id that one handler
  is about to refer to and another about to delete has raced (`Overlaps`); a
  reference that was checked is to a row that is there, or has raced
  (`References`); below a row that is about to be deleted there is nothing but
  what has raced (`Emptied`).
- `QuietAuthentication`: `Spec => []QuietAuthenticationIsExact`. While nothing
  is written, what was collected so far (`Collected`) is what the tables hold.
- `SharedNames`: `Spec => []NamesBounded`. As with the quota, the rows that
  have a name or are about to get it are counted with the handlers about to
  create one (`Room`): whoever finds the name free found no row with it, so all
  of them are handlers.
- `HiddenByMoves`: `Spec => []HiddenOnlyByMoves`. What is not shown is a set of
  rows that has the parent of each (`HiddenClosed`, from the recursion of
  `Shown`: the function it defines exists, a level that adds nothing is the
  last, and as each other one adds a row there are at most as many as rows).
  The invariant (`Moves`) says that every such set has a row in `looped`
  (`Looped`). An insertion, an update and a deletion keep that each for its own
  reason (`InsertTrees`, `UpdateTrees`, `DeleteTrees`): a new row has no
  children, because nobody refers to an id that was never given (`Known`); an
  update that makes a closed set without a looped row would have moved the row
  into its own subtree; a deletion leaves fewer rows.

`PluginServicesProofs`, over the three plugins side by side; the invariant
(`ServicesInv`) has a part for each, and each part stands still while another
plugin runs:

- `ServicesTypeOK`: `Spec => []TypeOK`.
- `CodesHold`: `Spec => []CodesKeepTheirRow`. `Standing` says of every handler
  at each place what its looked-up row is worth: it is there with its code, or
  the history says that it was recoded or that its deletion overlapped. A row
  that is about to be deleted is referred to by nobody but those.
- `DefaultHolds`: `Spec => []DefaultIsSingle`. `SingleDefault`: between the two
  statements of a transaction no other row is the default, unless another such
  transaction has begun.
- `UpdatesHold`: `Spec => []UndoneOnlyIfOutdated`. The row an update holds is
  the one it read with what was asked (`UpdatesAsAsked`), so what it undoes was
  changed since.
- `TogglesHold`: `Spec => []TogglesCount`, and `RuntimeHolds`: `Spec =>
  []RuntimeIsCurrent`. `Loading`: in each process where no overlap is recorded
  one handler at most reloads, and holds the lease if there is one; and what
  the runtime has, or that reload has read and will install, is the table, or a
  write is still to reload, or the process was skipped.
- `KeysHold`: `Spec => []KeysAreUnique`. `KeysApart`: without an overlap the
  one handler that has checked its keys still finds them free, and the rows of
  its batch so far do not share one. Batches have one or two rows, as in the
  model.
- `DataHold`: `Spec => []DataFollowTheirType`. `DataFollow` says the same of
  the code a handler has read and is about to write.

`RepositoriesProofs`, over every call of the plugins' repositories:

- `RepositoriesTypeOK`, `LinksLive`, `AnswersAlike` and `ReadsAlike`: `Spec =>
  []TypeOK`, `[]LinksAreLive`, `[]SameAnswers` and `[]SameReads`, from one
  invariant (`StoresInv`). `Fits` says of each store by itself that its rows
  have ids it has counted and its links live ends (in the memory's lists of
  rules, ids it has counted); `Alike`, which holds until a difference has
  changed a store, that both have the same rows and link the same. Not every
  table is equal: a deleted department is marked in the database and gone from
  memory, the dictionary's ids may differ next, and scenes and storages
  correspond by code.
- A call keeps the invariant if its two answers agree (`Agree`, `BothKeeps`):
  same reply and stores that are again alike, or the difference that the call
  declares. There is a lemma for each call (`UserCreates`, `RoleDeletes`, ...),
  built from what calls have in common: an edit of some rows (`EditsAgree`), a
  new row (`AddAgree`), a deletion that takes links with it (`CutReady`), a new
  list of links (`SetListIs` against `SetPairsIs`), one default among the rows
  (`UnsetReady`).
- Memory filters lists where the database deletes pairs. That a filtered list
  (`Kept`) names what is left, each place once, is an argument by counting
  (`PlacesCount`, `KeptIs`); that the database finds as many rows as it was
  given ids exactly if each is there is `EnsureIs`, because ids are given once
  (`Counts`).

All eight argue step by step: a lemma per kind of step (one that only moves a
handler, one that begins or ends one, one that changes a user), and then one
step per action that cites the lemma of its kind.

Every invariant that a passing run checks and the refinement are stated by a
theorem. Only model-checked: the liveness properties (`PendingIsResolved`,
`ExpiredRefIsCleared`, `LocksEnd`), which rest on fairness and on what is
enabled, out of the prover's reach. The types of `AdminSession`,
`Organization`, `PluginServices` and `Repositories` are stated in the modules
(`TypeOK`) and not among the properties of their runs. The proofs rest on no
axiom; the `ASSUME`s are evaluated by TLC on every run.

## Not modelled

Parsing and formatting of requests, storage keys, signatures and hashes (taken
as sound), the services of logs and notices (each passes one call on; the calls
are in `Repositories`), monitoring and reports, paging and filters of lists
(also the filter of departments by data rules), start-up and migrations (run
before the system serves; the library's runner is outside the repository).
`PROJECT.json` lists each part with its reason.
