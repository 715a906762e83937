# Verification of Punah-Pustak

TLA+ models of the marketplace, the transactions of its back end and the pages
of its front end, checked with TLC on small instances; every safety property that
a run checks is also proved with TLAPS, for every instance. Paths below are
relative to the repository.

    tlc -workers 2 -config MCSessions.cfg MCSessions     # any run of PROJECT.json
    tlapm SessionsProofs.tla                             # and the other *Proofs.tla

## 1. The system

A FastAPI application (one process, synchronous handlers on a thread pool)
over PostgreSQL and an S3-compatible object store, and a React front end.

**What all handlers share** (`backend/app/core/db.py`): a request is one database
transaction. `_with_transactional_lifecycle` commits when the handler returns *or
raises a `DomainError`*, and rolls back on anything else. No isolation level is
configured, so PostgreSQL runs them READ COMMITTED:

* a plain `SELECT` sees what was committed when it began and locks nothing, so
  what a handler decides from it may be stale when it writes;
* an `UPDATE` by primary key waits for the row's lock and then applies to the
  newest version of the row, whatever that has become;
* a bulk `UPDATE ... WHERE` chooses its rows from the snapshot it starts with,
  locks them one by one, looks again at a row it had to wait for, and never
  visits a row that was inserted after it began;
* SQLAlchemy writes the columns whose value differs from the *loaded* one.

| component | state | operations | interacts with |
|---|---|---|---|
| auth: sessions | `refresh_tokens` | login, refresh with rotation and reuse detection, logout | reads `users.is_active`; tokens revoked by suspension |
| auth: registration | `users` | register | unique index on the e-mail address |
| auth: request authentication | none (stateless access tokens) | load the user, role gate, forced-password-change gate | loads the `User` object that account operations write through |
| users | `users` | rename, change password; suspend, reinstate, reset (for admin) | auth, admin |
| admin | `admin_actions` | suspend, reinstate, remove listing, reset password, each with its audit row in the same transaction | users, auth, listings |
| listings | `listings`, `listing_images` | create, update, mark sold, soft delete, admin remove, upload images; browse, search | object store |
| storage | objects in a bucket | put, delete, URL | takes part in no transaction |
| rate limiter | in-memory windows per (path, client address) | check | worker threads share it under a lock |
| front end: API client, AuthContext | per tab: access token in memory, session state, the refresh under way; per browser: the refresh cookie | login, logout, apiFetch with single-flight refresh and one retry, restore on load | the back end's tokens; every other part of the front end calls through it |
| front end: routes and guards | location, `state.from` | redirects, forced password change, links | follows the answers AuthContext gets |
| front end: query hooks | one query cache per tab | fetch, invalidate, refetch, placeholder data | pages read it, mutations invalidate it |
| front end: pages | form fields, open dialogs, page numbers, requests under way | search, browse, create, edit, sell, delete, moderate | query hooks, router |
| front end: Modal | where the focus is, what it was before | open, close, Tab | re-run by every render of the page around it |
| browse and pagination (back end); image validation; client address; configuration, errors, headers | none | pure functions or queries | |

**What is hard here**, and what therefore the properties are about:

* *Interleavings of transactions.* Everything decided on an unlocked read:
  `mark_sold`, `update`, `delete`, `admin_remove`, `logout`, `suspend`, `login`
  (which loads the account, spends a long time in Argon2, and inserts the
  token on the strength of what it loaded). Two operations do
  lock: `refresh` and `upload_images`.
* *Bulk updates against concurrent inserts*: family revocation and suspension
  against a rotation that is about to insert the successor token.
* *Deadlocks* between bulk updates, and waits in general.
* *Partial failure*: an object store outside the transaction; a revocation that
  has to commit although its request ends with an exception.
* *Stale comparison in the ORM*: a flag that is not written because the loaded
  value already was the new one.
* *Threads and time* in the rate limiter: the clock is read outside the lock.
* *One thread, many answers* in the browser: between an `await` and what follows it
  anything can have happened. Answers are lost, late, or overtake one another;
  the tab is reloaded, the route changes under an open dialog, a dialog is
  closed over its own request; another tab uses the same cookie.
* *State that outlives what it was about*: a component that stays mounted when its
  listing changes, a placeholder shown for another filter, a form seeded once
  from a cache, an effect that runs again at every keystroke.
* *Two requests behind one button*: a listing and then its photos.

The full list, each at its line, is `hazards` in `PROJECT.json`.

**What makes each component correct.** Sessions: the tokens of a login form one
chain with at most one exchangeable token; a revoked token never becomes valid
again; suspension, detected theft and logout end the sessions they name.
Accounts: one account an address; a temporary password has to be replaced.
Listings: images consecutive, within the cap, backed by objects, and added only
to available listings; a removal is final and audited once. Rate limiter: exactly
the first *limit* requests of a window are admitted, and windows never overlap.
Everywhere: a request that was let in ends. Front end: a client never presents a
spent refresh token by its own doing, every page load is decided, a forced
password change ends when it is made, what the user changed shows, a dialog acts
on what it was opened for, and a form saves what was typed, once.

## 2. The modules

| module | what it is |
|---|---|
| `TokenChains` | the design of refresh-token sessions, without database: families that are linear chains |
| `Sessions` | login, refresh, reuse detection, logout, suspension, reinstatement, one SQL statement a step, with row locks, deadlocks, rollbacks and expiry |
| `ListingLife` | the life cycle of a listing as atomic operations, without database or storage |
| `Listings` | the life of a listing and its images over the database and the object store |
| `Accounts` | registration, rename, password change and password reset |
| `RateLimiter` | `FixedWindowRateLimiter.check` as its threads run it |
| `ClientSession` | `api/client.ts`, the token store and `AuthContext`'s calls, in several tabs sharing a refresh cookie |
| `Navigation` | routes, `ProtectedRoute`, redirects after calls, the forced password change |
| `QueryCache` | queries and mutations of `hooks/`, staleness and invalidation |
| `BrowsePage` | search with debouncing, filters, paging, one query per combination |
| `ListingDetailPage` | photos and lightbox, confirmation dialogs, the route changing under them |
| `CreateListingPage`, `EditListingPage` | the two forms for a listing |
| `AdminUsersPage`, `AdminListingsPage` | suspension and password reset; moderation with its filter, pages and dialog |
| `ModalFocus` | the focus in and around a dialog |
| `MCFrontend`, `MCListingDetail` | the front end's modules side by side, and a definition TLC needs |
| `MCServices` | `Accounts` and `RateLimiter` side by side |
| other `MC*` | the symmetry sets TLC uses; the `.cfg` files give the constants their values |
| `TokenChainsProofs`, `SessionsProofs`, `ListingsProofs`, `RateLimiterProofs`, `AccountsProofs`, `ClientSessionProofs` | theorems and proofs about the module of that name |
| `ShellProofs` | theorems about what every page runs in: `Navigation`, `QueryCache`, `ModalFocus` |
| `PagesProofs` | theorems about the six pages, and about `MCFrontend`'s composition of all ten modules |

`Sessions` composes the auth service with the admin and user services because
they work on the same tables; it instantiates `TokenChains` for the refinement, and
`Listings` instantiates `ListingLife`.
`ClientSession` instantiates the same `TokenChains` as its back end, with its own
steps `Open`, `Rotate` and `Retire`: what `Sessions` is proved to implement is what
the client is checked against. The pages share with one another only the query
cache and the session, and each page's module has the part of the cache that its
page reads; so `MCFrontend` composes the ten modules by letting one of them
move in each behaviour. `MCServices` does the same with two modules of the back end that
share no state: it saves a run, and claims nothing about the two together.

### How state and actions correspond to the code

**Requests.** In `Sessions`, `Listings` and `Accounts` a request is a process with
a program counter `pc` and what its Python variables remember (`tok`, `new`, `usr`;
`id`, `text`, `placed`; `user`, `flag`, `value`). One action is one SQL statement
together with the Python up to the next. Waiting for a lock is not having taken
the step yet. A transaction's last write and its commit are one action, because
nobody can observe the moment between them. `Abort` is the rollback on an
unexpected exception, a lost connection or a crash, possible at every point of
every request. `Refused` stands for all answers given before anything is written
(401, 403, 404, 409, 422).

**Sessions.** `rows`, `tokenUser`, `family`, `revoked`, `expired` are
`refresh_tokens`; `isActive` is `users.is_active`; `audit` the audit rows; `tokenLock`
and `userLock` PostgreSQL's row locks. `LoginCheck`/`LoginIssue` are `login`;
`ReadForUpdate` is `get_by_hash_for_update`; `RefreshAccept`, `RefreshRotate` a
successful `refresh`; `RefreshReuse`, `RevokeFamilyBegin`, `BulkLock`,
`RevokeFamilyCommit` one that detects a reuse; `LogoutRead`/`LogoutRevoke` `logout`;
`SuspendCheck`, `SuspendFlag`, `RevokeUserBegin`, `BulkLock`, `SuspendCommit`
`suspend_user`; `ReinstateCheck`/`ReinstateCommit` `reinstate_user`. A family is
named by the token its login issued; token secrets are model values, drawn fresh
(`Fresh`). `reported`, `loggedOut` and `beside` are history: what clients have
been told, and which tokens were drawn by requests that overlapped a revocation.

**Listings.** `status`, `content`, `images`, `removals` are the rows; `stored` the
bucket. `Create`, and a `...Read`/`...Write` pair for each of `update`, `mark_sold`,
`delete` and `remove_listing`: the pair is separate because the read takes no lock.
`UploadLock` is `get_for_update` with the checks behind it; `Put`, `PutFails` (the
object may have been written all the same), `CleanUp` (which may silently fail),
`UploadUnavailable` and `AddImages` are the rest of `upload_images`.

**Accounts.** `Load` is the `User` object that authentication loads; `flag` is the
`must_change_password` it had. `ChangeWrite` and `ResetWrite` write the flag column
only if that loaded value differs, as the ORM does. `raced` is history: accounts
a change and a reset worked on at the same time.

**RateLimiter.** `ReadClock`, `Acquire`, `Count` are the three parts of `check`:
reading the clock, getting the lock and looking the window up, counting and
storing. `Tick` lets time pass, and keeps any thread from being held up for more
than `MaxDelay` ticks. `admitted` is history.

**Front end in general.** One action is what JavaScript does between two events:
a handler up to its `await`, or everything that one answer sets off. A request is
a record with its `reply`; `Serve...` is the back end (external, modelled from how
`src/frontend` uses it), an answer that never comes is a `Lose...` or a `"lost"`
reply. History variables name the circumstances under which a promise is not kept
(`mishap`, `straggler`, `overtaken`, `turnedEarly`, ...): the property with its
exception is the exact statement of what the code does.

**ClientSession.** `accessToken`, `refreshInFlight` and `cookie` are the module
variables of `tokenStore.ts` and `client.ts` and the browser's jar; `call[t][s]` an
`apiFetch` with its stage: `held` (awaiting a refresh before its fetch), `sent`,
`served`, `renewing` (its 401 awaits the shared refresh). `Renew` is
`refreshAccessToken`; `Resume`, `Expire` and `LoseRefresh` are the promise resolving to a
token, resolving to null, and rejecting, each with all that waited for it.
`Reload` forgets all but the cookie and leaves old requests in the network.
`Finish` with `out` is logout's `finally`, `loadCurrentUser`'s catch.

**Navigation.** `authState` is `AuthContext`'s status, `path` and `from` the location. `Redirect`
is the one redirect that `ProtectedRoute` and the pages render next; `Follow` a link;
`Submit` and `AuthAnswer` a form and what its answer does; `PageAnswer` a page's request
that meets `PASSWORD_CHANGE_REQUIRED` or an ended session. `Logout` has a call of its own,
because Layout's button is never disabled; its `LogoutAnswer` is the `finally` that signs out
whatever else is under way. One call of the forms and of `AuthContext` at a time is a
bound of the model, not of the code. `ReloadTab` loads the tab anew at the same location.
`Reset` and `SessionEnds` are an administrator's doing, `PasswordChangedElsewhere` another
tab's, or that of a request which a reload left behind. `overtaken` is history: the password was
changed behind the forced form, or a 403 from before the form's change is still to be told.
It goes down at a reload and at the form's next answer, so the exception lasts no longer.

**QueryCache.** `Changes` says which queries a write makes outdated, `Invalidates` which of them
its hook names; `Read` and `Receive` are apart because a write can commit between
them. `OwnWritesShow` is about what is left between the two tables and the timing.

**Pages.** `BrowsePage`: `TypeSearch`, `Debounce`, `StartFetch`, `Answer`, `TurnTo`; a `Key` is
a combination of search, filter and page. `ShownKey` is the one whose data `query.data` are:
that of the screen, or the previous one as `placeholderData`. `ListingDetailPage`: `Visit` changes the
route and keeps the component, `Unmount` is `QueryState` taking it down while the
next listing loads; `Ask`, `Confirm`, `Settled` are the dialogs. `CreateListingPage`: `Continue` is
`handleSubmit` from one `await` to the next. `EditListingPage`: `MountForm` seeds the
form from the cache, `SubmitEdit` sends all fields; `PatchSettles` is `handleSubmit` after its
first `await`, which goes on to the upload if photos were chosen, and `UploadSettles` after its
second, whose failure leaves the form mounted with its fields already saved
(EditListingPage.tsx:45-60). `FetchFails` is `QueryState` putting an error in the form's place. Of
the photos it matters only whether there are any. `AdminUsersPage`: `Send` and `Settle`
are the three mutations. `AdminListingsPage`: `Data` is what `placeholderData` shows.
`ModalFocus`: `RunEffectAgain` is the effect's cleanup and body at a new `onClose`.

## 3. What the runs check

Twelve runs; the properties' comments in the modules quote the requirement or
docstring behind each.

| run | result |
|---|---|
| `sessions` | `OneLivePerFamily`, `ImplementsTokenChains` (refinement of `TokenChains`), `DeadFamilyStaysDead`, `OnlyOverlapSurvives`, `OnlyReuseDeadlocks` and the inductive invariant `IInv` hold |
| `sessions_live` | every request ends, lock waits and deadlocks included |
| `sessions_suspend_race` | **fails**: a suspended user keeps a live token if a login or a refresh overlapped |
| `listings` | `ImagesInOrder`, `NoDanglingImage`, `ImagesOnlyWhileAvailable`, `ImplementsListingLife` (refinement of `ListingLife`) hold, every request ends |
| `listings_sold_after_removal` | **fails**: `mark_sold` overwrites a removal that committed after its check |
| `accounts_and_limiter` | `OneAccountPerAddress` and `FlagFollowsPassword` hold of `Accounts`, `FirstLimitAdmitted`, `WindowsMoveOn` and `BurstBounded` of `RateLimiter` |
| `accounts_reset_race` | **fails**: a second reset beside the forced change leaves an unflagged temporary password |
| `frontend` | the fifteen safety and four liveness properties of the front end hold (below) |
| `admin_users_password` | **fails**: a temporary password is shown in another account's dialog |
| `edit_submits_diff` | **fails**: saving one field writes back another that was changed in another window meanwhile |
| `listing_detail_asked` | **fails**: a confirmation given for one listing acts on another |
| `modal_focus_typing` | **fails**: typing in the filter sheet moves the focus to its Close button |

What `frontend` shows, one module at a time:

| module | properties | what they say |
|---|---|---|
| `ClientSession` | `SpentTokenOnlyAfterMishap`, `SignedOutForgets`, `PageLoadsEnd`, `FetchesSettle` | concurrent 401s never present a spent token unless an exchange's answer was lost or two pages refreshed at once; signing out leaves no token unless other calls were under way; every load is decided unless its refresh was cut off; no call waits for ever, not even for itself |
| `Navigation` | `ForcedChangeEnds`, `RedirectsEnd` | the forced form holds nobody whose password is changed, save after a change behind its back or a 403 that crossed it, until a reload or the form's next answer; redirects never chase one another |
| `QueryCache` | `OwnWritesShow` | what the user has changed is not shown as it was before, save for a fetch that crossed it or a query its hook leaves to age |
| `BrowsePage` | `ResultsAreForTheFilters`, `NoResultsIsTrue`, `SearchCatchesUp` | overtaking answers never mix; "no books match" is true of the search whose results are shown; the screen catches up |
| `ListingDetailPage` | `PhotoInRange` | the lightbox indexes a photo unless `:id` changed under it |
| `CreateListingPage` | `OneListingPerForm`, `SavedAsTyped` | a retry creates no second listing and saves what was typed |
| `EditListingPage` | `EditsSurvive` | a submission undoes no field its user left alone but one edited in another window, retries after a failed upload included |
| `AdminUsersPage` | `AnswersMeetTheirDialog` | answers find the dialog they belong to if none is closed early |
| `AdminListingsPage` | `EmptyPageOnlyAfterShrinking`, `ReasonWasTypedForIt` | filters lead to no blank page, reasons belong to their listing |
| `ModalFocus` | `FocusTrapped`, `FocusReturns` | Tab stays inside, closing goes back to the trigger |

`NoResultsIsTrue` speaks of the data on the screen, not of the filters on it. After an empty
search is cleared, `query.data` are still the empty search's until the answer comes
(useListings.ts:25, BrowsePage.tsx:259), so the page says "Nothing is listed yet" while copies
are, although BrowsePage.tsx:430-431 says that without filters zero results mean an empty
marketplace. With `Count(Key)` for `Count(ShownKey)` TLC finds it violated in that way. The
state is part of the model and of the property's statement, and has no failing run of its own.

Several front-end properties except the very flaw their hazard names, because the code has
it: `OwnWritesShow` the fetch that crosses a write, `PhotoInRange` the index kept over a change
of listing, `EmptyPageOnlyAfterShrinking` the shrinking list, `ReasonWasTypedForIt` the reason
kept by a cancelled dialog, `PageLoadsEnd` the restore that rejects, `ForcedChangeEnds` the
crossing 403. What such a property shows is that nothing else leads there; the notes
under `hazards` say so one by one.

The failing ones are documented under `findings` with the sentence of the code or
documents that they contradict. `OnlyOverlapSurvives`, `FlagFollowsPassword`,
`AnswersMeetTheirDialog` and `EditsSurvive` are the other side of them: they say that the
failures need an overlap, and that without one the requirements hold.

**Bounds, and why they are enough.** Two requests at a time on one user are enough
for every pairwise race. Three tokens allow a login and two rotations, so a spent
token with a live grandchild, or two families; `MaxAudit = 2` allows a suspension
and its reinstatement. (`MCSessions.cfg` with three requests and `MaxAudit = 1` was
run once: 3 million states, same result, too slow to repeat every time. That more
requests add nothing is what the proofs are for.) Listings: two requests, up to
three images, one key to spare, so that two uploads overlap with the cap in reach
and one can fail and be retried. Accounts: three requests, two accounts, two names, two
addresses, two temporary passwords: a reset, the change, a second reset. Rate
limiter: two threads, limit two, window three, delays of up to two ticks, eight
ticks: three windows. `MaxCount` bounds the refused requests counted in a window,
`Tokens`, `Ids` and `Keys` how many can ever be generated, `MaxTime` the clock.
Symmetry is used only in runs without liveness. In the back end's runs deadlock
is checked; `Refused` and `Rest` are the states in which nothing more is asked. The
front end's configurations turn it off: a page may come to rest with nothing
left to click.

The front end (`MCFrontend.cfg`; distinct states of each turn in brackets):

* session (109,526): one tab with two calls at a time, two tokens (so one rotation
  or two logins), one reload, two refreshes in the network. The reload's old page
  is the second page that refreshes at the same moment. Run once each: three
  tokens (752,000 states) and two tabs of one call with three tokens (211,000),
  same result; the proofs cover the rest.
* navigation (126,012): every route kind, an ordinary user and an administrator, one call of
  a form or of `AuthContext`, one page's request and one logout at a time.
* cache (30,264): the queries `mine` and `detail` and the writes `sold`, `upload` and `create`, two
  writes: one query named by each hook and one not.
* browse (79,629): two copies, two texts, two facets, pages of one, two edits beside
  the paging: a search, its correction, and answers in any order. Text and facet
  together find nothing, so that there are empty results without a change of the catalogue.
* detail (49,995): two listings with two photos and one, two moves, one request. Run
  once with two requests (423,000 states): same result.
* create (5,094): two files, three images allowed, two drafts, two listings.
* edit (265,026): two fields and two edits beside the first, here or elsewhere; any number
  of submissions, failed uploads and retries. `EditDiff.cfg` has the same bounds.
* users (100,864): two accounts, all three mutations at a time.
* moderation (154,016): two listings, two filters, pages of one, one change elsewhere.
* dialog (159): four controls; the proofs are for any number.

**Fairness.** `FairSpec` in `Sessions` and `Listings` is strong fairness of each
request's own steps: a worker thread keeps running its handler, and PostgreSQL
grants a row lock in the order it was asked for, so a waiter for whom the lock
becomes free again and again does get it. `Sessions` adds weak fairness of the
deadlock detector, which PostgreSQL runs after `deadlock_timeout`. Nothing is
assumed about arrivals, failures or expiry. In the front end: `SessionFairness` says
that a request in the network is answered or fails, and that the browser runs
the code that awaits it (`fetch` settles; nothing is assumed about which way);
`NavFairness` that React renders a redirect it has returned; `BrowseFairness` that the
debouncing timer fires, that a mounted query is fetched and that its fetch
settles. Users, expiry and other people's changes are under no fairness.

## 4. What is proved

Every invariant and action property of the passing runs, for every number of
requests, users, tokens, listings, images, accounts, threads, clients, tabs,
calls, queries, copies, filters, photos, files, fields and controls. The only
assumptions are the `ASSUME`s of the modules, and the hypotheses that a few theorems
state themselves, named with them:

* `None`, `Nobody`, `NoListing`, `Away` and `"none"` are not among the values they stand
  beside; a token is not one of the words for an answer; start-up has a slot;
* bounds and limits are natural numbers, the limiter's window, the images' cap and the
  edits' bound not zero; a listing's number of photos is one; a dialog has a control;
* the object store's keys, the files to choose from and the copies and listings
  that can ever be listed are finitely many, the latter two not none (the
  catalogue itself may be empty);
* a search may be for nothing and in no category (`""` is a text and a facet), and the
  moderation page has the filter `"all"`.

* `SessionsOneLivePerFamily`. The property alone is not inductive. That a
  rotation keeps it needs the presented token still live at commit
  (`RotationInv`), which needs that only the lock's holder revokes it (`LockInv`),
  that the remembered token still is a row (`ReadInv`, `RowsInv`), and that the
  successor is a new secret (`FreshInv`). `BulkInv` says what bulk updates may lock.
  `CoreInv` is the conjunction.
* `SessionsImplementTokenChains`: under the mapping `issued <- rows`, `live <- rows \
  revoked`, a rotation's commit is `Rotate`, a login's commit `Open`, the commits of
  logout, reuse detection and suspension are `Retire`, all else stutters. The map
  needs `CoreInv`.
* `SessionsDeadFamilyStaysDead`: from the refinement, since no abstract step
  revives a family without live token.
* `SessionsOnlyOverlapSurvives`: needs besides what a revocation under way still has
  to do. `BesideInv`: each live token it covers is among the rows it will reach,
  or belongs to a family extended beside it; a login whose account is
  suspended by now ran beside that suspension. `IInv` adds both to `CoreInv`;
  `SessionsInvariant` is its invariance.
* `SessionsOnlyReuseDeadlocks`: in a cycle of waits of any length without a reuse
  detection, everyone waited for is a suspension; two that wait for each other's
  tokens are of one user, whose row only one of them can hold.
* `TokenChainsProofs`: `ChainInvariant`, `ChainSpentIsFinal` for the design.
* `LimiterTyped`, `LimiterWindowsMoveOn`, from `LookUpInv`: what a thread looked up
  under the lock is still there when it stores.
* `LimiterFirstLimitAdmitted`, `LimiterBurstBounded`. Both are about a client's whole history,
  which no induction over a sequence is needed for if the invariant describes it:
  `HistoryInv` says that every admission is one of the first *limit* of its window,
  that two admissions differ in window or number, that windows are a window's
  length apart, and that a window's first admissions are all there. The bound on a
  burst is then a count: the admissions of any `Window` ticks inject into pairs of
  a number up to the limit and a quotient (`Quotients`, `QuotientBound`) that says in which
  window.
* `ListingsImagesInOrder`, `ListingsNoDanglingImage`, `ListingsImagesOnlyWhileAvailable`. What
  `AddImages` inserts was computed from what `UploadLock` read, several calls of the
  object store earlier, so none of the three is inductive. `LockInv`: an upload holds
  its listing's row lock. `BatchInv`: therefore the listing is still available and
  still has as many images, and the files stored so far have the next positions.
  `KeysInv`: no key is in two uploads, or in an upload and an image row, so a clean-up
  deletes only its own objects. `ListingsInvariant` is the invariance of their
  conjunction.
* `ListingsImplementListingLife`: with the identity as the mapping, the writing step of each
  operation (`EditWrite`, `MarkSoldWrite`, `DeleteWrite`, `RemoveWrite`, `AddImages`) is one
  atomic operation of `ListingLife` and every other step, a failed put or a rollback
  included, changes nothing in it. `FoundInv` (a request works on a listing that exists) and,
  for a batch of images, `BatchInv` and `KeysInv` give the operations' guards.
  `ListingLife` is as strong as the code: the one backward step it allows, from deleted to
  sold, is the finding of `listings_sold_after_removal`. Its consequence
  `ListingsEndedStaysEnded`: what was sold or deleted is never on sale again, with any more or
  fewer images.
* `AccountsOnePerAddress`: the check of `RegisterCheck` proves nothing; the unique
  constraint in `RegisterInsert` does.
* `AccountsFlagFollowsPassword`, provided `NewPasswords \subseteq Chosen` (nobody picks a
  temporary password again, which the code does not prevent). A handler writes the flag only
  if it loaded the other value, so it depends on what it loaded still being good for
  something (`StaleFlagInv`): outside a race, a change that leaves the flag alone finds
  it down, a reset that leaves it alone finds it up. `ApartInv`: a change and a reset
  under way on one account are always remembered in `raced`.

* `ClientNeverReusesAToken`. `SpentTokenOnlyAfterMishap` is not inductive. `SessionInv` adds
  that a tab has the one refresh its flag announces (`FlightInv`); that while
  nothing has gone wrong there is one refresh altogether, no answer under way is
  spent, and the cookie is spent only while the answer that replaces it is under
  way (`SpentInv`); and that a login's token is in nobody else's hands until it
  arrives (`LoginInv`). `SessionInvariant` is its invariance.
* `ClientSignedOutForgets`: needs what a signed-out tab can still be doing. `QuietInv`: at
  most a login, and a token only while that login's profile loads; a refresh has
  a call that asked for it, so in such a tab the profile, whose failure signs out.
* `ClientTyped`: a refresh is in the network exactly while its tab's flag is up
  (`FlightInv` one way, `Flagged` the other).
* `ClientUsesTokenChains`: the tokens as the tabs use them behave as `TokenChains`, the
  design that `SessionsImplementTokenChains` is about. The two models meet there.
* `ModalFocusTrapped`, `ModalFocusReturns`, from `FocusInv`, which adds that no run of the
  effect overwrites `previouslyFocused` while its trigger is there.

The pages' properties speak of the screen, and what is on it was computed steps
earlier from something that may have changed since. Each page's inductive
invariant says what has to be true of the source:

* `NavForcedChangeEnds`. `NothingHolds`: once the password is no longer temporary, no 403 is
  on its way, and the user is held only while the successful change's answer, or
  the profile that follows it, is. Reloads, logouts beside other calls and changes in other
  tabs are steps of it. Its proof found two overlapping arms in the
  `CASE` of `ProfileAnswer`, between which TLC had silently chosen; it is an `IF` now:
  `completePasswordChange` navigates home after a handler's redirect, and so wins.
* `CacheOwnWritesShow`. `BehindInv` follows an obsolete answer through the fetch, the cache
  and the moment between commit and hook: it is marked, or has one of the named
  excuses, or the hook that will mark it has still to run. `ChangesAreNamed` is the
  comparison of the two tables.
* `BrowseResultsAreForTheFilters`, `BrowseNoResultsIsTrue`. `AnswersInv`: all of the cache is right, not
  just the answer shown. `TurnedInv`: beyond the first page no keystroke is waiting,
  and the results reach the page; `PreviousInv`: so did those of the placeholder's search.
* `DetailPhotoInRange`. `PhotosInv` also has the thumbnail that the next lightbox opens on;
  `StepStays` is the remainder arithmetic of the arrows.
* `CreateOneListingPerForm`, `CreateSavedAsTyped`. `StageInv`: which request fits which state of the page;
  `OnceInv`: the page knows of its listing or the answer that tells it is there;
  `DraftInv`, `FilesInv`: the request, the form and the stored copy agree. That the type
  of `copiesOf` is kept is `RoomForCopies`, a count of photos.
* `EditEditsSurvive`. `CachedInv`: except between an update and its answer, what is cached and
  not invalidated is the row, but for fields edited elsewhere; `FormInv`: an open form
  differs from it in edited fields only, and an update sent in those edited by then. Between
  the two requests the detail is invalidated, which is what makes a retry harmless.
* `UsersAnswersMeetTheirDialog`: inductive with the page's shape, in which at most one dialog is
  open and a pending call names an account.
* `ModerationEmptyPageOnlyAfterShrinking`. `PageInv`: each total ever fetched of a filter that has lost
  nothing is at most what the filter matches now, and no less than its page;
  `MatchingGrows`: such a filter only gains. `ModerationReasonWasTypedForIt`: `ReasonInv`.
* `FrontendTyped`: `FrontendInv`, the conjunction of the ten, is an invariant of the
  composition; a step of `FrontendSpec` is a step or a stutter of each module.

The seven runs that fail show that something can go wrong; that it goes wrong for no other
reason is proved. The hypothesis of each of these theorems is the negation of the
cause that the finding names, either as a history variable or as a condition on steps:

* `SessionsSuspensionCutsUnlessOverlapped` (no token is drawn beside a revocation), from
  `SessionsOnlyOverlapSurvives`.
* `ListingsOnlySalesUndoRemovals` (`SalesApart`: a removal is not written while a sale of the
  listing is decided on). `RemovedInv` adds that nobody is about to sell a removed listing.
* `AccountsOnlyRacesUnflag` (nothing in `raced`, `NewPasswords \subseteq Chosen`), from the invariant
  of `AccountsFlagFollowsPassword`, whose `UnusedInv` says that an account that is not there has no
  password.
* `UsersPasswordMissesOnlyAfterClosing` (no dialog closed over its request), from
  `UsersAnswersMeetTheirDialog`.
* `EditSubmitsDiffUnlessElsewhere` (no edit in another window, and none of the causes that
  `EditsSurvive` excepts), from `EditEditsSurvive`.
* `DetailActsAmissOnlyUnderADialog` (`DialogKeepsRoute`: the route does not go on to another listing
  under a dialog). `AskedInv`: an open dialog was opened for the listing in the route.
* `ModalTypingKeepsFocusInFirstField` (`FieldComesFirst`).

So are two hazards for which there is no run, since the code breaks the rule and only the
audit trail suffers: `ListingsRemovedOnce` (with `RemovalsApart`, a listing is removed once) and
`SessionsAuditAlternates` (with `AdminsApart`, suspensions and reinstatements of an account
alternate; `StillInv` says that what a check found is still so, `OneMoreRow` what appending
a row does). `SessionsLastAuditRowIsTheFlag` needs no such hypothesis: the trail's last row and
`is_active` always agree.

The parts of `FrontendInv` were checked with TLC on the instances of `MCFrontend.cfg` before
they were proved.

**Only model-checked**: liveness (fairness and `ENABLED` are beyond the prover), that is
`RequestsFinish`, `PageLoadsEnd`, `FetchesSettle`, `RedirectsEnd` and `SearchCatchesUp`; and the seven
runs that fail.

## 5. What is not modelled

* The access token: a stateless JWT stays valid until it expires (SEC-025 accepts
  that), so suspension here means refresh and login.
* Secrets, hashing, cookies, JWT and HTTP encoding: model values.
* Field validation, error bodies, logging, headers, configuration, migrations,
  deployment: no state that a property speaks of.
* The back end's browse and search queries and their offset pagination, image
  validation, client addresses: queries and pure functions.
* `HomePage`, `MyListingsPage`, `Layout` and the presentational components render
  queries and keep no state across an event worth a property; `Navigation` has their
  links and `QueryCache` their queries. The user list's pagination is that of
  `AdminListingsPage`. `schema.ts` is generated.
* In the front end: that other people's changes show within `staleTime`; the
  garbage collection of unused queries, and TanStack Query's own retries.
* Restart of the process: requests in flight abort, and the rate limiter begins
  anew.

## 6. Plan

Done: `Sessions` with `TokenChains`; `Listings` with `ListingLife`; `RateLimiter`,
`Accounts`; the front end's ten modules; the theorems above. Left:

1. `Catalog`: who sees a listing in which status, and offset pagination while rows
   come and go.
2. Pure operators: client address behind proxies, recognition of images by their
   first bytes, PATCH with nulls, against reference definitions.
