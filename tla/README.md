# Verification of the generation service

TLA+ models of this repository's backend, checked by TLC on small instances and,
for the safety properties, proved by TLAPS for every value of the constants.
Paths below are relative to `src/`; `app/` stands for `src/backend/app/`.

Contents: 1 the system, 2 the models, 3 what the runs show, 4 bounds and fairness,
5 what is proved, 6 where code and documents disagree, 7 what is not modelled,
8 the plan.

## 1. The system

A FastAPI process accepts a brief (`POST /generate`), writes a row to `jobs` and
puts an entry into Redis; arq workers take the entry, run a LangGraph state
machine that drafts and renders the document, and write the outcome back. Around
this core stand the valuation arithmetic, the ingest of property sheets, firms
and their clients and mandates, accounts, a review desk, and a web console.

| Component | State it keeps | Operations | Hard behaviours | What makes it correct |
|---|---|---|---|---|
| **Generation queue**: `controllers/generationController`, `repositories/jobRepository`, `services/generationService`, `workers/` | `jobs` rows, the arq entries with leases and tries, sessions' cached instances, uploaded documents | submit, find by key, insert, enqueue, deliver, claim, run, final write, callback | at-least-once delivery, stalled and dying workers, cancelled tasks whose threads live on, a cache that does not expire and shows a write before its commit, a commit before an enqueue | one job per key, terminal rows never change, row, document and callback agree, every answered job ends |
| **Generation graph**: `services/graph/`, `validators/`, `services/render` | the graph state of one run | 18 nodes and the edges between them, three loops | two refusal points, a healer that rewrites after the scan, counters shared by nodes and routers, an answer of the model in every field | nothing leaves a refused run, a delivered type has its evidence, its figures have a source, a draft is whole, loops end |
| **Reconciliation**: `services/valuation/reconcile`, `configs/valuationPolicy` | none | one pure function with seven ordered checks | tolerance of the weights, rounding, a limit of zero, crossed policies | the conclusion is supported by the approaches and answers the mandate |
| **Sales comparison**: `valuation/adjust`, `salesComparison`, `validators/comparableValidator` | the grid being built | adjust or refuse, check adequacy, conclude | switch from median to mean at six comparables, refusals in an order, nothing that ties a conclusion to the check | the conclusion lies within the evidence and is not moved by one bad comparable, a refusal names who caused it |
| **Income and cost approaches**: `valuation/incomeApproach`, `costApproach` | none | capitalise, discount, depreciate | exponents of years, a rounded percentage applied again, percentages nothing bounds | the two methods of the income approach agree, the cost lies between land and new building |
| **Ingest**: `services/ingest/`, `utils/geo`, `configs/geoConfig` | outcomes, identities seen, a second pass over land | detect, parse a row, convert areas | early `continue`s, defaults of blanks, duplicates, land rewritten after the rows were counted | every row is reported once, a duplicate names its original, no area is guessed |
| **Calculator of the graph**: `valuation/valuationCalculator` | none | sum a parsed sheet by its format | normalised texts of open vocabularies, exact sums beside rounded parts | totals tie to their parts |
| **Accounts and sessions**: `services/authService`, `routers/deps` | `users` rows, challenge and access tokens, TOTP secrets | sign up, sign in, enrol, verify, scope a request | find-then-insert races, a secret saved by the later of two tabs, instances saved after the row moved on, tokens that outlive the row they describe | no session before enrolment, nothing undone by a stale save, the scope is the row's, one account per address, an enrolled secret is one its owner was shown |
| **Tenancy**: `services/access`, clients, mandates, properties | `clients` and `mandates` of all firms | create, list, search, read | a query narrowed to the firm too late: after a look-up, a limit, a unique constraint | each firm is answered as if it were alone |
| **Review desk**: notes, deliverables, audit | flushed but uncommitted rows | note, respond, close, read, sign off | writes that no request commits, a check and a write in two queries | sign-off only without open notes |
| **Compliance**: `services/compliance` | none | stamp duty, quarterly returns, expiring approvals | two floors and roundings, half-open years | understating saves nothing, every day is reported once |
| **Portfolio**: `services/portfolio` | none | rent roll, rollup, disbursement | lapsed leases, bands of years, weighted averages | average and profile are about the same leases |
| Exporters, clause registry, corpus, model router, quotas, webhooks engine, logging, schemas, migrations, load tester, configuration | none, or within one call | formatting, lookup | none that a state machine would show | — |
| Web console: `frontend/src` | session store, optimistic drafts | sign in, edit, refresh | late answers after a cancel | what is shown is what was saved |

**How they interact.** The web process and the workers share the `jobs` table and
Redis, nothing else. A worker drives one job: it claims the row, assembles the
evidence bundle if it was given a scope, runs the graph in a thread, and writes
the result under a terminal guard. The graph calls the ingest, the calculator,
the model, the renderer and the store; a sheet that cannot be read reaches the
calculator as one without rows. The approaches, the reconciliation, the rent roll
and the compliance calculators are called one by one, on what a valuer states; no
code passes the answer of one to the next. `PROJECT.json` lists every
component with its files and status, and every hazard at the line where it bites.

## 2. The models

| Module | What it is |
|---|---|
| `JobLifecycle` | what the queue promises a client and nothing of how: per key a deliverable is opened, decided once, and announced as it was decided |
| `GenerationQueue` | the detailed queue: web handlers, table, arq entries, workers, faults; `INSTANCE JobLifecycle` with a refinement mapping |
| `GenerationGraph` | one run of the graph, an action per node with its outgoing edge |
| `Money` | rounding, and what an argument that was not given is |
| `Schemas` | the five formats of `schemas/definitions.py`, and what a cell can be |
| `Ingest` | one sheet from detection to its parsed rows and converted areas |
| `Calculator` | `Ingest` and what the graph's calculator makes of it |
| `Approaches` | one call of the income or the cost approach |
| `SalesComparison` | a grid built, judged and concluded |
| `Reconciliation` | one call of `reconcile` |
| `RentRoll` | one call of `compute_rent_roll_and_wault` |
| `Compliance` | one call of `compute_stamp_duty` or `generate_quarterly_obligations` |
| `ReviewDesk` | notes and sign-off, request by request, in sessions nobody commits |
| `Accounts` | the auth endpoints and the scope of a request over the `users` table |
| `Office` | what the desk of clients and mandates is to a firm that has it to itself |
| `Tenancy` | the same desk for many firms over shared tables; `INSTANCE Office` once per firm |
| `MCEngine` | the stateless parts side by side: one entry point is used, the others stand idle |
| `MC…` | the instances TLC explores |
| `ArithmeticProofs` | no theorem of the system: induction, powers, sums over finite sets and rounding, which the next four rest on |
| `ValuationProofs` | theorems of `SalesComparison` and `Reconciliation` |
| `EngineProofs` | theorems of `Approaches`, `RentRoll` and `Compliance` |
| `IngestProofs` | theorems of `Ingest` and `Calculator` |
| `TenancyProofs` | that `Tenancy` implements `Office` for each firm |
| `GenerationQueueProofs`, `GenerationGraphProofs`, `AccountsProofs` | the theorems of the module each is named for |

`GenerationGraph` is what `GenerationQueue` abstracts to the step `RunGraph`: the
outcomes `document`, `nothing`, `blocked` and `raised` of that step are the ways
a run of the graph leaves it (`url`, neither, `blocked`, node `raised`). They are
not composed into one state space: the graph touches no state of the queue
except the document it uploads.

**GenerationQueue.** `request[s]` is where the handler of submission `s` is, `row`
the table, `queue` and `tries` arq's entry and retry counter, `worker[w]` the
coroutine in slot `w` with `seen`, the ORM's cached instance (the session is
opened with `expire_on_commit=False`), `zombies` the graph threads a cancelled
`asyncio.to_thread` left behind, `store` the try whose document lies under the
job's key, `sent` the callbacks. A step is what runs between two awaits that
touch shared state: `FindExisting` and `CreateJob` are two steps, the commit and
`Enqueue` are two, the guarded UPDATE of `MarkProcessing` and the `Refresh` after
it are two. A write that was refused or made final freezes the row, so the
re-read after it is part of `WriteResult`. Faults are actions of their own:
Redis refusing the connection, the web process dying, a worker killed, a worker
paused past its lease, `job_timeout`, a deploy, and two kinds of failure of the
database, in both of which a write under way may or may not have been committed.
`DatabaseFails` is a failure after which nothing in the session succeeds: the error
leaves the task and arq ends the entry. `CommitFails` is a failed COMMIT of the
final status inside `execute`'s `try`: the ORM's UPDATE has by then put `terminal_at`
on the cached instance, so the handler's `set_status("failed")` stops at the cached
check, and the callback is posted from that instance. (A failed refresh *after* the
COMMIT expires the instance first, so the handler's read either fails too, which is
`DatabaseFails`, or shows the committed row, which is `WriteResult`.) `doubt` is the
one field that is not in the code, a history variable: it marks a worker whose final
COMMIT failed and the callback it posts, for the properties to name.

arq 0.28 and Redis are not part of the repository. They are modelled from how
`WorkerSettings` and `enqueue` rely on them and marked external: an entry is
leased to one worker, each delivery is a try, an exception or a timeout ends the
entry, a cancelled or dead worker leads to redelivery, and past `max_tries` the
entry is dropped without calling the task.

**GenerationGraph.** The variables are the keys of the graph's state that its
routers, checks and results read; `node` is the node about to run. Every model
call is a choice over what the node's code accepts, plus `Raises`. A text is what
it asserts (the classes of the regular expressions of `ASSERTION_RULES`) and the
money figures it quotes; wording and layout are left out. A clause has a section
type, a heading and a content, the cover the client's name and the property's
address, and a model writes all four of these texts. Both scans read the contents
only: headings and cover are printed as they come. What is read from a sheet, a
name in it included, is taken to assert nothing. What intake answers as `doc_type`
need not be the type requested.

**Ingest and Calculator.** `sheet` is the input, `stage` how far it is, `format`
what it was detected as, `outcomes` one entry per row read, `seen` the identities
with the row first parsed under each, `at` the rows the pass under way has done.
`Detect`, `ParseRow` and `ConvertRow` are the steps of `detect`, of the loop of
`parse_rows` and of `_convert_land_areas`; `Compute` is the calculator. A cell is
what can be made of it: its text, its number, its day. What a row becomes is
decided as the code decides it: the first alias that is a column, the last of two
columns of one name, a blank by `required` or by the field's own default, the
identity from the texts of the coerced values (`str` of a `Decimal` keeps its
spelling, of a date it does not). Reading CSV or JSON text into columns and cells
is left out; a cell that a short row lacks is blank, as the parser reads it. An empty
line of a CSV text is dropped by `DictReader` before (`detect.py:72-76`): the rows of
the model are the rows the parser is handed. Texts are in one letter case; the code
lowers statuses, units and identities. A format named "" is no name.

**Approaches.** One `request`, one `indication`: `direct_capitalisation`,
`discounted_cash_flow` or the cost approach's `value`, with its refusals in the
code's order. NOI is kept in units so fine that every quotient is exact until the
code quantizes it; a sum of discounted years is kept over its common denominator.
A terminal denominator of zero is the one uncaught error (`failed`).

**RentRoll and Compliance.** One call each. `quantize` rounds half to even where
the code does (`HalfEven`); a rent is any number, also one below zero; a year is 365.25 days; a date is the number yyyymmdd.
Rates, due dates and the fallback for an unknown state are the code's tables.

**ReviewDesk.** `stored` is what is committed, `session[s]` the request being
served in slot `s` with the writes it has flushed, `answers` what clients were
told, in order, `issued` the notes issued. `RequireSign`, `CheckNotes` and `Sign`
are three steps: role and registration, the query for open notes, the write.
`CloseSession` is `get_db` leaving its session: nothing commits, so the writes are
gone and the answer is out. A row another open session has written is locked.
Deliverables are given, because nothing in the application calls
`create_deliverable`.

**Reconciliation.** Money is in paise, weights in units of which `One` make 1, a
percentage in units of which `PercentScale` make a percent; quotients are rounded
half up, as `quantize_money` and `quantize_percent` do by default. The refusals
come in the code's order. The three refusals of `ApproachInput` are one code,
`malformed_approach`. A caller's list is a sequence, sums are taken by method,
which is the same once a method that appears twice has been refused. Negative
indications are outside the model.

**SalesComparison.** `grid` is what `build_grid` has adjusted so far, `refused`
whether an entry was refused, `verdict` and `conclusion` what `validate_grid` and
`conclude` answered. They are separate calls, and the model lets `Conclude` follow
a refusing verdict or none, since nothing in the code forbids it. No route or
worker calls the three yet; they are modelled from the code and its tests. Rates,
values and percentages are counted in units as in `Reconciliation`; the 28 digits
of an unrounded `Decimal` are taken as exact. Prices are not negative, which is
the table's constraint. `distances_m` is given for the comparables of the grid or
not at all.

**Accounts.** `row` is the `users` table, `request[r]` where the handler of
request `r` is, with `seen`, its session's instance of a row; `shown` the
enrolment URIs answered, `challenges` and `sessions` the MFA and access tokens.
A step is what runs between two awaits on the table: `SignUp` and `Create`,
`SignInWithGoogle` and `FindByGoogleAddress`, each save and the `Refresh` after
its commit are steps of their own. `Saved` is what SQLAlchemy's UPDATE writes:
the columns the request changed, no other. An account is named by the sign-up that
makes it, a secret by the request that minted it. Passwords, codes and tokens are
right or refused; tokens do not expire, which only adds behaviours. `Administer`
stands for a change made to the table by hand: no endpoint disables an account or
changes a role, but `sign_in`, `verify_mfa` and `current_scope` are written for
it. Rows from before migration 0002 have no secret.

**Tenancy.** `clients` and `mandates` are the tables, `desk[s]` the request being
served in slot `s`, `clock` the requests begun, which is also what `created_at`
compares: `now()` is when the transaction began, not when the row was written.
`FindClient` and `InsertMandate` are the two queries of one handler; every other
handler makes one. A list is the set of the rows on it. `Office` answers each
request in one step from one firm's rows; `Alone(firm)` maps the tables to that
firm's part of them and hides the step between the two queries. A valuer is any
user there is: `mandates.create` looks the client up through the scope and leaves
the valuer to the foreign key, and in `Office` too a user is not the firm's row.

Some definitions come with a second form placed before them, with a plausible
slip in it (`AcceptsByCache` before `Accepts`, `OffOneAbove` before `OffOne`). No
action uses these forms. `PROJECT.json` pairs each checked property with one of
them: substituted for the definition, TLC must find the property violated, which
shows the property is about the code and not about the shape of the model.

## 3. What the runs show

| Run | Instance | Shows |
|---|---|---|
| `queue_faults` | one brief submitted twice, a third submission refused for its role, two worker slots, any three faults of all eight kinds; 1,038,304 states | `RowConsistent`, `SameKeySameJob`, `CallbackTruth`, `CompletedHasDocument`; `TerminalFinality`; the queue implements `JobLifecycle`, callbacks of a failed COMMIT excepted |
| `queue_redelivery` | the same brief, fewer crashes and deploys (2) than `max_tries` (3), fair; 7,659 states | every answered job ends, every opened key is decided, a job is announced by one try at most, redelivery replaces no document behind a `doc_url` |
| `queue_enqueue` | one Redis refusal | **violated**: an answered job that never ends (section 6) |
| `queue_timeout` | one timeout | **violated**: a key that is never decided (section 6) |
| `graph_runs` | every drafting path, with and without a bundle, 14 calls, seven kinds of clause, two covers, fair; 525,730 states | the six safety properties and `RunEnds` |
| `graph_healer` | one property with a complete bundle | **violated**: a delivered document asserts what no record supports |
| `graph_unseeded` | a worker's call for a complete property | **violated**: it is refused for want of evidence |
| `engine` | one use of any entry point of the valuation engine, over all inputs of the small sets of section 4; 305,864 states | the eighteen properties below: four of the reconciliation, four of the sales comparison, two of the approaches, five of ingest and calculator, one of the rent roll, two of compliance |
| `accounts` | three requests, an account without a secret, a Google account, a free address, two changes by an administrator, challenge required or not; or three requests of two firms with a client each to the desk of clients and mandates, two at a time; 811,533 states | the four properties below, and `EachFirmAlone` |
| `accounts_signup` | the same | **violated**: one address, two accounts |
| `accounts_secret` | the same | **violated**: an enrolled account whose secret nobody was shown |
| `review_gate` | two requests over two deliverables of two firms | **violated**: a deliverable is signed although a note on it was answered open (section 6) |

The type invariants are theorems (section 5) and are not repeated in the runs.

Queue properties, in words. `RowConsistent`: `terminal_at`, `doc_url` and `error`
agree with the status although each write merges into what earlier tries left.
`SameKeySameJob`: a double submit is one execution and whoever got an answer got
the same job. `CallbackTruth`: a callback, built from a cached
instance and possibly by the worker that lost the race, carries the status and
the document of the row, unless the worker that posts it had its final COMMIT fail
(section 6); that a callback saying "completed" has a document behind it holds even
then. `RefinesLifecycle` counts the same callbacks out and no others. `TerminalFinality`: no step of any process changes a row
once `terminal_at` is set. `CompletedHasDocument` relates the row to the store.
`CallbackAtMostOnce` and `RedeliveryKeepsDocument` are not claimed under stalls: a
worker paused past its lease may upload and announce again, which no document
excludes; nor is the first claimed where a COMMIT fails, because a job announced and
left open is announced again if its entry is redelivered. They hold under every other
kind of fault (section 5).

The liveness properties are checked with crashes and deploys, fewer than the tries:
past `max_tries` arq drops the entry and the row stays `processing`, which is what
the code does, as it does after a timeout (`queue_timeout`), a database failure or a
failed COMMIT.

Graph properties. `BlockedDeliversNothing`: a refusal at either gate leaves
neither file nor URL. `DeliveredTypeIsSupported`: what is delivered holds the
evidence of the type it was drafted as. `DeliveredContentsAreSourced`: every figure
in the content of a delivered clause is computed or instructed, also after healing,
and also where the content repeats what the intake model put on the cover.
`UnhealedContentsHold`: the contents of a draft rendered at the first attempt under a
bundle assert nothing the bundle lacks. Neither holds of headings and cover, which no
scan reads (section 6). `UnhealedReportIsWhole`: it has exactly
the sections of its last plan, no section of a rejected one. `RetriesAreBounded`:
both counters stay within their settings. `RunEnds`: all three loops end.

Reconciliation properties. `ConclusionIsSupported`: the concluded value lies in
the span of the approaches relied on, exactly when the weights make 1, to the
tolerance when they nearly do. `ApproachesAgree`: no approach relied on is
further from the conclusion than the divergence limit, in percent of the
conclusion. `ShownIsNotRelied`: leaving out any one line of weight zero, and so
one after the other all of them, changes nothing of an accepted answer. `MandateIsAnswered`: what each basis and purpose is
promised, stated independently of how `policy_for` and `reconcile` combine them.

Sales comparison properties. `ConclusionIsWithinEvidence`: the value lies in the
range shown beside it. `OneComparableCannotDrag`: with three to five comparables
no one of them moves the concluded rate out of the span of the others, the reason
the code gives for the median. `TrimmedIgnoresOne`: nor, from five on, the trimmed
mean of the raw rates. `SpreadNamesSomeone`: a set refused for its spread always
has an outlier, so the text "no single comparable dominates" is never used.

Approaches properties. `CapitalisationsAgree`: what a discounted cash flow
indicates lies between the direct capitalisations of the same income at its exit
yield and at its discount rate less growth, whatever the horizon; an exponent off
by one, in the years or in the terminal value, breaks it. `CostIsBracketed`: the
cost approach's parts add up, its value lies between the bare land and the land
with the building new, its depreciation between the greatest cause and their sum.

Ingest and calculator properties. `NoRowIsLost`: the rows reported are the rows
the parser was handed, in order; the code's own check (`assert_reconciles`) compares
the report only with itself. `DuplicatesNameTheirOriginal`: a duplicate names an
earlier readable row of the same identity that is no duplicate, and of the readable
rows of an identity the first is kept and no other, unless it is a parcel turned away
because no factor holds for it: then none of them is, though a later one might have
been converted (section 6).
`LandIsNotGuessed`: a parcel is converted by a factor that holds for its unit and
state, and turned away only when there is none. `EveryComparableCounts`: each
comparable counted gave a rate, though the calculator would skip one silently.
`TotalsTie`: let and vacant, types of a portfolio, paid and pending stages add up
to the whole to the rounding of their number, and the one exception is named: a
stage whose status was left blank. "To the rounding" is needed for the annual rent:
`valuationCalculator.py:181` calls it "exactly twelve times the monthly total", which
is so of the unrounded sums and not of the two figures shown.

Rent roll property. `WaultFitsTheProfile`: the average unexpired term is one that
leases in the bands of the profile can have, if no rent is below zero, and the profile has every lease and
every rupee once. Compliance properties. `UnderstatingSavesNothing`: no other
price would owe less unless it is lower and the agreed one is above the floor, and
below the floor the same is owed to the paisa. `EveryDayIsReported`: every day of
a project lies in exactly one return, returns fall due in their order, after
their quarter and before the end of the next.

Review desk property. `NotesBlockSigning`: a deliverable is answered signed only
if each note answered open before the request came was answered closed since.

Accounts properties. `SessionsFollowEnrolment`: where the challenge is required,
by none of the three ways of issuing one does an access token exist for an
account that has not enrolled. `SignUpSecretStays`: the secret shown at sign-up
is never replaced by a sign-in. `StaleSavesUndoNothing`: no save of an instance
read earlier takes back an enrolment, a Google link or the disabling of an
account. `AcceptedSecretStays`: once an account is enrolled its secret is replaced
only by a sign-in that read the row before it had any secret and saves what it minted
now; no sign-in that reads the row later does it, and no other save. (That the one
exception is possible is what `accounts_secret` shows.)

Tenancy property. `EachFirmAlone`: for every firm, the desk over the shared tables
implements `Office`, the desk of a firm alone. It says more than that no row of
another firm is read: another firm's client is "not found" like one that does not
exist, its names are free to be used, and its rows take no place on a list that
is cut off at its limit. It is an implementation claim stated as an initial
condition and an action property, because TLC takes no quantifier over temporal
formulas.

## 4. Bounds and fairness

*Queue.* Two submissions of one brief are the race; more of the same key add only
losers of the same race. Two slots put one job in two coroutines at once. Three
faults allow, for instance, a stall, a crash of the second holder and a database
failure of the third delivery; `MaxTries = 3` is `WorkerSettings.max_tries`.
Slots are symmetric and the properties of `queue_faults` are safety properties,
so symmetry is used there (and for the requests of `Accounts`), never with
liveness. No bound is needed on uploads or
callbacks: each try makes at most one.

*Graph.* Two retries of each loop (`MAX_CRITIC_RETRIES`, `MAX_HEALER_RETRIES` are
parameters) show the first pass, a repeated one and the exhausted counter; two
sections and two clauses show a loop that goes on, stops, and a second clause
after a bad first one. One of the seven clauses asserts and quotes in its heading, and
one of the two covers in the client's name and the address. The properties are a
complete one, one without its encumbrance certificate, one with a broken chain, and
none.

*Reconciliation.* Twenty units of weight and a tolerance of one reach exact,
nearly exact, short and excessive sums with one, two and three lines (6+7+7,
7+13, 7+7+7, 6+13); the values 0, 100, 130 and 200 reach the skipped check, a
divergence of exactly 30 % and one beyond every limit; a limit of 0 stands for
the default. Of the bases that share a branch of `policy_for` (`market` with
`fair`, `liquidation` with `distress`) one is enumerated, likewise of the two
purposes that require income. Types, bases and purposes are not bounded in the
proofs.

*Sales comparison.* Six comparables are one more than the median serves; the trim
starts at five. Five rates (next to nothing, 85.5, 100, 121, 133.5) put spreads
below and above 25 %, an extreme at either end and both. Sequences, not sets: the
order of the entries is not assumed away. The thresholds are those of the code,
the grain of rates, money and percentages is coarser, which makes rounding matter
more, not less. The trim stays one rate up to nineteen comparables.

*Ingest and calculator.* Three rows of comparables are the least with a row
between a duplicate and its original; other formats have two. Seven kinds of
comparable row reach a date and a price spelled in two ways, a field that is blank,
no number, or zero, and a row with nothing in it. Every status of a lease and of
a stage and one unknown word, parcels in a unit that holds everywhere, in one
state, unverified or nowhere, with and without leave to use unverified factors,
columns that fit no format, two formats, or have one name twice. A paisa has two
parts (`Fine`), so half a paisa is met.

*Approaches.* A percentage counts tenths of a hundred percent (`Whole` = 10),
which makes every rounding coarse; rates on both sides of each other, growth above,
at and below −100 %, no years to three, net incomes that are negative, zero and
positive only because two deductions are excessive, every mixture of causes
including a hundred percent of two of them.

*Rent roll and compliance.* Up to three leases that lapsed, end on the day, or a
day before and after each boundary of the profile, at rents that are half a paisa
above an even and an odd one, nothing, or below zero; prices within half a paisa of the floor and on
either side; projects that begin, end and are looked at on the days around the
ends of quarters and due dates of three years.

*Review desk.* Two requests are enough for the counterexample: a note and a
signature.

*Accounts.* Three requests are two that race and one between them: two sign-ins
and the verification that comes between the read and the save of one of them, or
a sign-up, its verification and a request with the token. One old account with a
Google address and one free address reach every branch. Three of the five roles
suffice: one to be given at sign-up, another to change to, and `client`, which
sign-up refuses. Two changes let a role change and a disabling fall into one
behaviour.

*Tenancy.* Two firms with a client each from before, three requests more, and lists
of one row (the code's limits are 100 and 50), so that a second row is cut off and
another firm's row, were it counted, would cut off the first. Two requests at a time
suffice for the one handler of two queries. Of the roles one that may edit, a
partner and a client's user are enumerated; of ids the two old clients and the next
row; of what a mandate is asked with, each refusal once. The desk and the auth
endpoints share no state but the scope, so `accounts` explores them side by side,
without interleaving, in the manner of `engine`.

*The engine's parts side by side.* They share no state in the code, so one run
explores them without interleaving: `entry` picks one, the others keep their
initial state and any one argument.

*Fairness.* `GenerationQueue!Fairness` is weak fairness of each handler's next
step, of each worker's next step, and of Redis delivering or expiring each entry:
an event loop that is not killed goes on, and arq polls. Clients need not submit,
faults need not happen, and an abandoned thread need not end. `GenerationGraph`
assumes only that `graph.invoke`, one call, keeps running and that each model
call returns or raises. The other modules state no liveness: a handler whose
client leaves may stop at any await.

`CHECK_DEADLOCK FALSE` is set everywhere because each of these systems does come
to rest: all submissions answered and all entries gone, a run at its end, a call
answered.

## 5. What is proved

All theorems are checked by TLAPS to the last leaf, from the `ASSUME`s of the
modules alone, which are as weak as the code justifies (keys of submissions are
keys, `max_tries` is positive, the tolerance is below 1, and so on) and are
evaluated by TLC in the runs.

**Queue** (`GenerationQueueProofs`). For any submissions, keys, workers, tries and
faults: `TypeCorrect`, `RowsAreConsistent`, `KeysHaveOneJob`, `SubmissionsShareAJob`,
`CallbacksAreTrue`, `CompletedJobsHaveDocuments`, `RowsAreFinal` and
`QueueImplementsLifecycle`. None of the properties is inductive alone. The
invariant adds, to the types and the properties themselves, that an entry or a
worker has a row (`EntryHasRow`), a request past its insert has the row it will
be answered with (`RequestHasRow`), a worker's cached instance is, but for a
failed COMMIT, terminal only if its row is and equal to it when the callback is due
(`Snapshots`), and a worker
about to complete a job has uploaded its document (`Uploads`). The argument turns
on one lemma, `RowSteps`: whatever step is taken by whomever, the table is
unchanged, one new row appears under a free key, or one non-terminal row changes
by `Written`. Row consistency, key uniqueness, finality and the refinement follow
from that lemma without looking at the actions again; `InsertOpens`,
`UpdateDecides` and `CallbackAnnounces` map the three kinds of step to steps of
`JobLifecycle`, and `DoubtStutters` a callback whose COMMIT failed to none.
`CallbacksAreTrue` and `QueueImplementsLifecycle` hold under every kind and number of
faults, with that exception and no other. Where no worker is paused past its lease
(`"stall" \notin Faults`) `DocumentKept` holds as well, and where besides no COMMIT
fails `AnnouncedOnce`, under every other kind and number of faults. They rest on a
further invariant: whoever holds a job holds its lease and holds it alone (`Alone`),
works on a row that is not decided (`Undecided`), and so announces it first
(`Unannounced`). This says more than the run, which allows two kinds of fault.

**Graph** (`GenerationGraphProofs`). For any calls, clauses, figures and retry
settings: `GraphTypeCorrect` and the six safety properties. The invariant says
what holds at each node: that a file exists only after the renderer, a URL only
at the end and neither once blocked (`Phases`), that past the gate the type is supported (`Gated`), that the file is
made of clauses of sourced contents and registered types (`FileIsSourced`), that the
contents rendered at the first attempt were scanned (`Scanned`) and are those of the last plan
(`Whole`), and where the counters may be (`Counted`).

**Arithmetic** (`ArithmeticProofs`). The engine adds, multiplies and sorts lists of
any length, and the provers take no property as a parameter of an induction
theorem. Induction is therefore stated of a *set*: a set of natural numbers that
holds 0 and with each number the next holds them all (`Induction`), likewise a set
of finite sets (`SetInduction`). Both follow from the pigeonhole principle of the
library: were m missing, adding 1 would fit the numbers of the set below m into
themselves less 0. From them come that a function defined from its value before
exists and is the one `CHOOSE` picks (`Recursion`, for `Power` and the discounted
years), that a fold over a finite set does (`FoldExists`, `SumIs`), and then what
sums are: they split over kinds (`SumByKind`), grow with their terms
(`SumMonotone`), and a sum of rounded parts is within half a unit for each of the
rounded sum (`SumOfRounded`). `RoundedWithin`, `RoundedInOrder` and `RoundedShift`
say what rounding half up preserves.

**Reconciliation** (`ValuationProofs`). For any calls, units, tolerance and
limits: `TypeCorrect`, `ConclusionSupported`, `ApproachesInAgreement`,
`MandateAnswered`, `ShownNotRelied`. The invariant is only that an answer is the
outcome of its call; the work is in lemmas on the arithmetic: a lowest and
highest approach exist (`RangeExists`), the weighted sum lies between them times
the weights (`SumBounds`), approaches that passed the divergence check lie within
the limit of the lowest (`SpanWithinLimit`), and the lines left when one of weight
zero is left out give every method the weight it had (`MethodsLeft`), so pass the
same checks.

**Sales comparison** (`ValuationProofs`). For any number of comparables with any
adjustments, any areas, thresholds and units: `GridTypeCorrect`,
`ConcludedWithinEvidence`, `NoOneDrags`, `TrimmingIgnoresOne`, `SpreadAlwaysNames`.
The invariant `GridInv` adds to the types that a conclusion is what `conclude`
makes of the grid it stands beside, and that a grid refused for its spread is too wide.
`sorted()` is defined by rank: the k-th is one with fewer than k below it and at
least k up to it. That there always is one is the heart of it
(`EveryPlaceIsTaken`); then the sorted rates grow, are the rates given, and any
place but the first has another rate at or below it (`AnotherBelow`, `AnotherAbove`),
which keeps the middle of three to five, and whatever survives a trim of five or
more, in the span of all but one. `SpreadIsSomeones`: if no rate were beyond half
the threshold, the highest and lowest would be no further apart than the whole of
it, and rounding a number up to a whole threshold does not pass it.

**Ingest and calculator** (`IngestProofs`). For any sheets, table of units and
grain: `InvHolds`, `IngestTypeCorrect`, `NoRowLost`, `DuplicatesHaveOriginals`,
`LandNotGuessed`, `ComparablesCount`, `TotalsAlwaysTie`. The invariant says how far each pass is
(`HowFar`), what each row read so far may have become (`OutcomesOf`: parsed with
its own record, rejected, duplicate, converted or not according to the pass), and
that `seen` holds exactly the identities read, each with the row that was first
(`SeenAsRead`), and that a duplicate names an earlier row that is none
(`DuplicatesNamed`), which only the passes together keep: the second one rewrites the
rows the first one named. `DuplicatesNameTheirOriginal` follows with `OutcomesOf`, which
says of a rejected row that it was unusable or that no factor holds for it. Each of the five endings of a row is a case of one lemma
(`FiveEndings`). `ComparablesCount` and `TotalsAlwaysTie` carry the invariant
through `Calculator`. The second is about sums of any length: let and vacant rows
are disjoint and all of them (`RentRollTies`), the types of a portfolio split it, and
each rounds its own sum once (`PortfolioTies`), and a stage is completed, pending, or
of blank status, because the parser let no other word through (`StatusOfAStage`).

**Approaches** (`EngineProofs`). `ApproachesTypeCorrect`, `CostBracketed` and
`CashFlowBetween`, for any amounts, rates, horizon and grain. `Remainders` is the
arithmetic of the cost approach: what three causes leave together is no more than
what one of them leaves and no less than what their sum would. `YearsTelescope`
is that of the cash flow: the discounted years, times the discount rate less
growth, and the growth of the last year add up to the discount of all years. It
is proved by induction over the years (`Telescope`).

**Rent roll** (`EngineProofs`). `WaultFits`, for any leases, rents below zero included, and any day;
the average is spoken of where no rent is below zero. Leases and
rent split over the four bands (`ProfileIsWhole`); the terms of a band lie between
its ends, times its rent (`TermsAtLeast`, `TermsAtMost`, `RentByBand`); the average is within
half a hundredth of a year of their sum over the rent (`AverageTerm`, `AverageFits`).

**Compliance** (`EngineProofs`). `NothingSavedUnderTheFloor`: dues grow with the
taxable value because rounding is monotone, and the taxable value is the greater
of floor and price. `NoDayUnreported`, for any project and day: a date's own year and
quarter give its return (`DateHasAnObligation`), two quarters share no day and fall
due in order (`ObligationsApart`).

**Tenancy** (`TenancyProofs`). `FirmsAreAlone`: for any firms, scopes, names, ids,
staff and limits, and any number of requests served at a time, every step of the
desk over the shared tables is, to each firm, a step of `Office` or none. The
invariant `TenancyInv` says what the mapping needs: a row's id is the number of a
request that began and no request still served has one (`RowsAreNumbered`,
`ServedInTime`), so that what is created is new to its firm and `created_at` orders
mandates strictly; the names of one firm's clients are distinct, so that a list cut
off in their order has exactly as many rows as its limit (`NamesAreFirst`,
`MandatesAreFirst`, both from `FirstRows`); and a mandate about to be written was
found to be asked by an editor for a client of the firm, with dates that can be read
(`FoundIsClient`), which is why two queries of `Tenancy` are one step of `Office`: the
first of them maps to a stutter unless it refuses, and no other firm's step in between
takes the client away. For each handler one lemma gives its step of the asker's own
office (`CreateClientIsAlone` and so on), and `OthersStep` says that another firm sees
nothing of it, but that time passes when a request begins. Assumed are that clients from before have
the numbers of the requests that made them and distinct names within a firm, as the
primary key and the unique constraint of the table demand, that a name stripped
of blanks is a name, that limits are natural numbers, and that the id that is
nobody's is not a user's.

**Accounts** (`AccountsProofs`). For any requests, accounts, addresses and roles,
with or without the required challenge: `TypeCorrect`, `SessionsEnrolled`,
`SignUpSecretKept`, `StaleSavesHarmless` and `AcceptedSecretsStay`. The invariant
says what each request knows of the row it works on (`Sound`): the row exists, a
request about to answer a challenge has a secret to show, one about to issue a
token under the required challenge has an enrolled row, one about to enrol read a
row that was not, and an instance of an account made by `sign_up` shows its
secret, which is why `_complete` mints it no other. An enrolled row has a secret
(`EnrolledHaveSecrets`), and an instance read after the enrolment shows it
(`SeesEnrolledSecret`), so that only an instance from before it lacks one. It turns on `RowsKept`: no
step of any request takes from a row its existence, enrolment, link, secret or
disabling; what a request knew when it read stays true while others run.

**Model-checked only.** Liveness (`AnsweredJobTerminates`, `KeysProgress`,
`RunEnds`): leads-to under fairness and `ENABLED` are out of the prover's reach.
Every other property of a passing run is a theorem. What a `violation` run refutes
is refuted by its counterexample. That TLC's overrides of the library's folds
compute what their definitions say is outside both.

## 6. Where code and documents disagree

Shown by a run:

* **A committed job may never be enqueued** (`queue_enqueue`).
  `generationController` commits the row and then opens the Redis pool. If that
  raises, the row stays `queued`, nothing enqueues it again, and the client's
  retry is answered with it. `REALESTATE_FACTORY_SPRINTS.md:469`: "20 concurrent
  jobs all reach a terminal state, none lost".
* **A run cancelled by `job_timeout` is neither retried nor failed**
  (`queue_timeout`). `execute` catches `Exception`; `CancelledError` is none. The
  row stays `processing`. `workers/tasks.py:5-6`: "a job that dies mid-graph is
  retried by arq rather than lost with the process".
* **The healer's text is not scanned** (`graph_healer`). Its edge leads back to
  the renderer. `README.md:155`: "An unsupported assertion **blocks the render**".
* **The worker never assembles a bundle** (`graph_unseeded`). `run_generation`
  calls `execute` without scope and property, so every gated type is refused.
  `README.md:355` and `:362` say the bundle is assembled and seeded.
* **Two sign-ups make one address ambiguous** (`accounts_signup`). `sign_up` looks
  for the address and commits three awaits later, in a firm of its own, which the
  unique constraint (firm, address) cannot compare. `authService.py:76`: "An
  account already exists for this address". Afterwards every password sign-in at
  the address raises (`scalar_one_or_none`, `userRepository.py:29`).
* **An account may be enrolled with a secret nobody was shown**
  (`accounts_secret`). Two sign-ins of an account without a secret each mint one;
  the second may be saved after a code for the first was accepted.
  `authService.py:96-97`: not usable "until the first TOTP code proves the
  authenticator was actually set up".

* **A note does not stop a signature** (`review_gate`). `get_db`
  (`configs/dbConfig.py:41`) closes its session without a commit and the note,
  deliverable and audit repositories only flush, so the gate (`reviewNotes.py:138`)
  reads a table that stays empty. `models/reviewNote.py:5-6`: "The sign-off gate
  prevents deliverable signing while any note remains open". With commits the
  gate would still look for notes and sign in two statements without a lock, so a
  note may come between them.

Met while reading, and modelled as the code has it or left out, without a run:

* A worker may announce an outcome its row does not have. When the COMMIT of the
  final `set_status` fails (`jobRepository.py:179`), the instance already shows the
  status and `terminal_at`; the handler's second `set_status` raises
  `TerminalJobError`, which is dropped (`generationService.py:206-211`), and
  `_notify` (`:213`) posts "completed" for a row that may still be `processing`. The
  call then returns normally, so arq does not run the job again. `README.md:366-367`
  has the callback after `terminal_at` is set. `CallbackTruth` and
  `RefinesLifecycle` name exactly this exception.
* The default status of a construction stage is never used:
  `one_of(…, default="pending")` (`schemas/definitions.py:121`) is not called for a
  blank (`rowParser.py:64-73`), which becomes `None`, is read as "none", and is in
  neither list of the calculator although `valuationCalculator.py:36` has the blank
  among the pending. `TotalsTie` states what holds.
* A duplicate is found by the texts of its fields: `4500000` and `4500000.00` are two
  prices (`definitions.py:37-38`). A parcel may be the duplicate of one that the
  conversion of areas rejects later (`propertyDataParser.py:89`), for unit and state are
  no part of its identity: its own unit may be one that can be converted, and no row of
  the parcel is kept. `rowParser.py:98-100`: "a repeated comparable would weight the
  same evidence twice"; here it weighs not once. `assert_reconciles` (`result.py:75-89`) compares
  the reported rows with their own number.
* `json.loads` records take their columns from the first record, and a `null` is the
  text "None". `area_unit` of comparables and leases is read and never converted.
* Headings (`docxRenderer.py:93`, `:119`, `:149`) and the client's name and the address
  on the cover (`:67-81`) are written by a model and printed. Neither the scan
  (`evidenceScan.py:27`) nor the check of figures
  (`figureProvenanceValidator.py:101-107`) reads them: a heading may assert what the
  bundle lacks and quote a figure nobody computed. `README.md:155`: "An unsupported
  assertion **blocks the render**". `DeliveredContentsAreSourced` and
  `UnhealedContentsHold` speak of contents.
* A negative rent passes the router (`routers/portfolio.py:22`) and `rentRoll.py:42`; the
  average unexpired term may then lie outside the terms it averages.
* With rents finer than a paisa the annual rent is not twelve times the monthly one
  shown (`valuationCalculator.py:181`: "Exactly twelve times").
* A lease whose status is blank counts as let, though the calculator's `VACANT`
  lists the blank: the parser's default never is one.
* `OperatingStatement` accepts vacancy and expenses above 100 %, which multiply to a
  positive NOI (`incomeApproach.py:30`); growth below −100 % gives a negative value or
  an uncaught division by zero.
* The total depreciation is quantized (`costApproach.py:80`) and then multiplied
  (`:164`), while `money.py:14-17` says to round once.
* `rentRoll` counts lapsed leases among the active ones and their rent in every
  total; its bands end at whole years, which no number of days is. An unknown state
  pays Maharashtra's stamp duty without a word (`stampDuty.py:36`). A return is
  "completed" once its due date has passed (`rera.py:61`), filed or not.
* `bundle_for` never fills `expired_approval_kinds` (`documentRepository.py:102`).

* `execute` turns the provider error that `workers/arqApp.py:42` and
  `workers/tasks.py:37` say is retried into a terminal `failed` at the first try.
* The type judged by the gate is the one intake's model answered
  (`nodes/intake.py:26`), not the one requested.
* Types with no required evidence are scanned only when a bundle is attached,
  which workers never do.
* A sheet that cannot be parsed leaves a note that a later successful upload
  clears (`nodes/propertyDataParser.py:28`); the parser's docstring promises the
  job is stopped.
* `bundle_for` judges the contiguity of a title chain from its first recorded
  position (`documentRepository.py:88`); the docstring above it says from 1.
* The order of the adjustments does not change the number, which
  `services/valuation/adjust.py:18-20`, `models/comparable.py:37-39` and
  `tests/test_adjust.py` say it does: percentages that compound commute.
* A document is written under the job's key by whichever try uploads last; an
  abandoned thread may do so after the job completed. `RedeliveryKeepsDocument`
  names exactly this exception.
* `liquidation` or `distress` with an income-producing property and a loan
  purpose both requires and excludes the income approach, so every such call is
  refused; so is `insurable`. `validate_divergence` is skipped when the lowest
  value is zero, and `max_divergence_pct=0` means the default of 30.

## 7. What is not modelled, and why

*Text and layout*: prompts, the regular expressions of the scan and of the figure
check, DOCX, PDF and XLSX output. The models keep which class or figure a text
carries, not the text. *Cryptography and HTTP*. *The read endpoints*, which change
nothing. *Of the review desk*: the listing of the audit trail, and
`create_deliverable` and the versions behind it, which nothing calls. *Of compliance
and portfolio*: the filter of expiring approvals and the check of a tranche, one
comparison each, and the rollup, a sum. *Exporters, corpus, model router, quotas,
event stream*: formatting, ranking and lookup, without a state to go wrong.
*Of tenancy*: properties (`propertyRepository`) and grants to a
client's user, which nothing in the application makes. *Deletion of jobs and documents*: no endpoint
does it. *Several firms in the queue*: the idempotency key already contains the
scope, so a key of the model is a key within a firm. *Real time*: a lease or a
timeout may expire whenever the model's condition allows it.

## 8. The plan

Done: the queue with its abstract life cycle, the graph, the accounts, the ingest
with the graph's calculator, all approaches with the reconciliation, rent roll and
compliance, the review desk as it is, clients and mandates over shared tables, and the
proofs of section 5: every safety property of a passing run. Left, in order of
importance:

1. Composition of queue and graph through the outcome of a run, with the healer's
   and the gate's refusals visible to the client, as a second refinement of
   `JobLifecycle`.
2. Progress with abandoned threads and stalls bounded by a lease, if the sweep of
   `processing` rows becomes more than a count.
3. The review desk's safety, once its requests commit: the same module with a
   committing `CloseSession`, a second slot, and the race of check and signature.
4. The console's session store: late answers after a cancel.
5. The rollup and the check of a tranche, with the loans they are taken from.
