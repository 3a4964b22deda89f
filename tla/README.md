# A verification project for BankLang

BankLang compiles a small, statically checked language for banking transactions
to IBM Enterprise COBOL (with embedded SQL, MQ, CICS, IMS, files and JCL), and
carries an interpreter that executes the COBOL it generates so that programs can
be tested off the mainframe. This directory holds TLA+ modules for the parts of
it whose correctness depends on *order*: what happens after a failure, a crash,
a reposition or a boundary, rather than what one statement is translated to.

Paths below are relative to the repository's `src/`, `backend` is
`packages/cobol-backend/src/index.ts`, `machine` is
`packages/cobol-runtime/src/machine.ts`, `ir` is `packages/ir/src/index.ts`,
`typechecker` is `packages/typechecker/src/index.ts` and `file-outcomes` is
`packages/semantic-analyzer/src/file-outcomes.ts`.

- [1 Inventory](#1-inventory)
- [2 Modules and how they correspond to the code](#2-modules-and-how-they-correspond-to-the-code)
- [3 Runs](#3-runs)
- [4 Proofs](#4-proofs)
- [5 Where code and documents disagree](#5-where-code-and-documents-disagree)
- [6 Not modelled](#6-not-modelled)

## 1 Inventory

### The path a program takes

    text -> parser -> typechecker -> ir (lowering) -> semantic-analyzer
         -> cobol-backend -> COBOL, JCL, listings
                                |
                                +-> cobol-runtime (the interpreter), with the
                                    stubs of runtime/*.cbl in place of services

The compiler itself is a chain of functions from trees to trees: it keeps no
state between calls. What has state, and behaviours, is what comes out of it: a
generated program, the services it calls, its files and its reruns. The backend
decides that behaviour by the statements it emits, so an action of a model here
stands for the statements one emitter produces, and its lines are that
emitter's.

### Components

| Component | State | Operations | What is hard about it | What makes it correct | Module |
|---|---|---|---|---|---|
| Ledger program, `runtime/BANKLEDG.cbl` | account table, posting table, a shared index, the balances file | DEBIT, CREDIT, ROLLBK | one index serves two loops; tables fill; digits are dropped | ROLLBK restores the opening balances; and returns; the table remembers what it applied | `BankLedger` |
| Generated failure protocol, `backend`, `ir` | failure register, return code, PERFORM nesting, SORT-RETURN, file flags, postings | raise, checks, calls, sorts and the files their procedures open, OPEN/CLOSE, declaratives, wrapper, handler, BANK-ABEND, cleanup, end of step | a failure is a register and a GO TO, so every call site has to take part; a second failure on the way out; places that have no exit to go to | no failure ends as success; all postings or none; the handler sees it; the files are closed; it gets out | `GeneratedStep`, `UnitOfWork` |
| Generated cursor loops, `backend` | Db2 cursor, position, counters, rowset index, SQLCODE | OPEN, FETCH (single, scrolled, rowset), body, bound test, CLOSE | SQLCODE is one register shared with the body; +100 arrives together with rows; bounds inside rowsets | rows in order, none lost or repeated; partial sets are not reported as whole; the loop ends | `CursorLoop` |
| Generated checkpoint and restart, `backend` | restart record, postings, position record, interval counter, unit of work | restart, checkpoint, the loop between, failure, crash, rerun | two stores that are not written together; reruns of work that was done | no row posted twice; lost or repeated work is bounded; reruns finish | `CheckpointedBatch` |
| Interpreter's indexed files, `machine` | dataset as an array, open mode, position, file status | OPEN, CLOSE, READ, READ NEXT, START, WRITE, REWRITE | the position is an index into an array that changes; the array has to stay sorted | an ordered keyed store with browses | `IndexedFile`, `KeyedFile` |
| Generated rounding, `backend` | work fields, the receiver, the size error | COMPUTE or DIVIDE, tie test, step of the last place | five of the seven modes are built out of truncation, exact excess and a signed step, in fields of limited width | the mode's own rounding, or a reported overflow, and no false alarm | `RoundedResult` |
| Generated calls in expressions, `backend` | one result field and one set of parameter fields per function, the failure register | moves, PERFORM, test, reading the results | calls come first and the expression later; the fields are shared by all calls of a function | an expression has its own value | `CallsInExpressions` |
| Generated queues, `backend` 6059-6352 | for each manager the connection handle and a count of opens, for each queue its handle; the manager's unit of work | connect, put, get, disconnect, failure, handler | one connection shared by count, any call may fail, MQDISC commits | the count is the truth; no handle dies; a failed body publishes nothing | `MessageQueues` |
| Interpreter's control flow, `machine` | CALL stack, performed ranges, sort work, SORT-RETURN, the declarative flag, statement count | PERFORM, GO TO, CALL, EXIT, GOBACK, STOP RUN, SORT, RELEASE, file failure | control leaves by exceptions through frames that each owe something; two registers belong to the machine and not to a frame | what a frame owes is given back; failed sorts give nothing; every run ends | `Interpreter` |
| Flow rules, `typechecker`, `file-outcomes` | none outlives a walk | four walks of a program's tree | trees are walked once, programs run in loops | accepted programs do not go wrong when they are run | `StaticFlow` |
| Language server, `packages/language-server` | bytes of an unfinished message, open documents | chunk | messages split at any byte | the messages sent, once, in order, at once | `MessageFraming` |
| Lowering, `ir` | none outlives a call | findFailingFunctions, blockCanFail, blockPostsToLedger | decides which transactions are wrapped | as part of `GeneratedStep` (`CanFail`, `KnownToPost`) | partly |
| Typechecker, semantic analysis, the rest | none | checks | its rules are what the models may assume | rules appear as assumptions: BANK-TXN-009, BANK-SQL-008, BANK-SQL-011, BANK-FILE-003 | - |
| Parser, AST, COBOL structured form, precompiler, formatter, copybook, diagnostics | none | functions over text and trees | - | their properties are about strings, better served by the repository's own tests | - |
| Rest of the backend (CICS, IMS, JSON, XML, JCL, layout, listings) | none of their own | text per statement | - | no protocol beyond the one above | - |
| Other stubs (`BANKAUDT`, `BANKJSON`, `BANKXML`, `CBLTDLI`, `DFHEI1`, `DSNHLI`) | scripted answers | - | doubles of IBM services for tests | - | - |
| CLI and driver, linters, verifier, zunit, horizontal validation, migration analysis, playground, site | files and pages | offline tools | - | no state outlives a run | - |

### How they interact

- A generated program **calls** the ledger with an operation, an account and an
  amount; the ledger answers nothing, and remembers what to undo.
- A generated routine **performs** another and looks at the failure register
  when control comes back; this register, the return code and the file flags are
  shared by every routine of the program.
- The cursor loop, its body, a checkpoint in the body and the tests below it all
  **share SQLCODE**.
- A checkpoint writes the **restart file**, which no unit of work covers, and
  then commits **Db2**, and a rerun of the job reads the file again: the two
  stores only meet across runs.
- The interpreter's statements share the **file object**: mode, position and
  status are left by one statement for the next one to find. Its programs share
  **SORT-RETURN** and the flag that says a declarative is running.
- All queues of a manager share its **connection**, and their messages the
  connection's unit of work, which is not the ledger's.
- All calls of a function share its **result field** and its parameter fields.
- The typechecker and the semantic analyzer **accept** a program by its tree; the
  backend and the interpreter then run it by its paths.

`PROJECT.json` lists the hazards that follow from this, each at its line, with
the properties that cover it or the reason none does. Related ones share
an entry, and smaller consequences are told with their model in section 2.

## 2 Modules and how they correspond to the code

Each module's opening comment says which variable is which field, and which
variables are observers: history the properties need and no action's guard on
the program's own choices reads. `PROJECT.json` gives the lines of every
definition.

| Module | About | Composition |
|---|---|---|
| `BankLedger` | the ledger program between and during calls | `BankLedgerProofs` extends it |
| `UnitOfWork` | abstract: all of a transaction's postings or none | - |
| `GeneratedStep` | one run of a generated step | implements `UnitOfWork` (`AllOrNothing`) |
| `KeyedFile` | abstract: a set of records and a browse in key order | - |
| `IndexedFile` | the interpreter's indexed file | implements `KeyedFile` (`IsKeyedFile`); `InterpreterProofs` extends it |
| `CursorLoop` | one cursor loop against Db2 | `GeneratedStatementsProofs` extends it |
| `CheckpointedBatch` | a job over several runs | `CheckpointedBatchProofs` extends it |
| `RoundedResult` | one rounded value, stored | `GeneratedStatementsProofs` extends it |
| `CallsInExpressions` | one statement with calls in its expression | `GeneratedStatementsProofs` extends it |
| `MessageQueues` | the queue statements of a step, and its queue managers | `MessagesProofs` extends it |
| `Interpreter` | the frames of the interpreter | `InterpreterProofs` extends it |
| `StaticFlow` | the flow rules, and the programs they accept, run | `StaticFlowProofs` extends it |
| `MessageFraming` | the decoder of the language server | `MessagesProofs` extends it |
| `NaturalSets` | lemmas: least and greatest members, induction, recursive functions | the proofs of the ledger, the interpreter and its files, the messages, the flow rules and the generated statements extend it |

Parts that share nothing are checked in one run where that keeps the project
small: `MCGeneratedStatements` (what the backend expands), `MCKeptState` (what keeps
state between calls, statements, chunks or runs) and `MCFilesAndQueues` (what a
program does with files and queues) have one variable that says which part an
initial state is of, step that part by its own next-state relation and leave the
variables of the others alone. Nothing is
composed by this; each invariant is about its own part.

### BankLedger

`Debit` and `Credit` are APPLY-POSTING followed by WRITE-BALANCES (99-120,
164-182), one step each, since a call runs to its end. `Rollback` is
`BeginRollback`, any number of `ReverseOne` and `EndRollback`, one step per turn
of the PERFORM VARYING (124-139), because FIND-ACCOUNT, performed inside the
loop, assigns the loop's own WS-INDEX and whether the loop ends is a question of
its own. `Stored` is what a PIC S9(16)V99 field keeps of a sum: its low-order
digits. `disciplined` is an observer: it stays TRUE while the callers post to each
account once, as a transfer between two accounts does. The journal, written and never read, is
left out. So is the 201st account: what an overrun of the 200-slot table
overwrites is a matter of storage layout.

### GeneratedStep

A program is a record chosen once in `Init`: which kinds of failure each of its
places (body, function, sort procedure, handler) and its declaratives can meet,
which places call and sort, whether it posts, has a handler and takes a PARM.
That is exactly what decides which statements the backend emits around it.
`CanFail` is lowering's analysis (`ir` 1747-1845), including what it does not
look at; `FailureSeen` is the wrapper emitted only for a transaction that can
fail (`backend` 2125-2143, 4275-4339). Checks are taken by kind and not one by
one: each of them is emitStepFailure with its own reason. The ledger is taken at
its word here (ROLLBK undoes the unit); `BankLedger` is about whether it does.

*Leaving.* `Jump` is the generated GO TO (`failureExit`, 5618-5625): to the exit
of a body or a function, and from a handler, a sort procedure or a declarative,
which have none, to BANK-ABEND (`Abend`, 2160-2181). `AfterCall` is the test at a
call site (7256-7268).

*Sort procedures.* Their checks set SORT-RETURN and run on (`GiveUpSort`;
`FailInProcedure` for those without a file), and `EndFailedSort` is the test
behind the SORT. Two statements do not follow: a `raise` sets the register and
runs on (`RaiseInProcedure`), and a loop leaves. Neither emitWhileStatement
(4665-4671) nor emitCursorLoopStatement (8755-8769) asks where it is, so a loop
that fails is a `FailCheck` there too (`Leaving`). `LeaveCursorLoop` is the other
half of 8766-8767: the test looks at the register and not at what the loop met.
The generated part of a procedure is `SortOpens`, the statements for each record,
and `SortCloses` (5104-5222), one file at a time, which `held` keeps; it raises
no flag. A source OPEN or CLOSE in a procedure does, and moves the flag when it
failed as well, because its check runs on.

*Files and the end.* A `CLOSE` that fails elsewhere leaves before its flag is
reset, so cleanup tries again. `CleanUpFile` is one file of emitOpenFileCleanup,
in BANK-MAIN or in BANK-ABEND, and `End` the GOBACK.

*Declaratives* run between a failed I/O statement and the test of its status.
What one that completes has done the routine could have done just before, so
only one that is left is a step: `DeclarativeFails` in the program, `CleanUpAgain`
in the cleanup, which begins again in BANK-ABEND with the flag still up. It is taken
to call and sort nothing. An XML handler section (6430-6475) is MOVEs and STRINGs,
in which nothing fails, and has no step. A GO TO out of a running sort or
declarative is taken to arrive, as it does under GnuCOBOL; IBM's manual does not
allow it of a sort procedure.

`Disciplined` programs are those whose sort procedures raise and call nothing,
whose handlers call nothing, and which have no cursor loop where the register
already has a code (a declarative, a sort procedure of a handler). `Contained`
ones have, besides, no loop in a sort procedure and no declarative that fails, so
their failures stay inside the wrapper, and `Wrapped` ones have a wrapper too. The
compiler asks for none of it; each property names the programs it is about, and
section 5 says what the others do.

### IndexedFile and KeyedFile

`records` is the interpreter's array, `position` the index its file object
keeps, `status` the FILE STATUS field. Each action is one statement with every
outcome the code has for it: `Open*` is openFile by mode (1829-1876), `ReadKey`
and `ReadNext` executeRead (1906-1987), `Start` executeStart (2094-2168),
`Write` and `Rewrite` executeWrite (1989-2083), which looks at no mode.
`Outcome` is setStatus and afterIo, and so says whether the USE procedure runs;
`Reported` is setStatus alone. `pending` is an observer: the least key the
browse still owes. `KeyedFile` has no order and no position at all, only
`store` and `from`; the refinement maps `store` to the set of records and `from`
to `pending`.

The interpreter keeps *any* REWRITE and *any* WRITE; three specifications say
what the program that uses it does. `Spec` allows everything. `KeepingSpec`
rewrites only the record just read and leaves its key alone, which COBOL itself
requires of a REWRITE in sequential access. `OrderlySpec` also writes only while
no browse is under way.

### CursorLoop

Translated from emitCursorLoopStatement (8613-8769). A loop is a record: its
bound, rowset size, start, direction, and what its body does to SQLCODE. Db2 is
external: it answers 0, a warning, +100 or an error, and in some errors loses
the cursor. `Sound` loops are those whose answers nothing else can spoil: the
body runs no SQL of its own, FETCH gives no warnings, and a bound on a rowset
loop is a number of full rowsets.

### CheckpointedBatch

Translated from emitRestartStatement (4759-4818), emitCheckpointStatement
(4723-4756), the loop (emitWhileStatement, or the cursor loop) and the failure
paragraph (4275-4335). One step per statement that can be cut off from the next
by a crash: the count, the WRITE of the position, the COMMIT. With SQL the
postings are in Db2's unit of work, as the checkpoint's own comment takes them
to be; without SQL they stand at once and ROLLBK reverses all of the run's.
External: Db2 commits what a program that ends normally leaves behind (also one
that ends with 12), a job can die at any statement, and the operator reruns it.
`Sure` jobs commit, roll back when they fail, and have a restart file that does
what it is told.

### RoundedResult

Translated from emitRounded, emitRoundingAdjustment and emitCompute (7503-7785).
Every value is in units that make it an integer: the exact result is *n/d* last
places of the receiver, with *d* a power of ten for a product and the divisor
for a quotient. A field is a limit, `Held` is what it keeps of a value stored
without ON SIZE ERROR, and `Fits` the test ON SIZE ERROR makes. `StepSign` is
the direction of the step and `TakesStep` the test of each mode, by the excess of
a product or by the remainder of a quotient. `IsRounding` is the reference: it
says what each mode means of *n/d* and knows nothing of excess and steps.

### CallsInExpressions

`CallsIn` is emitCallsIn (7182-7286): the moves and performs generated ahead of an
expression, as a sequence. `Rendered` is renderExpression, which reads result
fields, and `Meaning` the reference, which evaluates the calls. A frame of
`active` is the code of one routine that is left to run; `Return` is the end of
a performed range and the test of the failure register after it. Operators are
one operator that tells its operands apart. Recursive functions, contained ones
and record parameters are left out: the first two keep the same fields, for
each invocation.

`Takes` and `Returns` are the program's functions: how many parameters each has
and the expression it returns. `Expressions` are the trees up to `CallHeight`, where
a call counts as higher than the body it runs; that no function calls itself, by
whatever way, is therefore `CallAssumption`, and what an expression is laid out as,
renders as and means are recursive functions over these trees.

### MessageQueues

Translated from emitQueueStatement and emitMqFailure (6059-6352). `opens` is
BANK-MQM-n-OPENS, `Connects` the test for zero that decides about MQCONN,
`LastOut` the one that decides about MQDISC, `CountedOut` with the floor at
zero. Each of MQCONN, MQOPEN, MQPUT, MQGET, MQCLOSE and MQDISC can fail, which
in the body leaves for the wrapper and its handler, in the handler for the end of
the step, and in a sort procedure nowhere. `link` and `work` are the queue
manager's, and external. How a program uses its queues is a record (`Style`).

### Interpreter

One frame for each JavaScript function that is active (`invoke`, `performRange`,
`executePerform`, `executeSort`, `afterIo`), and one action for each way control
moves between them. GO TO, EXIT PERFORM, GOBACK and STOP RUN are exceptions:
`Unwind` does what the `finally` of each frame on the way does. What a program
says is left open, so that any statement may come next where COBOL lets it
stand. `failedIn`, `failedOut` and `mixed` are observers of a sort.

### StaticFlow

A program is a tree of reads, rewrites, uses, branches and loops over one file.
`Blocks[n]` are the trees of height *n* and less: a block is one higher than the
arms of its first statement and what follows it, so a walk of a block is a
recursive function, from lower blocks to higher ones.
`WalkBlock` is the walk of `file-outcomes` (444-640), `ReadBeforeUpdate` that of
reportUnreadFileUpdates, `ValuesGuarded` that of collectGuards and
`EndsOnEveryPath` that of validateBlock (`typechecker`). The same tree is then
run, as a stack of what is left of each block entered: conditions that are not presence tests go either way, so every path of the
tree is a behaviour, and `wrong` collects what happened on it.

### MessageFraming

`OneMessage` is a turn of the loop of MessageDecoder.push (405-435), `Decode` as
many turns as there are bytes, which is as many as can do anything, and one push
is one step. A line end is one byte and a length line another, since a cut
inside either leaves the decoder as one before them would. `Handed` is the
reference: it knows the frames, and says which of them are all there and are
JSON. `FramingAssumption` says what a client sends: the length it gives is its
body's, and what it sends without a length has no header inside. It leaves
frames without a length and bodies that are no JSON in.

## 3 Runs

| Run | Parts | Distinct states | Question | Result |
|---|---|---|---|---|
| `kept_state_all` | ledger: `FairLedgerSpec`, 3 accounts, table of 4, balances of 3 values, 5 postings; batch: `FairBatchSpec`, 4 rows, intervals 1-3, bounds 2, 3 and 6, 2 crashes, 2 failures; file: `OrderlySpec`, 3 keys, 2 values; frames: 2 programs of 2 paragraphs, 8 frames, 5 statements; decoder: sessions of 3 frames of 7 kinds, chunks of 1-8 bytes | 636 054 | what can be relied on of what is kept: the tables and a rollback; what a rerun may repeat or lose; is the array a keyed file; is everything given back on every way out; are messages put together | holds: the table remembers everything until it is full, the digits kept are true, and a rollback of a disciplined run restores and ends; sure jobs repeat nothing and lose at most an interval per crash, wrapped ones without SQL repeat at most an interval per crash, all of those that reach a checkpoint finish; the file implements `KeyedFile`; sorts, CALLs and declaratives are what is on the stack, a failed sort gives nothing and says so, runs end; messages are those sent |
| `ledger_rollback_restores` | `LedgerSpec`, 2 accounts, table of 3 | - | "ROLLBK reverses every posting since the last ROLLBK" | **violated**, see 5 |
| `step_all` | `FairSpec`, programs of six shapes, 2 files, 4 nested routines, 2 postings | 869 018 | the failure protocol, and whether a wrapped transaction is a unit of work | holds: of disciplined programs, no failure ends with 0, the first one is the one reported, nothing posts while it is in flight, only failures leave early; of every program, it gets out and the files are closed but that of a sort procedure that was left; a wrapped transaction whose failures stay inside is all or nothing and its handler runs |
| `step_step_only` | `Spec`, programs whose only failures are checks | - | "Every failure reaches it, whatever raised it" | **violated**, see 5 |
| `step_sort_loop` | `Spec`, loops in sort procedures | - | "A transaction that posted to the ledger before failing gets a "ROLLBK" call" | **violated**, see 5 |
| `step_handler_ends` | `Spec`, loops in handlers | - | BANK-ABEND is where "a failure with nowhere else to go ends the step" | **violated**, see 5 |
| `statements_all` | cursor loops: every kind, sets of 0-4 rows, bounds 1-5, rowsets of 2 and 3, starts -5 to 5; rounding: fields of one digit, operands up to 105, divisors of both signs; calls: 13 functions in 12 groups of three, expressions of 3 levels | 296 439 | do loops deliver and end; is a rounded value the mode's; does an expression with calls have its own value | holds: loops read everything if sound; roundings are right up to the last step; calls that keep apart read their own answers |
| `cursor_rowset_bound` | `Spec`, rowset loops | - | "The bound stopping the loop is a result set the program did not finish reading" | **violated**, see 5 |
| `rounding_overflow_stops` | `RoundSpec` | - | "Any computation that can overflow carries ON SIZE ERROR" | **violated**, see 5 |
| `checkpoint_position` | `BatchSpec`, sure jobs, 1 crash, 1 failure | - | "a restart that finds a position can trust that everything up to it is durable" | **violated**, see 5 |
| `files_and_queues` | `KeepingSpec` of the file, OPTIONAL, no USE procedure; flow: about 43 000 small programs of height 5 at most, each from both initial values; queues: 3 queues on 2 managers, every style | 563 937 | does a write in a browse keep the order; do accepted programs go wrong; is the count of opens the truth | holds, with the conditions named in the properties |
| `flow_no_stale_record` | `FlowSpec`, loops after a tested read | - | "it is an error to use the record it filled ... with the outcome still outstanding" | **violated**, see 5 |

**Why the bounds are enough.** The ledger's table (500 in the code) is filled
and passed within the five postings, and balances of three values are
overflowed by the second of them. Three keys let a record fall before, between
and behind others, and an index outside both ends. Result sets of 0-4 rows are
below, at and above each bound, and rowsets of 2 and 3 do and do not divide
them. A row interval of 1-3 against 4 rows puts the last checkpoint at the end
and before it, with one, two and three rows to an interval, and two crashes put one of them in the rerun of another. Four
levels of nesting hold a sort inside a function inside a function inside the
body; with two files one can be open in the body while a sort procedure has the
other. The six shapes of program (`MCGeneratedStep`) are every failure within the
discipline, loops in sort procedures and handlers, declaratives that fail, none of
the discipline kept, failures lowering does not count, and failures only in a
function, each with and without postings and a handler. Operands of -24 to 24 over divisors of -4 to 4 and 10 have every remainder
and every tie on both sides of zero and of each other, and those around 100 are
just inside and just outside the field. Three functions at a time, one of which calls
none, let a result be overwritten by a sibling call and by a call two routines
down, and expressions of three levels put a call in an argument of a call in an
argument. Three queues on two managers have two that share a connection and one
that does not. Eight frames hold a sort in a called program inside a sort
procedure. Flow programs have two levels of branches with statements before,
inside and behind them. Three frames put one that cannot be read before and
behind ones that can. The invariants proved in section 4 hold without these
bounds.

**Named bounds.** `MaxCalls`, `MaxRecords`, `MaxDepth`, `MaxPosts`, `MaxRows`,
`MaxCrashes`, `MaxFailures`, `MaxOpens`, `MostFrames`, `MaxChunk`, `FlowHeight`, `CallHeight`:
none of them is in the code. `MaxPostings`, `limit`, `StepLimit`, `MostCalls` and the limits
of fields are. Queues and managers are symmetric in `files_and_queues`, where
nothing but equality is asked of them; no run with a temporal property uses
symmetry.

**Fairness.** A generated program is one thread that runs on, so fairness is
weak fairness of its next statement. In the ledger part of `kept_state_all` it covers the statements of
a ROLLBK that was called. In `step_all` it covers only the steps the program is
forced to take: leaving a routine it has jumped to the end of, the wrapper, and
the cleanup. That is what `FailureUnwinds` needs, of programs whose declaratives
do not fail: a CLOSE whose declarative fails starts the cleanup again, and may do
so without end. Nothing is assumed of what a
body chooses to do. In `statements_all` it covers the cursor loop's own
statements and the end of its body's turn: a body that never ends is not the
loop's failing. In the batch part it covers the program's statements and the
rerun of a job that died or failed, which is what a checkpointed job is for
(`docs/language/batch.md`); crashes and failures are never assumed to stop, they
are bounded by `MaxCrashes` and `MaxFailures`. In the frames part it covers the
machine's next statement: JavaScript does not stop in a loop, and whether the
loop ends is the question.

**Deadlock.** Checked for the ledger in `ledger_rollback_restores`, since it is always
ready for another call. Everything else ends, alone or as one of the parts of a run,
so those configurations turn it off; the liveness properties say that nothing else stops
the loops, the failures, the jobs and the interpreter.

**Jobs left out of `kept_state_all`.** A job that does not roll back, and whose
bound stops every run before its first checkpoint, posts its first rows on every
rerun without end (`MCCheckpointedBatch`): its state space is infinite, and what
it does is described in section 5.

## 4 Proofs

Every theorem below is checked by TLAPS for all values of the constants that
satisfy the module's assumption. An assumption is what the compiler's own checks
or COBOL's data descriptions guarantee; TLC evaluates each on every run.

| Module | Theorem | For | Says |
|---|---|---|---|
| `BankLedgerProofs` | `LedgerTypeOK` | `LedgerSpec` | types, so that no access leaves the tables |
| | `LedgerKeptDigitsTrue` | `LedgerSpec` | an overflow loses whole multiples of the capacity and nothing else |
| | `LedgerTableRemembers` | `LedgerSpec` | until it is full, the table of postings sums to what was applied since the last ROLLBK |
| | `LedgerTransferRestores` | `LedgerSpec`, of disciplined runs | ROLLBK restores every balance |
| `GeneratedStepProofs` | `StepTypeOK`, `StepFilesClosed` | every program | types; no file is left open but by its own CLOSE, or in a sort procedure that was left |
| | `StepProtocol`, `StepFailureNeverEndsClean`, `StepFirstFailureKept`, `StepOnlyFailuresLeave`, `StepNoPostingInFlight` | every program, of disciplined ones | the protocol and its safety consequences |
| | `StepPostingsUndone`, `StepWrappedHandlerRuns`, `StepAllOrNothing` | every program, of `Wrapped` ones | a transaction is a unit of work |
| `GeneratedStatementsProofs` | `LoopTypeOK`, `LoopRowsInOrder`, `LoopBoundHolds` | every loop | the right rows in the right order, within the bound |
| | `LoopSoundReadsAll` | every loop, of sound ones | what is not read is reported |
| | `RoundedTypeOK` | every width, mode and operand | fields keep to their pictures |
| | `RoundedOnlyTheLastStepWraps` | the same, of operands that fit | what is stored without a report is the mode's rounding, or the step carried out of the field |
| | `RoundedNoFalseAlarm` | the same | a report means no rounding of the result would have fitted |
| | `CallTypes` | every program of functions that do not call themselves | each routine's code and what the fields hold |
| | `CallsAnswered` | the same, of statements whose calls keep apart | the statement stores the value of its expression, or fails and stores nothing |
| `CheckpointedBatchProofs` | `BatchTypeOK` | every job | types; ROLLBK never takes back what is not there |
| | `BatchNothingTwice`, `BatchFailuresLoseNothing` | every job, of sure ones | no row twice; failures alone lose nothing |
| | `BatchLossBounded` | every job, of sure ones | a crash loses at most an interval |
| | `BatchReworkBounded` | every job, of those that roll back and have a file that works | a crash repeats at most an interval |
| `InterpreterProofs` | `InterpreterTypes`, `EveryFrameGivesBack` | any programs, paragraphs and depth | types; sort work, declarative flag, calls and LOCAL-STORAGE are those of the frames on the stack, so each way out gives them back |
| | `FailedSortGivesNothing`, `FailedSortIsAnswered` | the same, of sorts no other sort ran inside | a failed input procedure leaves nothing to return; SORT-RETURN says so when the sort is over |
| | `FileTypeOK` | indexed files: `Spec` | types: the position is always in the array |
| | `FileKeysAscending` | `KeepingSpec` | the array stays sorted, no key twice |
| | `FilePositionCuts`, `FileEndOfBrowse`, `FileIsKeyedFile` | `OrderlySpec` | the position is the browse; end of data is the truth; the interpreter implements the keyed file |
| `StaticFlowProofs` | `FlowTypeOK` | any set of programs, of any height | what is left to run is a stack of blocks of the tree, none empty |
| | `FlowUpdatesFollowReads`, `FlowValuesArePresent`, `FlowFunctionsReturn`, together `FlowAcceptedGoRight` | the same, of those a rule accepts | no rewrite without a read, no absent value taken, no function without a result, on any path |
| | `FlowNoStaleRecord` | the same, of those whose loops test what they read | nothing uses a record, overwrites an outcome or ends with one untested |
| `MessagesProofs` | `QueueTypeOK` | every program, any queues and managers | types, the floor of the count included |
| | `QueueNoHandleDies`, `QueueCountedIsConnected` | programs without queues in sort procedures | no open queue loses its connection; who skips MQCONN has one |
| | `QueueCountIsOpen` | of those, the ones that connect no queue twice | the count is the number of open queues |
| | `QueueTidyCommitsTogether` | tidy programs of one manager | a failed body has published nothing |
| | `FramesDelivered` | every session of proper frames, chunks of any size | messages are those of the frames, in order and as soon as they are whole |

### The arguments

**Ledger.** Types need only `NoRepeats`: an account has one slot, so
there are no more slots than postings while the table has room. `KeptDigitsTrue`
is arithmetic modulo the capacity: what a COMPUTE stores differs from what it
was given by a multiple of it (`StoredKeepsDigits`), and the sum of multiples is
one. `TransferRestores` speaks of the end of a loop, so the invariant has
to say what is still to be done in the middle of it. `Owed`: the balances differ
from the opening ones by exactly the postings not yet reversed, those up to the
count between calls and those up to WS-INDEX within the loop. `Aligned`: posting
*i* belongs to the account of slot *i*. It is `Aligned` that makes FIND-ACCOUNT
put WS-INDEX back where it was, and that repeated postings destroy.
`TableRemembersUntilFull` is inductive with the types once it is said of the
middle of a reversal too (`TableHasAll`). What needs work is the sum: that it
exists (`SumsExist`), and that a posting put behind the others adds its amount
and changes no earlier term (`SumsAgree`, `OneMoreRemembered`).

**Rounding.** `Towards` says what truncation leaves: an excess smaller than a
unit, on the side away from zero. From it alone `StepRounds` derives, mode by
mode, that the step taken gives the rounding `IsRounding` describes, and
`OneRounding` that there is only one, so that a result which does not fit leaves
none that does (`NoneFits`). The statement's invariant carries `Towards` from the
truncation to the step. `HeldFits` is the last line of the argument: an
unguarded store keeps what fits and takes the first value that does not to
zero, which is the exception in `OnlyTheLastStepWraps`.

**Calls.** The statement is one sequence of lines, but what it does depends on
routines that run in the middle of it, so the argument is about what the rest of
a routine *would* do. `Does` says what a line makes of the fields, a PERFORM being
anything the function promises (`Answers`: its result is what its body means for the
arguments it was given, no field is touched but those of what it runs, and
nothing it runs raises), and a `Path` is a memory after each line. `CallsPrepare` is
the heart of it, by induction on the height of the expression: if its calls keep
apart, every path through the code emitCallsIn lays out ends with result fields
from which renderExpression reads the meaning. It needs that moving an argument
waits for all the arguments' calls (`ArgumentsAreReady`, `MovesFill`), and that no
function runs itself (`NoneRunsItself`), so that a call does not overwrite the
parameters of the routine that makes it. `FunctionsAnswer` closes the circle: the
body of a function with calls apart keeps the promise. The inductive invariant
then has, besides types and where each routine is in its own lines
(`RoutinesRunTheirLines`, `StatementEndsLast`, `StoredWhenUsed`, which TLC can
evaluate), `PromisesKept`: for every routine entered, on every path of
its remaining lines, from the fields as they are for the innermost one and as the
routine above it promises for the others, its own promise holds at the end. A
step of the innermost routine takes the first line off its paths; a PERFORM puts
a function on top whose promise is `FunctionsAnswer`; a return makes the promise a
fact. `PromisesKept` speaks of every memory, so TLC cannot evaluate it.

**Queues.** `Counts` bounds a manager's open queues by its count, with equality
when no queue is connected twice, and has a counted manager connected. The
bound is the inductive part: a disconnect that brings the count to zero was the
only live queue's (`LastIsAlone`), so the MQDISC takes no handle with it. `Tidy`
adds that once the body's messages are committed nothing is left that could
fail in the body.

**Step.** `Protocol` is the inductive invariant, in three parts: `Nesting` (which
routine can be inside which), `Register` (while a body runs normally the register
is clear; a jump is always for a failure noted in that routine) and `Aftermath`
(a failure nobody handled is either still on its way out, or in the return code).
None of the properties is inductive alone: that nothing posts in flight, for
one, needs that a function which fails is always left through a tested call
site. Three lemmas say what most steps do to it: one that leaves
(`LeavingKeepsProtocol`), one that gives a sort up (`GivingUpKeepsProtocol`), one
that touches neither routines nor registers (`QuietKeepsProtocol`). `Undone` adds
the ledger's side, for `Wrapped` programs: once the outcome is settled a failed
body's postings are gone. It rests on `LeavingStaysInside`: only the handler of
such a program goes to BANK-ABEND. From both follows that every step is a step of
`UnitOfWork` or leaves it alone. `FilesClosed` needs only that a file that is open
has its flag up, is held by a sort procedure, or had a CLOSE fail. None of the
theorems assumes anything of the set of programs; the discipline is a condition of
the property, on the program that runs.

**File.** A search of a sorted array is the search of a set: `FirstIsFirst` and
`LastIsLast` characterise the two searches by minimum and maximum, from the
well-foundedness of the naturals; `InsertedRecords` says what an insertion does
to every index. With `KeysAscending`, positions and keys are in the same order
(`Ordered`), so a cut of one is a cut of the other, which is
`PositionCutsAtPending`. The refinement takes the two together, statement by
statement.

**Loop.** `Places` are the program's own variables, `Delivered` ties them to the
rows the body has had (within a rowset: rows taken = position - rows + index - 2),
and `Complete`, for sound loops, says what SQLCODE still means when it is tested:
either it is +100 and everything was delivered, or it is 0 and the bound has
been reached. A bound that is a number of full rowsets is needed precisely where
a counter passes from one rowset to the next (`NextMultiple`).

**Batch.** `Behind`: a durable row is durable once and is not beyond the position.
`Ahead`: the open unit of work is, up to the row the loop is on, and none of it is
durable. `Covered`, as long as nothing crashed: every row up to the loop's is
durable or in the unit. A crash between the position and the commit keeps the
first two and breaks the third: the code is safe against repetition and not
against loss, and the proof shows which line decides it. `Reversible` carries
the types of jobs without SQL.

**Interpreter.** None of the properties is inductive. That an exit finds what it
gives back is `FramesInv`: a call is followed by the range of its body
(`CallsRunBodies`), so a statement always has a range to leave for; the *k*-th
call on the stack is the *k*-th that is counted (`CallsInOrder`), so what a
GOBACK takes off both is the same program's; and a sort belongs to the program
that runs it, which has no other (`SortsAreOwn`, `WorkIsOwned`), so the work a
`finally` drops is nobody else's. `AnswersHeld` adds that SORT-RETURN stays set
while the sort that set it is on the stack, unless another sort ran inside. Every
way of leaving keeps a bottom part of the stack as it was (`KeepsBottom`); what that
alone gives is shown once (`StepInside`) and the actions differ in where they
cut.

**Flow.** A walk is defined by recursion on a tree, and what such a definition
says is available only once a function that satisfies it is shown to exist.
`RecursionExists` does this for any functional that looks only at members of
lower rank, by applying it once more than there are ranks; `Height` is the rank
of a block, `WalksExist` says that there is such a function for each of the walks,
and `WalksAgree` that there is one only. `TreeInduction` is induction on the same heights, over a set of blocks
instead of a predicate.
What the walk said of the body becomes an invariant of the stack. *Reads*: before
the first read every block on the stack is `Covered`, since entering an arm or going
round a loop only ever pushes what the walk has been through. *Values*: a block that
takes the value unproven is on the stack only while the field has one and neither
it nor anything above it fills the record (`ValuesCovered`): it is the branch of a
presence test, and `GuardsLast` says that it does not read. *Ends*: some block on the
stack ends on every path (`SomeEnds`), because a statement that is not the last one
is an effect or a guard clause, which leave the block they are in on the stack.
*Outcomes* need the walk to be carried along: `Accounts` gives, for each block on
the stack, whether an outcome may be owed where it starts, such that walking it
from there reports nothing and hands over to the next; the real `owing` is no more
than that (`Settles`). A step of the run is a step of the walk because what has been reported
stays reported (`ReportsStay`), and a loop comes round because a body without a read
owes no more at its end than at its start (`OnlyReadsOwe`, `ComesRound`). That is
the place where a loop that reads and does not test fails, in the proof as in the
code.

**Decoder.** `Decoder` places it: *k* frames have been handed on or skipped
(`All`), the *k*+1st is not all there (`Ready`), and the buffer is the bytes from
`Cut` on. `Cut` is not simply where a frame ends. Of a frame without a length
only the header is dropped, and its body goes to the front of the next header;
`Rest` is what was left of it. A turn then either waits (`TurnWaits`), drops a header
(`TurnDrops`) or takes a frame (`TurnTakes`), each by where the first two line
ends of the buffer are (`HeaderFound`, `NoHeaderYet`) and which length line is
the first (`HeaderRead`). A turn that does something takes a byte at least, so there
are turns enough to be behind every whole frame (`Decodes`). `HandedSoFar` says
that the reference, which goes by bytes arrived, has then come to the same.

**What a crash costs.** Both bounds count sets, and both rest on `Apart`: the
rows a run is ahead of its position are at most an interval, and they are the
open unit of work. Losses are then immediate: the rows behind the position that
are neither durable nor in the unit (`Lost`) only ever shrink, except by a crash,
which adds the unit. Rework needs a set that a rollback does not disturb.
`Repeated` holds a pair for every posting that stands beside a first one and for
every posting of a row the run has still to come to; posting a row and reversing
one *shift* these pairs, one to one (`ShiftedPairs`), so that their number grows
only at a crash, by the rows since the position.

### What is only model-checked

- Liveness: `RollbackEnds`, `FailureUnwinds`, `LoopEnds`, `JobCompletes`,
  `RunEnds`. The proof system does not reach liveness under fairness, nor
  ENABLED.

Every safety invariant and action property that a passing run checks is stated by a theorem
as well. No module a theorem is in or rests on uses RECURSIVE.

Some theorems state what no run checks: the type invariants other than those of
`step_all` and of the file in `kept_state_all`, `Protocol`, `PostingsUndone` of
`Wrapped` programs, `EndOfBrowse` and `CountedIsConnected`. They are steps of the proofs, or follow
from a property a run does check (`PostingsUndone` from `AllOrNothing`,
`EndOfBrowse` from `IsKeyedFile`), and were left to the prover. `FramesGiveBack`
and `AcceptedProgramsGoRight` are conjunctions of three parts each, stated apart
in their modules.

## 5 Where code and documents disagree

Eight runs end in a violation, on purpose: each states what a comment or a
document promises, and shows a behaviour of the code that does not keep it.

1. **`ledger_rollback_restores`.** APPLY-ROLLBACK counts WS-INDEX down, and
   FIND-ACCOUNT inside the loop moves it to the slot it found
   (`runtime/BANKLEDG.cbl` 126 and 144). Two postings to the first account: the
   reversal takes the second, finds slot 1, goes on from 0, and the first posting
   stays. The header (14-15) says every posting is reversed.
2. **`step_step_only`.** Lowering wraps a transaction when it raises or guards a
   computed subscript, or calls what does (`ir` 1788). A program whose failures
   are all size errors, I/O statuses, queue or SQL checks has no wrapper: its
   handler never runs and its postings stay. `docs/error-handling.md:107` says
   "Every failure reaches it, whatever raised it".
3. **`step_sort_loop`.** A `while` that exhausts its bound and a cursor loop that fails
   do not ask whether they are in a sort procedure (`backend` 4671, 8766-8767), and
   its section has no exit (2202-2207): they go to BANK-ABEND out of the running
   sort. The wrapper of the transaction does not get to see the failure, its
   postings stay and its handler does not run. `docs/error-handling.md:107-108` says
   a transaction that posted before failing gets a ROLLBK, and the comment at 389-391
   that BANK-ABEND is reached only from declaratives and XML handlers.
4. **`step_handler_ends`.** The end of a cursor loop takes any code in the register for
   its own (8766), and in a handler the register has the failure being handled. So a
   handler ends at its first cursor loop, in BANK-ABEND, although nothing in it failed;
   the comment at 387 says that paragraph is for a failure with nowhere else to go.
5. **`cursor_rowset_bound`.** +100 comes with the last partial rowset, so when the
   bound is reached inside it the test `counter >= limit AND SQLCODE = 0`
   (`backend` 8756) is false and the rest is dropped silently. The comment above
   it says the bound stopping the loop is a set not finished reading.
6. **`checkpoint_position`.** The position is written before the COMMIT (`backend`
   4746), to a file no unit of work covers: a crash in between leaves a position
   ahead of the work, and the rerun starts behind rows that were never posted. The
   comment at 4719-4721 says the position can be trusted.
7. **`flow_no_stale_record`.** The body of a `while` is walked once, from the state
   before the loop (`file-outcomes` 617-619). A loop that uses the record and then
   reads again, with the test behind the loop, is accepted, and its second turn
   uses a record nobody tested. `docs/diagnostics.md:767-770` says using it is an
   error. `NoStaleRecordWhereLoopsTest` is what does hold.
8. **`rounding_overflow_stops`.** ON SIZE ERROR is on the statement that truncates,
   and the step after it is a plain ADD (`backend` 7678): -99 / 10 to the even, in
   a field of one digit, truncates to -9, steps to -10 and is stored as 0, with
   nothing reported. `docs/generated-code-standards.md:59` says any computation
   that can overflow carries the phrase. `OnlyTheLastStepWraps` says that this is
   the only way a result goes wrong.

Others were met while the models were written, and are kept here as prose: the
models contain them, and the properties are stated around them.

*Ledger.* The posting after the last slot of the
table is applied and cannot be reversed (104-106). The accounts keep their slots
over a ROLLBK and the postings do not, so in the next unit of work the first posting
can belong to the second slot: its reversal sets WS-INDEX to 2 (144), the loop counts
it down to 1, and the same posting is reversed again, for ever. `RollbackEnds` is of
disciplined runs, and says nothing of this.

*Calls in expressions.* The property is of calls that keep apart; these do not.
- A function has one result field, so `f(a) + f(b)` and `f(g(a), g(b))` read the
  second answer twice, and so does `g(a) + f(b)` where `f` calls `g` (`backend`
  7274, 9100). `docs/language/functions.md:160-161` says that "nested calls are
  ordered so inner results are ready before the outer call runs", and
  `docs/numeric-model.md:135` that every call "has already run and left its
  answer in a result field". A recursive function has the field for each
  invocation, and `fib(n - 1) + fib(n - 2)` the same fault.
- An `if` in a function, a `while`, a `switch` and the operands of `debit`,
  `audit` and a return code are rendered without making their calls (8826, 4639,
  4555, 4505): they read what the function answered last. Calls below a string or
  numeric builtin, a subscript or a member are not made either (7284). The
  comment at 4663-4664 takes it that a `while` with a call cannot be written;
  neither the typechecker nor lowering rejects it.
- Both sides of `&&` and `||` are called, so a call that fails fails the statement
  whatever the other side says.

*Rounding.* DIVIDEND and DIVISOR are filled without ON SIZE ERROR (7555), so a
computed operand can lose digits before the division. In a sort procedure the
statement goes on after a size error with whatever the work field held.

*Queues.*
- In a sort procedure a failed MQ call sets SORT-RETURN and its statement runs on:
  a queue that did not open is counted (6120).
- A body that fails after its last disconnect has published its messages, and a
  handler that disconnects publishes the failed body's:
  `examples/mq-request-reply` says "the answer and the ledger posting commit
  together or not at all".

*Interpreter.* SORT-RETURN is the machine's: a procedure that fails and then
CALLs a program with a sort of its own has its failure forgotten (`machine` 1043).

*Flow rules.* A nullable proven present by an `if` counts as present in the whole
branch, a read in the branch notwithstanding (`typechecker` 2443). The rule for
DL/I updates is a third walk of the same kind, with other statements it goes
into (7542).

*Failure protocol.*
- A program that is not wrapped ends with 12 and keeps its postings
  (`docs/error-handling.md:107-108`).
- A call in a sort procedure is not tested (`backend` 7266, against
  `docs/error-handling.md:66`); a raise in the sort procedure of a transaction
  that otherwise cannot fail ends the step with 0 (`docs/error-handling.md:113-115`).
- A handler may not raise (BANK-TXN-009) but may call a function that does. Its
  call sites do not test the register, so that failure is swallowed
  (`docs/language/transactions.md:92`). Because the register still holds the
  failure being handled, a function called by a handler that itself calls
  another leaves half way, with nothing having failed.
- A CLOSE that fails in the cleanup after a successful body ends the step with
  12 and keeps its postings.
- A declarative that fails goes to BANK-ABEND wherever its file's statement was, so
  the wrapper and the handler are skipped as by `step_sort_loop` (`backend` 5613-5616 says
  so of the jump, and `docs/error-handling.md:104-106` not of the handler). In the
  cleanup it begins the cleanup again with the flag still up.
- A source OPEN that fails in a sort procedure raises the flag all the same (6659),
  and the cleanup's CLOSE of that file is then the next failure.
- The files of a sort procedure are opened by its generated part, which raises no
  flag (5110, 5174). When control leaves the procedure for BANK-ABEND, as by
  `step_sort_loop` or by a declarative, the cleanup closes the flagged files and not
  this one, against the comment at 4926-4927 ("The operating system must not become
  the file-lifecycle policy"). `FilesClosed` says that this is the only file left.

*Files.*
- REWRITE stores a record with a changed key where it stands (`machine`
  2030-2036) and so breaks the order of the array.
- A WRITE moves the position behind the last record (2075-2078), so a browse
  that was under way reports end of data early (`docs/language/files.md:308-309`).
- A CLOSE of a file that is not open sets 42 without the USE procedure
  (`docs/language/files.md:285-286`).

*Cursor loops.*
- The paging example of `docs/language/sql.md:245` ends with 12,
  `LOOP-EXHAUSTED`, whenever more rows follow the page; so does a result set of
  exactly `limit` rows.
- SQL in the body changes what the test below the loop reads; a warning from a
  FETCH ends the loop without a failure.
- A raise in the body leaves with the cursor open.

*Checkpoints.*
- A job that cannot raise is not wrapped, so a failed run ends with 12 and no
  ROLLBK: Db2 commits rows beyond the position, and the rerun posts them again
  (`examples/branch-accrual-cursor` has this shape).
- Neither the WRITE nor the REWRITE of the position is tested, and the COMMIT
  follows a failed one; a READ of the position that fails for another reason
  than a missing key is taken for a first run.
- Without SQL, ROLLBK in the run after a checkpoint reverses postings the
  position stands for.
- The position is never removed, so the next job's run begins behind it.
- `examples/end-of-day-settlement` says "RESUMING AFTER" and its posting loop
  starts at the top of its file.

## 6 Not modelled

- **Text and trees.** Parser, AST, most of the typechecker, of lowering and of
  the backend, the COBOL structured form, precompiler, formatter, copybooks,
  diagnostics and linters are functions whose inputs and results are text or
  trees, and whose properties are about that text. The repository checks them by
  golden files and by running what they produce; a model would be another
  implementation of them. They are by far the largest part of the code, which is
  why the models cover a small share of its lines: what is modelled is what has
  state, order or failure.
- **Data.** Storage layout, pictures, USAGE, encodings and decimal arithmetic of
  the interpreter. Where a width matters it is a limit (`Stored`, `Held`).
- **Declaratives that call or sort**, and what one that completes does beyond what its
  routine could have done itself.
- **CICS, IMS, JSON and XML statements**: one statement at a time, checked after
  each by the status checks that `GeneratedStep` takes by kind. The step with a
  loop, queues and the real ledger in one model is not composed: the parts meet in
  the failure register, the kinds of failure and the ledger's interface, and each
  module takes the others at their word there.
- **Sequential and relative files** of the interpreter, and its EXEC statements.
- **The language server's documents**: a map from a name to the last text.
- **Command line, offline tools, playground and site**: no state outlives a run,
  or it is the page's.
