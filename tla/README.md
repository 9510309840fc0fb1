# TLA+ models of the transactional YCSB / TPC-C benchmark client

This directory holds TLA+ models of the benchmark driver in `src/`, the
TLC configurations that check them, and `PROJECT.json`, which lists:
- the components and runs;
- the mutants, the mapping from each definition to its source lines, and the findings;
- the hazards.

## The system

The program is a benchmark driver for a transactional key-value store (SplinterDB). Its parts:

- **Run harness** (`src/YCSB-C/ycsbc.cc`). `main` splits a phase's operations among the threads. `DelegateClient` (YCSB) and `DelegateTPCCClient` (TPC-C) run one worker thread each, in one of four loops:
  - the load loop (one insert per iteration);
  - a fixed number of transactions (`num_ops`);
  - a maximum transaction count;
  - a timed phase. The workers share the atomic counter `global_num_clients_done`, and every worker loops until that counter reaches the number of workers.

  After each iteration `ProgressUpdate` adds to the shared `global_op_counter`. In percent mode, a thread whose addition crosses a percent boundary spins until `*last_printed` is the previous percent, then prints its own.
- **YCSB transactional client** (`src/YCSB-C/core/client.h`). `DoTransactionalOperations` builds a set of operations, deduplicated by key. It then runs attempts (Begin, one store call per operation, Commit). An attempt that fails backs off and is retried, up to `max_txn_retry` times. At the end the client records the commit or abort latency, the number of retries and the commit count.
  - `TxnClient` (`txn_client.h`) replaces the builder with fixed per-kind counts.
- **Store adapter** (`src/YCSB-C/db/transactional_splinter_db.cc`). It maps each call to a SplinterDB transaction call:
  - a failing call answers `kErrorConflict`;
  - `Scan` always answers `kErrorNotSupport`;
  - `Begin` allocates the `Transaction` object and `Commit` deletes it.
- **TPC-C** (`src/YCSB-C/core/tpcc_workload.cc`, `src/benchmarks/core/tpcc_global.cc`):
  - relational rows are stored under composite keys `{table, key1, key2}`;
  - a loader fills the tables;
  - Payment and New-Order run either read-modify-write or blind upserts;
  - with upserts, the store combines pending deltas with `tpcc_merge_tuple` while it compacts. A customer's deltas are log fragments: a payment count and up to 16 payment records. Merging a fragment into the row writes one note per record into `c_data` for a bad-credit customer.
- **Workload configuration and generators** (`core_workload.cc`, `discrete_generator.h`). Each thread owns a `CoreWorkload`. All of them share one `BatchedCounterGenerator` for sequence keys. `main` sizes its batches (`sqrt(record_count)`, lowered so every thread gets one) and `InitLoadWorkload` makes each workload claim a first batch. `NextSequenceKey` hands out the batch's ids one at a time and claims a new batch with a fetch-and-add when it is used up; the load's `DoInsert` and the run's INSERT operations both use it. For each run workload, `main` calls `InitRunWorkload` on every thread's workload, which registers the operation kinds with a positive proportion in the weighted chooser `op_chooser_` and builds the key and scan-length generators. After the phase, `DeinitRunWorkload` clears the chooser and frees the generators.

How the parts interact:
- the harness drives one client per thread;
- each client calls the store through the adapter;
- under TPC-C, the store calls back into `tpcc_merge_tuple`.

## Modules

| Module | Models | State | Actions |
|---|---|---|---|
| `YcsbClient` | the shared key counter (`main`'s batch size, `InitLoadWorkload`, `NextSequenceKey`), the load loop's `DoInsert`, `Client::DoTransactionalOperations`, `GenerateClientTransactionalOperations` and `GenerateClientOperation*`, the fixed-count loop of `DelegateClient`, and the return codes and handle lifecycle of `TransactionalSplinterDB` | shared `cursor`; per thread: `nextId` and `batchRemaining` (its batch), `issued` (ids handed to it), `pc`, `built` (the set being built), `ops` (the set in iteration order), `idx`, `isAbort`, `retry`, `handles` (live `Transaction` objects), `abortCnt`, `txnCnt`, the sizes of the two latency series, `abortCntPerTxn`, the loop counter | `LoadInsert` (`DoInsert`), `LoadDone` (load threads joined), `StartTxn`, `BuildOp` (one draw of the build loop, deduplicated by key), `BeginTxn` (iteration order fixed, first Begin), `ExecOp` (one store call of the for-loop), `Commit`, `Retry` (abort, backoff, next Begin), `Finish` (record the outcome), `Exit`, `Terminated` |
| `DelegateClient` | the four loops of `DelegateClient` (the timed one is also `DelegateTPCCClient`'s), `ReportProgress`/`ProgressUpdate`/`ProgressFinish` in percent mode, and `main`'s split of `total_ops` among threads | the phase (`mode`, `totalOps`, per-thread `numOps`, `maxTxnCount`, `opsPerTxn`); per worker `pc`, `txnCnt` (iterations done), `elapsed`, `myPercent`, `ret`; shared `doneCnt`, `opCounter`, `lastPrinted`, and `printed` (the percent lines in output order) | `LoopTest`, `RunTxn`, `Report` (ProgressUpdate, its fetch-and-add and, on a crossing, the start of the spin), `PrintPercent` (the end of the spin and the print), `CheckTimer`, `Finish` (ProgressFinish), `Elapse` (wall-clock time, the environment) |
| `TpccKeys` | `wKey` … `hKey`, and the keys the loader (`init_*_table`) and the transaction bodies use | none: it defines the rows whose key another row, or a row the loader stored, shares | constant-level, used by `MC_TpccClient` |
| `TpccLedger` | what `run_transactions` promises: each thread finishes at most `g_total_num_transactions` transactions; a finished one took effect as a whole serial transaction (`TpccSerial`) and was counted in `commit_cnt`, or left no trace | `db`, per thread `finished` and `commits` | `TxnCommits`, `TxnGivenUp` |
| `OpChooser` | one thread's `CoreWorkload` across the run phases of `main`: `InitRunWorkload` (registration of the positive proportions in `op_chooser_`, the key and scan-length distributions, which throw on an unknown name), `DiscreteGenerator::AddValue`/`Next`/`Clear`, `DeinitRunWorkload` | the build (`ndebug`), `values`, `total` (`sum_`), `last` (`last_`), `keyGen`, `phase`, `config`, `pc`, the last draw (`drawn`, `chooser`, `fell`) | `InitRunWorkload`, `ChooserNext`, `DeinitRunWorkload`, `Stopped` |
| `TpccRows` | the keys, initial rows and transaction parameters that `TpccClient` and `TpccSerial` share | none | none |
| `TpccSerial` | the effect of `run_payment` and `run_new_order` when each runs alone: the abstract specification of the TPC-C client | `db` | `RunTxn` (one whole transaction) |
| `TpccCustomer` | one CUSTOMER row under Payment: the `CustomerLogFragment` write, the two CUSTOMER merges of `tpcc_merge_tuple` (fragment into fragment with the 16-record cap; fragment into row with the `snprintf` note loop, `strncat` and `memcpy`), and the read-modify-write path | `base` (the merged row: payment count, `c_data` as a list of chunks, credit, highest byte the note loop wrote), `pending` (fragments), `rmwRow`, `paid` | `Pay`, `MergeUpdates`, `MergeIntoRow`, `Quiescent` |
| `TpccStock` | one STOCK row under New-Order: the blind upsert and the two STOCK merges of `tpcc_merge_tuple` on one side, the read-modify-write path on the other | `base` (the merged row), `pending` (the update messages not yet merged), `rmwRow` (the row read-modify-write would hold), `lines` | `WriteLine`, `MergeUpdates` (two adjacent deltas), `MergeIntoRow` (oldest delta into the row), `Quiescent` |
| `TpccClient` | `TPCCClient::run_transaction` / `run_transactions`, `TPCCWorkload::run_transaction`, every store call of `run_payment` and `run_new_order` in both modes, and the warehouse/district/customer/stock merges of `tpcc_merge_tuple` applied at commit | `db` and `ver` (committed rows and their versions), per thread `pc`, `txn`, `idx` (next store call), `orderId`, read set `rs`, write set `ws`, `needRetry`, `retry`, the per-type `attempts` and `aborts`, `abortCnt`, `commitCnt`, the two latency sample counts, the loop counter; ghosts `paid` and `ordered` (committed payments and orders per district) | `StartTxn` (init and first Begin), `ExecCall` (one store call, with its early conflict return), `Commit` (validate and install, or conflict), `Retry`, `GiveUp`, `Committed`, `Exit`, `Terminated` |
| `TxnOpBuilder` | `TxnClient::GenerateClientTransactionalOperations` | one workload configuration | constant-level |

Each `MC_*` module gives the constants their values:
- keys and most threads and workers are model values; `YcsbClient` and `DelegateClient` number their threads `0..N-1`, because `main` gives thread `i` its share and its first key batch by index;
- no run of `YcsbClient` uses symmetry: its threads are not interchangeable (see above), and it checks liveness.

How the store and the data are abstracted:
- **TpccClient's store** is an optimistic (TicToc) store, as the spec describes it: a read records the version it saw, writes are buffered in the transaction, and commit validates the read versions and installs everything atomically. This part is modelled from the spec, because the store is not in `src/`. Any store call may also answer a conflict.
- **TpccClient's bodies** are lists of store calls (`PaymentCalls`, `NewOrderCalls`). Each list has the same calls, in the same order, as the C++ body. A read-then-`Insert` pair of the read-modify-write mode is one `RMW` call, which may conflict at the read or at the write. Loaded YTDs start at 0 instead of 30000, an offset no property depends on. New-Order has one item.
- **The store is the environment.** Every transactional store call may answer OK or Conflict, and Commit may answer either.
- **Keys and values** are model values.
- **Latencies** are kept only as the number of samples in each series.
- **`c_data`** is a C string kept as a list of chunks: a note of some payment, or the loaded text. Only the byte length and the order of the chunks are kept. Each note is 31 bytes, the length the format gives for ids and amounts of the configured ranges. The `size_t` size argument of `snprintf` is computed modulo 2^30 instead of 2^64; every value above the buffer size behaves alike.
- **Progress output** is the sequence of percentages printed. Only percent mode is modelled: hash mode prints `#` without waiting, and no-progress mode prints nothing.
- **The backoff sleep** is only a delay, so it is not modelled.

## Runs

| Run | Expect | What it shows |
|---|---|---|
| `ycsb_client` | pass | `IdsConserved`: the ids handed out by the shared counter, in the load and in the run, together with the unused rests of the threads' batches, are exactly `[start, cursor)`, each once (spec section 3). `AllThreadsFinish`: under fairness every thread returns; every build loop completes its set, and every transaction ends within `max_txn_retry + 1` attempts, also when a SCAN makes every attempt fail. `AbortsAccounted`: `abort_cnt` equals the retries recorded in `abort_cnt_per_txn` plus the failed attempts of the transaction in progress. `OutcomeMatchesRetries`: a transaction lands in the abort series exactly when it used all `max_txn_retry+1` attempts, and `txn_cnt` equals the commit series. |
| `ycsb_handle_leak` | violation | `OneHandlePerAttempt` fails: a failed store call breaks out of the loop without `Commit`, so the `Transaction` from `Begin` is never deleted. |
| `delegate_client` | pass | Two threads in each of the four loops, with `ops_per_transaction` 1 and 2 in the run phases. `TypeOK` includes the overshoot bound: the done-counter stays within `2N-1`. `PercentsAccounted`: whatever order the threads' fetch-and-adds and spin waits take, the lines printed are 1, 2, 3, … and every later percent up to the shared counter's is held by exactly one spinning thread; with no thread spinning, the last line is the counter's percent. `AllWorkersStop`: under fairness every thread returns, including from its spin waits. |
| `delegate_client_all_deadlines` | violation | A single worker past its deadline adds 1 on each iteration, reaches `N` alone, and stops the other before its deadline. |
| `tpcc_client` | pass | Two threads on one district, conflicts anywhere, both modes. `YtdConserved`: `w_ytd`/`d_ytd` equal the committed payments. `OrderIdsDense`: `d_next_o_id` advanced once per committed New-Order and exactly the ids up to it have order rows. `StockCounted`: `s_order_cnt` counts committed lines. `AttemptsAccounted`: attempts, per-type aborts, commits and latency samples add up. `LedgerRefined`: the run refines `TpccLedger` (see Refinement). `KeysInjective`: no row the committed tables hold shares its store key with any other TPC-C row. `LoadKeysCollisionFree`: nor with a different row the loader stored. The loader stores NEW_ORDER rows under `noKey(oid, did, wid)`, with the arguments swapped, but that key collides with nothing the client holds. |
| `tpcc_history_overwrite` | violation | `HistoryRowPerPayment` fails: `hKey` depends only on the customer, so a second payment by the same customer overwrites the first History row. |
| `tpcc_stock` | pass | With every merge order the store may choose, the row's counters plus the pending deltas equal the read-modify-write counters, and `s_quantity` stays at least 10. |
| `tpcc_stock_associativity` | violation | Ten lines of 10 merged into one delta turn `s_quantity` 19 into 101, while read-modify-write gives 10. |
| `tpcc_customer` | pass | Seventeen payments to one customer, merged in every grouping. `PaymentsConserved`: the row's `c_payment_cnt` plus the pending counts equal read-modify-write's. `FragmentLogNewest`: every fragment keeps its newest payments, newest first, up to 16. `NoteWithinBuffer`: the note loop never writes past `c_new_data[500]`. |
| `tpcc_customer_note` | violation | `NoteMatchesRmw` fails: after one payment to a bad-credit customer, read-modify-write has prepended a 31-byte note, but the merged row's `c_data` is unchanged. `snprintf` gets size `c_new_data - start`, which is 0 for the first record. Later records land after the first NUL, so the string stays empty. |
| `op_chooser` | pass | Two run phases, every 0/1 proportion vector, valid and unknown distribution names, both assert builds. `DrawMatchesReference`: `DiscreteGenerator::Next`'s subtract-and-compare loop returns exactly the kind whose cumulative weight interval holds the draw, boundaries included. `DrawsCurrentPhaseKind`: when the phase's proportions have a positive sum, every kind drawn has a positive proportion in that phase, so nothing registered in an earlier phase leaks in. `TypeOK` includes `sum_` equal to the sum of the registered weights. |
| `txn_builder_size` | violation | Rounded per-kind counts do not add up to `ops_per_transaction`, so the builder's `assert` fails. |

## Bounds

- **`YcsbClient`**: 2 threads, `record_count` 6 (batch size 2, three rows per load thread), `operationcount` 7 with 2 operations per transaction (one transaction for thread 0, two for thread 1, as `main`'s integer division gives), `max_txn_retry = 1`, the kinds READ, SCAN and INSERT, and one request key.
  - Each load thread uses up its first batch and claims a second one, in either order, and leaves one id of it unused; the run's INSERTs use it and claim more batches. This is the interleaving the counter must survive.
  - READ and SCAN on the one request key collapse into one operation, so the build loop also takes draws that add nothing; INSERT always adds a fresh id.
  - The bounds reach the first retry, the give-up after the last retry, a conflict at each operation and at Commit, the Scan reply, and a second transaction after a give-up.
  - 363k states, about 35 s with the liveness check. Two request keys and UPDATE take 1.9M states and 2.5 minutes without coverage; two transactions for both threads take 1.3M states.
  - A thread is handed at most its load share plus one id per operation of its transactions (`MaxIssued`). This bound never binds; it only stops a builder that loses operations from drawing ids forever.
- **`DelegateClient`**: 2 threads; a timer passes by a worker's third transaction (`MaxIter = 3`).
  - Load, `num_ops` and `max_txn` loops use 101 operations, split 50/51 (`max_txn`: 50 transactions each). `sync_interval` is 1, and nearly every operation crosses a percent, so both threads spin behind each other throughout. Run phases take `ops_per_transaction` 1 and 2; with 2, `main` divides each share by 2 and multiplies the `max_txn` total by 2, so the phase ends at 50%, as described below.
  - The timed loop uses `total_ops` 100 and 2000. At 2000, `sync_interval` is 2, so odd transactions are not reported and `ProgressFinish` adds a remainder.
  - 200k states, about 10 s. Three threads exceed ten minutes.
  - An elapsed timed worker gets at most N more transactions. It signals on each, so this bound never binds; the same state count with and without it confirms this. It only cuts off the runaway loop of a worker whose signal is lost.
- **Key encodings** (in the `tpcc_client` run): 2 warehouses, all 10 districts, 3 customers per district, 3 items, and order ids 1, 2101 and the ids New-Order assigns (3002..3005). The loader writes orders up to 3000. These cover:
  - every boundary of each encoding (first and last district and customer, adjacent warehouses);
  - a loaded new order (id > 2100);
  - adjacent order ids, where a wrong order-line multiplier shows.

  The client's item is 2, so that a stock key with its arguments swapped names another stock row. The collisions are computed once for the rows the client can hold (about 70), against all rows in these ranges.
- **`TpccStock`**:
  - the pass run uses 3 lines with every quantity 1..10, and loaded quantities at the restock boundaries 10, 11, 19 and 20, plus 55 and 100;
  - the associativity run needs a delta above 91, so it uses 10 lines of quantity 10 on a row loaded with 19 (the one initial state, so every run reports the same trace: 19 becomes 101 where read-modify-write gives 10).
- **`TpccCustomer`**: 17 payments (one past the 16-record cap), credit GC or BC, loaded `c_data` of 300 or 500 bytes. The note run needs 2 payments. 1.3M states, about 70 s.
- **`TpccClient`**: 2 threads on warehouse 1 (symmetric), 1 district, 1 customer, 1 item, amount 1, `max_txn_retry = 1`, 2 transactions per thread, both values of `use_upserts`. This reaches two Payments or two New-Orders racing on the same district, warehouse, customer and stock rows, an abort at each call and at commit, a retry and a give-up, and two sequential payments by one customer (1.9M states, about 3.5 min with the refinement check and coverage).
- **`OpChooser`**: two run phases, proportions 0 or 1 for each of the five kinds (all 32 vectors, the all-zero one included), and the draw on a grid of 4 values. A grid of 4 against weight sums 1 to 5 puts draws both on and strictly inside interval boundaries. The distribution names are valid ones or an unknown one. 9,765 states.
- **`TxnOpBuilder`**: 1 to 4 operations, and proportions in steps of 25%.

## Fairness

- `DelegateClient` and `YcsbClient` check liveness. Each worker is an OS thread that keeps being scheduled, so its own steps are weakly fair.
- In `YcsbClient`'s build loop a draw may add nothing (its key is already in the set). The request key chooser returns every key with positive probability, so a draw of a key not yet in the set eventually happens while one is left. `BuildFresh` (a draw that grows the set) is therefore weakly fair; it stays enabled until it is taken. Without this, a behaviour that draws the same key forever would be a counterexample that no real run has. The store's answers have no fairness: a store may conflict every time, and the retry bound still ends the transaction.
- Wall-clock time keeps advancing, so `Elapse` is weakly fair as well.
- A spinning thread's `PrintPercent` stays enabled once the previous percent is printed, because nothing else changes `*last_printed`. Weak fairness is therefore enough.
- In `DelegateClient` the phase really stops when every thread has returned, so the runs say `CHECK_DEADLOCK FALSE`. Any other stop, such as a thread spinning forever, violates `AllWorkersStop`. `YcsbClient` keeps deadlock checking: its `Terminated` step is the only way to stop.
- The other modules check safety only.

## Refinement

`TpccLedger` is what `run_transactions` promises, seen from outside:
- each thread finishes at most `g_total_num_transactions` transactions, one at a time;
- a finished transaction either took effect on the committed tables exactly once, as a whole Payment or New-Order running alone (`TpccSerial`), and was counted in `commit_cnt`;
- or it was given up and left no trace.

The store calls, the retries and the attempts abandoned midway are hidden.

`TpccClient` instantiates it with a refinement mapping (`Ledger == INSTANCE TpccLedger WITH ...`):
- `db` is the client's `db`;
- `finished` is the loop counter `i` of `run_transactions`, plus one for a thread whose transaction has committed but not yet left `run_transaction`;
- `commits` is `commit_cnt`, plus the same pending one.

The `tpcc_client` run checks `Ledger!Spec` as a property (`LedgerRefined`). Every step of the detailed model therefore either changes nothing the ledger sees, or is one whole serial transaction that is counted, or ends a given-up transaction with the tables untouched. This holds for store calls, retries and commits in both upsert modes, including the commit that applies the merge deltas.

A mutant whose `Commit` ignores the validation result installs a conflicting write set and breaks the refinement.

## Not modelled, and the plan

Not modelled yet:
- New-Order with several items, where stock rows of one order can coincide.

Observed but not checked by a run (the project has as many runs as it can hold, and each of these is plain from the code):
- With every proportion of a run workload 0, `InitRunWorkload` registers nothing, and `DiscreteGenerator::Next` falls through to `assert(false)` (`discrete_generator.h:79`). In an `NDEBUG` build it returns `last_` instead: uninitialised in the first phase, and the previous phase's kind after that, because `Clear` leaves `last_`. Spec section 4.2 calls a zero total a fatal configuration error, but the code never checks it. `OpChooser` reaches both outcomes: `pc = "abort"`, and `fell` with a stale `drawn`.
- A run workload's `threads` property may exceed `threadcount`. `wls` has `num_threads` entries, and `main` indexes it up to `num_run_threads - 1` (`ycsbc.cc:610-615`, `683`).
- With `recordcount` 0, `batch_size = sqrt(0)` is 0, and `record_count / batch_size` (`ycsbc.cc:538`) divides by zero before the clamp to 1.
- `TransactionalSplinterDB::Update` and `Insert` assert `values.size() == 1` (`transactional_splinter_db.cc:173`, `196`). But the client builds `field_count` values for an INSERT and for an UPDATE with `write_all_fields`, so with more than one field the debug build aborts.
- `Client::DoTransactionalOperations` treats the `kErrorNotSupport` that `Scan` always returns (`transactional_splinter_db.cc:163`) as an abort and retries it (`client.h:296`), while spec section 7 calls it a hard failure. `YcsbClient` models this path. The `ycsb_client` run shows that such a transaction still ends after `max_txn_retry + 1` attempts, so no thread hangs (`AllThreadsFinish`).
- With batches, the load leaves holes (`core_workload.cc:142`). A load thread whose share is not a multiple of the batch size leaves the rest of its last batch unused. With `record_count` 6 and two threads, id 5 is never loaded while id 6 is. The uniform request chooser draws keys in `[0, record_count)`, and `Read` of an absent key returns `kOK` (`transactional_splinter_db.cc:135-149`), so the run reads rows that do not exist without noticing. Spec section 8's "no gaps" holds only for a counter drained to the end. `MC_YcsbClient` reaches this state; `IdsConserved` accounts for the unused ids, which stay in the threads' batches until the run's INSERTs take them. Request keys are model values, so the read of a missing row is not represented.
- `main` runs `(end_op - start_op) / ops_per_transaction` transactions per thread (`ycsbc.cc:647`), dropping the remainder: `operationcount` 7 with two threads and two operations per transaction runs 3 transactions (6 operations), which the `ycsb_client` run uses.
- `cKeyToParams` (`tpcc_global.cc:49`) decodes with `% g_cust_per_dist` and `% DIST_PER_WARE` although ids are 1-based. Customer `g_cust_per_dist` decodes as customer 0 of the next district, and district 10 as district 0 of the next warehouse. Its only use is the bad-credit note, which `tpcc_customer_note` shows is never written.
- With `total_ops` below 100, one step of `sync_interval` 1 crosses two percents. `*last_printed + 1 != my_percent` then holds forever, and the thread spins (`ycsbc.cc:111`), as does every later crossing thread. With `total_ops` 0, `100 * old / total_ops` divides by zero.
- The load and `num_ops` loops pass the 0-based `i` to `ProgressUpdate`. They report `sync_interval` at `i = 0` and `ceil(num_ops / sync_interval)` times in all, and `num_ops` adds `num_ops % sync_interval` on top. With `sync_interval` above 1 and `num_ops` not a multiple of it, the counter ends above `total_ops`. The load loop adds no remainder. `total_ops` also counts `ops_per_transaction` operations per transaction while the counter counts transactions, so with more than one operation per transaction a fixed-count phase stops below 100% (at 50% with two). `DelegateClient` reaches this end (`opsPerTxn` 2); `PercentsAccounted` holds there, because the lines printed still match the counter, and no run states that a phase ends at 100%.

- `NURand` sets its constants `C_255`, `C_1023` and `C_8191` lazily (`tpcc_global.cc:139-148`), through `static` flags that have no synchronisation. Two TPC-C threads that call it first at the same time both see the flag clear, and each draws its own `C`. This is a data race: a thread can use one `C` while the other thread's value overwrites it, so the constant that TPC-C clause 2.1.6 requires to be fixed for the whole run is not. Checking this needs a violation run, and the project has no run left to hold it.
- `TxnClient`'s builder fills each kind's count with keys not yet in the set (`txn_client.h:20-68`). When the counts together need more distinct `(table, key)` pairs than the key chooser can return, a while-loop never ends. `TxnOpBuilder` checks only the final size. `YcsbClient` states the corresponding bound for `Client` as an `ASSUME`.

Not modelled, by choice:
- **The random generators and the TPC-C parameter generation.** Their distributions are out of TLC's reach.
- **Property parsing, statistics printing, NUMA pinning and SplinterDB internals.** These are I/O or not part of this repository.
