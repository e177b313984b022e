# A TLA+ verification of QBIT NOVA native

QBIT NOVA native (`src/` of this repository) compiles a small language to QBC bytecode and runs it
on a software VM, or a vector program on a GPU, behind an approval-first security boundary. This
directory holds TLA+ models of the parts that decide **whether a program may run, how often and on
whose word** (tokens, keys, the trust and revocation stores, the boundary, the replay ledger), of **how
files are written and read** while others use them, of **what a program becomes** (compiler, file format,
validator) and of **what runs it** (the typed scalar VMs, the way to the GPU and back). TLC checks them
on small instances. TLAPS proves the results about the ledger, the boundary, the files, the stores, the tokens,
the GPU path and the VMs for every number of processes, tokens, records and files, every machine and
every set of programs.

Contents: [inventory](#1-inventory-of-the-system), [modules](#2-modules),
[runs](#3-runs-what-is-checked-and-what-it-shows), [proofs](#4-proofs),
[findings](#5-findings), [what is left out](#6-what-is-not-modelled), [plan](#7-plan).

## 1. Inventory of the system

One command (`qnova run`, `exec`, `approve`, ...) is one sequential process. Components are C files
that call each other directly; there are no threads or callbacks. What makes the system hard is
what surrounds one command: **other commands** on the same files, an administrator editing those
files, the clock, crashes and failing system calls; and, inside, **orderings** (what is checked
before a single-use token is spent) and **static bounds** (what bytecode validation promises the VM).

| Component | Source | State | Operations | Hard behaviour | Correct means |
|---|---|---|---|---|---|
| Replay ledger | `replay_ledger.c` | one append-only file, an advisory lock, the directory entry | consume, contains | concurrent processes, creation race, torn writes, lost directory entry, capacity | a token is granted at most once, and durably; a lookup never forgets |
| Execution boundary | `main.c` (run, exec) | options, policy with approvals, decisions, exit status | pairing, approval, revocation, preflight, routing, consume, VM, receipt | order of checks against the single-use token; stores edited meanwhile | only authorised programs enter the VM, once per token; a refusal costs nothing |
| Capability guard | `guard.c` | a policy of four masks | select, evaluate, enforce | unknown capability bits | deny by default |
| Signed approval | `signed_approval.c` | a token file, key files | keygen, issue, write, read, verify | validity window edges, canonical encoding | only a genuine, in-window token for this very source approves |
| HMAC approval | `approval.c` | a token file, a key file | create, write, read, verify | as above | as above |
| Trust store | `trust_store.c`, `trust_store_file.c` | at most N issuers | add, resolve, parse, load | duplicates, limits, half-parsed files | transactional load, one key per fingerprint |
| Revocation store | `revocation_store.c` | sorted or unsorted entries of two kinds | add, parse, load, check | the same, and files changed while read | a failed load never means "not revoked" |
| GPU probe and routing | `gpu_adapter.c`, `gpu_routing.c` | a candidate, a route | probe, decide, route | device vanishes after the decision | no silent change of back end; what the probe accepts, the computation finds |
| GPU compute proof | `gpu_compute.c` | Vulkan objects, proof record | run, verify, clean up | failure at each of many steps | CPU and GPU agree or the run fails; everything is released |
| Bytecode | `qbc.c` | `QNBytecode` | encode, decode, validate contracts, step bound | checked cost arithmetic, call depth, jump targets, nine versions of the format | what validation accepts, the VM runs within the bound; a program has one file and a file one program |
| VM | `vm.c` | registers, frames, repeat counters, amplitudes | run scalar, functions, vector, quantum | u32 overflow, call depth 8, repeat bound | checked arithmetic; no run exceeds its static bound |
| Compiler | `lexer.c`, `parser.c`, `qir.c` | tokens, AST, QIR | lex, parse, build, lower | scopes of branches, slots, call depth, limits the decoder has and the compiler not | emits only contract-abiding bytecode that means what the source says |
| File utilities | `util.c` | output files | write in place, atomic publish, read | crash in mid-write, temporary-name collisions, torn reads | a published file is the old or the new one; a torn one is never taken for a whole one |
| Cryptography | `ed25519.c`, `sha256.c` | none | sign, verify, hash | none modelled | ideal |
| Reports | `vm.c` | none | print, receipt | none | formatting |

**How they interact.** `run`/`exec` load a program (compiler or QBC decoder), bind runtime inputs,
apply an approval (signed: token file, key file or trust store; or HMAC), check the revocation
store, run preflight (guard and shot limits), choose a route, consume the token in the replay
ledger, enter the VM, print and write a receipt. All sharing between commands is through files.

## 2. Modules

| Module | Models | Kind |
|---|---|---|
| `AttemptOnce` | what the ledger promises: recorded first, granted at most once, only ungranted records can be lost | abstract specification |
| `ReplayLedger` | `replay_ledger.c`, one action per system call | detailed specification, refines `AttemptOnce` |
| `CapabilityGuard` | `guard.c` | operators |
| `RunBoundary` | `run` and `exec` of `main.c`; EXTENDS `CapabilityGuard`, uses the ledger through an instance of `AttemptOnce` | detailed specification |
| `ApprovalToken` | tokens of `signed_approval.c` and `approval.c`: what is sealed, encoded, decoded, issued and verified; EXTENDS `CapabilityGuard` | operators |
| `TokenFiles` | the approval commands of `main.c` on shared key and token files, and `qn_write_binary_file` of `util.c`; EXTENDS `ApprovalToken` | detailed specification |
| `EntryStore` | `trust_store.c`, the parsers of `trust_store_file.c` and `revocation_store.c`, and the questions a store answers | operators |
| `StoreVersions` | what loading a store promises: nothing, or one whole version the file had meanwhile | abstract specification |
| `StoreFile` | loading a trust or revocation store and asking it, call by call; EXTENDS `EntryStore` | detailed specification, refines `StoreVersions` |
| `AtomicFile` | what atomic publishing promises: whole outputs, one step, a caller that reports success or dies | abstract specification |
| `AtomicPublish` | `qn_write_binary_file_atomic` and `qn_read_binary_file` of `util.c`, one action per system call | detailed specification, refines `AtomicFile` |
| `GpuCompute` | `gpu_adapter.c`, `gpu_routing.c`, `gpu_compute.c` and their callers in `vm.c` and `main.c` | detailed specification |
| `QirBuilder` | `qn_qir_build` and `qn_qir_lower` of `qir.c` for typed scalar programs, one step per statement; EXTENDS `QbcCodec` | detailed specification |
| `SourceMeaning` | what a source program computes, by name and recursion | reference definition |
| `U32Arithmetic` | the opcodes that compute, and what they compute modulo 2^32 | operators |
| `QbcContract` | the validator and step bound of `qbc.c`: contracts of plain, repeat, function and input programs; EXTENDS `U32Arithmetic` | operators |
| `QbcCodec` | `qn_qbc_encode` and `qn_qbc_decode` of `qbc.c`; EXTENDS `QbcContract` | operators |
| `FunctionVM` | `qn_vm_run_function_scalar` of `vm.c`; EXTENDS `QbcCodec`, since the VM encodes what it runs, and `ScalarMeaning` | detailed specification |
| `ScalarVM` | `qn_vm_run_typed_scalar` of `vm.c`; EXTENDS `QbcCodec` and `ScalarMeaning` | detailed specification |
| `ScalarMeaning` | what bytecode computes, by recursive functions, without frames, counters and jumps; EXTENDS `QbcContract` | reference definition |
| `ReplayLedgerProofs`, `RunBoundaryProofs`, `TokenFilesProofs`, `StoreFileProofs`, `AtomicPublishProofs`, `GpuComputeProofs`, `FunctionVMProofs`, `ScalarVMProofs` | theorems about the module each is named for | proofs |
| `MC...` | an instance of the module each is named for; the last three (`MCFunctionVM`, `MCScalarVM`, `MCQirBuilder`) also build the families of programs | model checking |

**Composition.** Components meet by contract. `ReplayLedger` implements `AttemptOnce` (checked and proved), and
`RunBoundary` performs ledger steps only as `AttemptOnce!Record`, `Grant` and `Forget`. `RunBoundary` asks each
store in one step; `StoreFile` implements `StoreVersions`, which is what justifies that step: a load that
succeeds returns one version the file had between its begin and its end. `RunBoundary` takes a token file as
a whole that is genuine or not; `ApprovedAsIssued` of `TokenFiles` is what justifies that. `GpuCompute` has the
outcomes of routing that `RunBoundary!Route` chooses from. The path of a program is followed from end to end:
`QirBuilder` ends with bytecode, `QbcCodec` stores and restores it, `QbcContract` validates it, the VMs run it, and
`SourceMeaning` and `ScalarMeaning` say what should come out.

### ReplayLedger

* A process makes one call. `pc[p]` names the next system call; each action is one system call with
  the code up to the next one, so processes interleave exactly where the kernel lets them.
  `open`, `create` are the two `openat` of `open_for_consume`; `lock` is `F_SETLKW`; `validate` is
  `validate_fd` and the two checks after it (it runs entirely under the lock); `header`/`headerTorn`
  and `record`/`recordTorn` are the two halves of `pwrite_exact`; then `fsync`, `dirsync` (creator
  only), `unlock`, `close`. `created`, `attempt`, `at` are the C locals.
* The file is a sequence of cells: cell 0 is the 6-byte header, cell *i* the *i*-th 65-byte record,
  `Torn` a cell only partly written. This keeps everything the code can tell apart: empty, header only,
  truncated or malformed, full records. `eof` is the size in cells; `synced` counts the cells that
  are on disk; `exists`/`entrySynced` describe the directory entry.
* Faults: each system call may fail (`Faults`). A process may be killed anywhere (the kernel then drops
  its lock and keeps its writes); power may be lost: any prefix of the unsynced cells survives, each
  possibly torn, and an unsynced directory entry may vanish (`EntryLoss`).
* `EntrySyncedByFile` says whether `fsync` of the file also makes its directory entry durable (journalling
  file systems such as ext4 do; POSIX does not promise it). `Preexisting` starts from an initialised ledger
  (the runs start without one; the proofs cover both).

### RunBoundary

* `pc[r]` is the stage of command `r`: `load`, `options`, `token`, `key`, `verify`, `revocation`,
  `preflight`, `route`, `consume`, `appended`, `vm`, `report`. `req[r]` is its command line: the options
  present, program, token file, key owner, shots, `--now`, back end and policy. A `Session` is a set of command
  lines that run together: the constant holds the sessions to look at, `Run` is the domain of the one chosen.
* A capability mask is a set of capabilities; `OtherCaps` stands for bits no version of the guard knows.
  The guard judges the mask a program *declares*. The validator requires that mask to be exact for scalar and
  vector programs; for a quantum program a QBC file's mask is taken as it is, so that one which declares
  none passes the guard under every policy. The properties therefore speak of declared capabilities.
* `--shots` is reduced modulo `ShotWidth` (2^32) as the cast in `parse_run_opts` does.
* The environment: `Tick` (clock), `EditTrust`, `EditRevocations` (administrator), `Crash`, `PowerLoss`.
* `clear` is history: at some moment of its life the command's token and issuer were not revoked.

### ApprovalToken, TokenFiles

* A file is a sequence of cells, the pieces a write may put on disk one after the other: scope, window,
  pieces of the context, seal. The seal names its key and the very cells it is computed over (ideal
  cryptography). A key has `KeySize` cells, so half a key, or a key of two halves, is something.
* `Plan(job)` is the files a command reads and writes, in its order; `stage[p]` is the place in it. `OpenToRead`
  measures, `ReadCell` takes one cell, `Loaded` is all the code does with the file once it is read.
  `OpenToWrite` cuts the file to nothing, `WriteCell` writes one cell where this writer is, `Hole` is what a write past
  the end leaves. `Fail` stands for a failing call, a refused command line and a killed process alike: the code
  keeps no state but the files.
* `Foreign` are tokens other tools sealed: genuine, with fields this program would not issue.

### EntryStore, StoreFile, StoreVersions

* A text is a sequence of units: the bytes of a line and the LF that ends it. `ParseText` reads line by line
  and adds entries as the C code does; `IsStore` and `EntriesOf` say without parsing which texts are
  stores and what they list.
* A file is an inode with a text; `named` is the inode the path names. The loader opens, measures, reads
  unit by unit and parses; the administrator replaces the file, removes it, appends a line and then its LF, or
  rewrites it in place, between any two of these steps. `Safe` are the revocation store's checks of the file.
* `seen[p]` is history: the versions the path held since the load began; `calm[p]` says that nobody rewrote the
  file in place meanwhile. A rewriting file can be read as a beginning of the new text, and if that ends with a
  line it is accepted: this is outside the promise, and `LoadsAsMeant` still holds of what was read.
* Loads only read, so they do not disturb each other; one loader is as good as many.

### AtomicPublish

* `pc[p]` names the next system call of a publisher: `open` (the loop over 128 names
  `<path>.tmp.<pid>.<attempt>`), `write`, `close`, `unlink` or `rename`, `renamed` (before the return).
  `ok`, `attempt`, `pid` are the C locals. A reader opens, measures (`fseek`, `ftell`) and reads.
* An inode is named by the publisher that created it, so a name can be followed to its owner; `Old` is
  the file that was there, `Stale` a temporary file an earlier, killed build left. `written[i]` counts
  writes in an inode and `synced[i]` those that are on disk.
* Publishers may share a pid (two containers; a pid used again).
* `Faults`: any call fails. `Kills`: a process dies anywhere. `PowerFails`: the directory goes back to what
  was last committed (`Commit`, when the file system sees fit), files keep at least what was synced.
* `shown` is a history variable for the refinement: what the destination ever named.

### GpuCompute

* One command: `run`/`exec`, `gpu compute-proof` or `gpu probe`. The probe is run by three callers (`caller`). The
  probe takes the candidate with the least device id (`Best`), the computation the first device enumerated
  (`Selected`), as the code does; they agree on whether there is one.
* `Ladder` lists the calls of `qn_gpu_run_vulkan` that create an object or may fail; `CallFails` is a failure of any of
  them, `Release` one step of the clean-up, in `ReleaseOrder`. `live` is what exists. `gpu` is the device, which
  runs, finishes or is lost on its own after `Submit`.
* Output words are still the poison, right or wrong. No barrier makes the shader's writes visible to the host, so
  `CompareOutput` may see the poison although the queue is idle.
* `MachineChanges` puts any other machine in place between any two steps; `steady` is history: the machine has been
  the same since the last probe began. `gaveUp` says that the wait failed while the GPU was still running.
* A loader library with the symbols the probe needs but not all the computation needs (`loader = "probe"`) is accepted
  by the probe and refused by the computation. `ProbeForesees` excepts it.

### U32Arithmetic, QbcContract, FunctionVM, ScalarVM

* One action per kind of instruction: `Const`, `Compute` (arithmetic and comparisons), `SetSlot`,
  `RepeatEnter`, `RepeatNext`, `Branch`, `Jump`, `Call`, `Return`, `Emit`, and `Halt` for END, a division by
  zero and a failed check. The checks the C code makes before it executes are the `Can...` operators;
  `status = "fault"` stands for every QN-E that a check reports in the middle of a run.
* `Load` runs the validator (`IsTypedScalarProgram`) and sets `bound` (`qn_qbc_execution_step_bound`).
* `FunctionVM.frames` are the C array of frames, reused by depth; a frame record has the fields of
  `QNFunctionFrame`. `repeat_active` is `repeat_remaining > 0`; SIZE_MAX is `None`.
* `ScalarVM` has flat arrays, does not check operands (the validator must), and keeps the *slot* it emits
  until END; `FunctionVM` keeps the *value*.
* `QbcContract` follows the validator: scans that carry the initialized and bool slots from a pc on (`BodyScan`,
  `MainScan`), the call graph (`CallChains`), the join over predecessors (`Flow`), and the static cost
  (`CostFrom`, `MainCost`). They are recursive functions, which can be proved about. Masks are sets of slots,
  the repeat count is one field `a` (two bytes in the code). Order of error messages is not modelled: a program is
  refused or not.

* `ScalarMeaning` defines the value of a program by recursion over its places: `MeaningFrom(bc)[<<pc, slots>>]` is what
  is returned or emitted from `pc` on with these slots. A call is the meaning of the function at the slots its
  arguments make, a repeat the `count`-fold application of its body (`InTurn`, `AfterTurns`), a division by zero
  `Undefined`. `ResultIsMeaning` of each VM compares its result with it.

### QbcCodec

* A file is a record: the header fields, the three sections and the size in bytes; a field its version has no
  room for is read as 0. `Version` is the encoder's chain of tests that chooses one of versions 3 to 9, `FileOf` what it
  writes, `Decodes` and `Decode` the decoder: sizes and limits, then every instruction against version and
  region, then the contract of `QbcContract`.
* Programs are as the decoder leaves them (`AsDecoded`): without functions and inputs the header has no room for the
  start of main, which is then 0.
* `Canonical(bc)` compares a program's file with all files that differ from it in one field or entry (`Variations`):
  no other decodes to this program. It matters because `run` re-encodes what it decoded to
  compute the digest that a token approves (`vm.c:162`).

### QirBuilder, SourceMeaning

* A source is what the parser returns: functions, inputs and statements. One action per kind of statement; `status` is
  where the builder is, `at` the path of the statement (index, branch, index), `slots` the scalars declared, `hidden`
  those of the first branch of an if while the second is built, `graph` the calls. `Lower` is `qn_qir_lower`.
* `BuiltIsAccepted` compares its result with `QbcContract`, `MeaningPreserved` the bytecode's `ScalarMeaning` with the
  source's `SourceMeaning` for every input.

## 3. Runs: what is checked and what it shows

| Run | Instance | Properties | Shows |
|---|---|---|---|
| `ledger_safety` | 3 processes, 3 tokens, 2 records; faults, crashes, power loss | `TypeOK`, `AtMostOnce`, `GrantedIsDurable`, `LookupNeverForgets`, `CreationRaceLostOnce`, `SyncedPrefixStable`, `ImplementsAttemptOnce` | safety of the ledger and refinement |
| `ledger_liveness` | 2 processes, 1 record, the same hazards, `FairSpec` | `EveryCallReturns` | no lock is kept, nobody waits for ever |
| `ledger_first_use` | 2 processes, no ledger yet, no faults | `ConcurrentCallsSucceed` (violated) | finding 1 |
| `ledger_entry_loss` | as safety, `EntrySyncedByFile` FALSE | `AtMostOnce` (violated) | finding 2 |
| `boundary` | 2 commands that may compete for a token, or 1 with any of about 500 command lines; clock 0..3, edits, crashes, power loss; 810,000 states | `OneEntryPerToken`, `RevokedNeverEnters`, `SpentOnlyPastPreflight`, `VmEntryAuthorised`, `PreflightForesees` | authority over all option sets, competition for tokens, nothing spent in vain |
| `token_files` | 3 commands: issuers into one file and a verifier, key generation and derivation beside users of the keys, requests against questions, foreign tokens; 782,000 states | `ApprovedAsIssued`, `OneFilePerApproval`, `IssuedIsHonoured`, `KeysBelongTogether` | in-place writing never makes an approval out of parts |
| `store_files` | 1 loader, 2 entries, 8 units, 2 inodes, texts of every kind; faults; 1.29 million states | `VerdictsStand`, `LoadsAsMeant`, `ImplementsStoreVersions` | a load is all of one version or nothing, and a failure is never a verdict |
| `publish` | 2 publishers, 1 reader, 2 pids, 2 names of which any are taken, 2 writes per output; faults, kills, power loss | `ReadsWhole`, `NamesOwned`, `NoLitter`, `ImplementsAtomicFile` | readers see whole outputs, names are never shared, every error path cleans up, and publishing is atomic |
| `gpu` | every command on machines with up to 2 devices that change at any time; any call fails; 135,000 states | `ReleasedInOrder`, `EvidenceIsTrue`, `ProbeForesees` | everything is released in order, no failure becomes a result, the probe is not refuted by an unchanged machine |
| `compiler` | 3,899 sources, most one mistake away from a right one; 27,000 states | `BuiltIsAccepted`, `MeaningPreserved`, `StoredAsCompiled` | builder and validator agree, meaning is kept, and files hold what was compiled |
| `vm_functions` | 77,000 initial states: branch, repeat, input and call families; 184,000 states | `CallersWait`, `OnlySelfArgumentFails`, `BoundIsExact`, `ResultIsMeaning`, `FormatIsExact` | validator and VM agree; calls, repeats and branches compute what they mean; one file per program |
| `vm_plain` | 34,000 programs: straight, division, repeat and branch families; 70,000 states | `SlotsInBounds`, `AcceptedNeverFails`, `BoundIsExact`, `ResultIsMeaning`, `FormatIsExact` | the unchecked VM is safe behind its validator; one file per program |

The type invariants of the other modules are `TypeOK` of each. All but that of `QirBuilder`, which documents the types
of its variables, are proved.

**Bounds.** *Ledger.* Two records with three tokens make the ledger fill up, so the limit is reached by one
process while another holds a record and a third is refused. Three processes are needed for the worst
chain found: a creator that dies, a consumer that is granted, a consumer after the power failure. Each
process makes one call because the program does; a second call by the same process is another process
to the ledger. *Boundary.* Two commands suffice to compete for a token or to retry after a crash,
and the clock's four values lie before, at both ends of and after a token's window [1, 2]. Permutations
of processes, tokens and commands are symmetries of the safety runs; the liveness run uses none.

*Tokens.* Three commands are two that write a file and one that reads it. Keys of two cells can be half of one and half
of another. A context of none or one piece makes one of the two files longer, so that a shorter token
written over a longer one, and the other way round, leave remains. Requests try the edges of the window (0, equal ends, `TimeLimit`), every
class of capability and every pairing of request and question.

*Stores.* `MaxEntries` 2 and texts of three entries fill the store and one more; `MaxUnits` 8 is the text of
a full store and one unit too many can be appended. Two inodes are the one that is open and the one that
replaces it; `MaxVersions` 2 lets the file change once during a load in a way the loader can see, and any number of
times before it. With 2 keys there are entries that agree in kind, in key, in both and in neither.

*Publishing.* Two publishers compete for a name, see each other's leftovers and overtake each other at the rename; with
stale files under any of their names they also run out of names. Two writes make a torn file visible.

*GPU.* Two devices are enough for the probe and the computation to choose different ones, for the right one to come second,
and for none to be right; each unsuitable device has one thing wrong.

*Bytecode and sources.* The families are skeletons whose operands, counts, slots and jump targets (names, branches
and tails in sources) range over one more than
what is legal, so most members are refused and the accepted ones are at every boundary: a repeat of 0 to
`MaxRepeat` + 1, targets inside and outside the function, operands equal and out of range, recursion, call
chains one deeper than `MaxCallDepth` 2 (8 in the code), and step bounds at `MaxSteps`. `MaxInstructions` is
reached by some sources of the compiler run. `Width` 4 stands for
2^32: subtraction, addition and multiplication all wrap. Compiler, validator, codec and VM do not depend on the
values of these limits other than by comparing with them.

**Deadlock** is not checked: every command, load, publisher, program and compilation ends, and then nothing is left
to do.

**Fairness.** `FairSpec` assumes only that a started process keeps taking steps (weak fairness of its
successful steps): the scheduler runs every process, and the kernel grants a blocked `F_SETLKW` once no
conflicting lock stays. Nothing makes a process start, fail or crash. Because each process makes one call,
a waiter cannot be overtaken for ever, which is why weak fairness is enough. The other components wait for nothing but the
GPU, whose queue may stay busy for ever (`vkQueueWaitIdle` has no timeout), so there is nothing to promise.

## 4. Proofs

No theorem relies on anything but the assumptions on constants, which TLC evaluates on every run.

**The replay ledger.** `ReplayLedgerProofs` proves, for every set of processes and tokens and every record limit:

| Theorem | Statement | Assumption |
|---|---|---|
| `TypeCorrect` | `Spec => []TypeOK` | none |
| `UniqueRecords` | `Spec => []NoDuplicateRecord` (proved, not run) | none |
| `ReplayPrevention` | `Spec => []AtMostOnce` | `EntryKept` |
| `GrantDurability` | `Spec => []GrantedIsDurable` | `EntryKept` |
| `SyncedPrefixKept` | `Spec => SyncedPrefixStable` | `EntryKept` |
| `Refinement` | `Spec => ImplementsAttemptOnce` | `EntryKept` |
| `LookupsRemember` | `Spec => []LookupNeverForgets` | `EntryKept` |
| `RaceLostOnce` | `Spec => []CreationRaceLostOnce` | none |

`EntryKept` says that the ledger existed at the start or that fsync of a file persists its directory entry;
without it `AtMostOnce` is false (finding 2).

None of the invariants is inductive alone. `IInv` adds what the code maintains between them: a process that
is past `lock` and before `close` holds the lock of its kind (`LockInv`, mutual exclusion); a writer has seen
that its token is not in the file and that its append position is the end of the file (`AppendInv`,
`WriteInv`), which no one else can change while it holds the lock; file cells beyond `eof` are blank and the
synced prefix is within the file (`FileInv`); and a process about to report success has its record in
the synced prefix and nobody was granted it (`GrantInv`). Each action has a lemma that it preserves `IInv`;
`Inductive` collects them, and the temporal theorems follow by PTL. `IInv` itself was also checked with TLC.

Two invariants on top of it: a token that was granted when a lookup began is still granted, so by `IInv` its record is
in the file the lookup reads under the lock (`LookupInv`); and a process that lost the race to create the file
opens it again at a moment when it exists, since no process removes it (`RaceInv`). A power failure may take the file away, but
it ends every process.

**The boundary.** `RunBoundaryProofs` proves, for any sessions, programs, tokens, issuers and limits:

| Theorem | Property |
|---|---|
| `TypeCorrect` | `TypeOK` |
| `EntryIsAuthorised` | `VmEntryAuthorised` |
| `OneEntry` | `OneEntryPerToken` |
| `RevokedStaysOut` | `RevokedNeverEnters` |
| `RefusalIsFree` | `SpentOnlyPastPreflight` |
| `PreflightSuffices` | `PreflightForesees` |

The invariant has one part per command and one about the ledger. `RunInv(r)` says what each stage has established
by the time a command is there: what is approved was approved by a token in scope (`ApprovalInv`), the pairing rules
hold past the options and the checks behind each stage are done (`StageInv`), a signed command that was checked was once
clear (`ClearInv`), and what entered the VM passed all of them (`EntryInv`). `SpendInv` connects
commands and ledger: what a command consumed was granted, and no two commands consumed the same token. Most actions only
move one command on, and share a lemma (`MoveStep`); `Consume` and `Granted` have their own, since a record needs a command that passed
every check and a grant needs a token nobody was granted; `PowerLoss` may only drop records that nobody was
granted, which is the contract of `AttemptOnce`.

**Publishing.** `AtomicPublishProofs` proves, for any number of publishers, readers, pids, names and writes:
`TypeCorrect`, `NamesNeverShared` (`NamesOwned`), `WholeReads` (`ReadsWhole`), `NothingLeft` (`NoLitter`) and
`PublishRefinement` (`ImplementsAtomicFile`). The invariant adds to them that what is on disk is a prefix of what was written
(`DiskInv`), that a publisher about to rename has all of its file on disk (`ReadyInv`), that what the
destination names now and what it would name after a power failure is whole and was shown before
(`DestInv`), and that an open reader holds a whole file (`ReadInv`). The heart is `NamesOwned`: O_EXCL gives a
name to one publisher, so the file it renames is the file it wrote, whatever others with the same pid do. For
`NothingLeft`, a temporary name leads to a publisher's file only while that publisher works under it (`TempInv`).

**Tokens and keys.** `TokenFilesProofs` proves, for any number of commands on one set of files, any requests, questions and
keys of any size:

| Theorem | Property |
|---|---|
| `TypeCorrect` | `TypeOK` |
| `AsIssued` | `ApprovedAsIssued` |
| `OneFile` | `OneFilePerApproval` |
| `Honoured` | `IssuedIsHonoured` |
| `KeyPairs` | `KeysBelongTogether` |

Files are written in place, cell by cell, by several commands at once, so nothing can be said of what a token file holds
as a whole. What holds of every file, at every step, is `SealInv`: each seal in it, wherever it stands, is the seal of a
token that was sealed, and covers that token's cells. A seal names what it covers, so a file that decodes and whose seal
agrees with the cells before it is the encoding of that token, whoever wrote which part of it (`SealDetermines`,
`DecodedToken`); this gives `AsIssued` and, since the encoding is determined by the token, `OneFile`. `VerdictInv` keeps with
an approval the checks it passed. `Honoured` is the other direction: what `Encode` makes of a token that was issued
decodes to it again (`DecodeEncoded`). `GenerateInv` and `DeriveInv` say how far the one command that
writes keys has come. `TokenFilesAssumption` says of the tokens of other tools that they are properly sealed, that what lies
in the files at the start holds no other seals, and that only signed tokens are looked up in a store.

**Stores.** `StoreFileProofs` proves, for any number of loaders, entries and units, and for every text:

| Theorem | Statement |
|---|---|
| `ParserIsRight` | both parsers accept exactly the texts that are stores, and return just the entries they list, in their order |
| `TypeCorrect` | `Spec => []TypeOK` |
| `Meaning` | `Spec => []LoadsAsMeant` |
| `Verdicts` | `Spec => []VerdictsStand` |
| `LoadingRefinement` | `Spec => ImplementsStoreVersions` |

`ParserIsRight` is an induction over the lines of a text: after *n* lines the parser has either failed or holds
exactly the entries of those lines, which were all acceptable, not too many and different from each other (`LinesOneByOne`,
`LinesResult`). Loading needs `LoadInv`: as long as the file was not rewritten, the inode that is open holds a version the path
named since the load began (`OpenInv`), perhaps longer by now than it was when measured, and what was read is a
beginning of the version that was measured (`ReadInv`). Loading then refines `StoreVersions`, in which a load
takes its version in one step.

**The GPU path.** `GpuComputeProofs` proves, for any set of machines, devices and jobs: `TypeCorrect`, `OrderlyRelease`
(`ReleasedInOrder`), `TrueEvidence` (`EvidenceIsTrue`) and `ProbeTrusted` (`ProbeForesees`). `LiveInv` says what is live at each place
of `Ladder` and of `ReleaseOrder`, from which the order of release follows wherever a call fails; `RouteInv` and
`ProofInv` say what each stage has decided and proved so far; `SteadyInv` that on a machine that stays as it is the probe's
candidate implies that selection finds a device, although the two choose by different rules (`SelectedFits`, `BestFits`).

**The VM.** For any set of programs and any limits:

| Theorem | Statement | Argument |
|---|---|---|
| `FunctionVMProofs!TypeCorrect` | `Spec => []TypeOK`: the stack and every frame stay within their arrays, values within their width, executed steps within the budget | each check of the VM bounds what the instruction writes; the contract bounds the frames of functions and main |
| `FunctionVMProofs!CallersWaiting` | `Spec => []CallersWait` | a step changes only the running frame, so a CALL that pushed a frame is what its caller waits at until RETURN, and the result slot stays free |
| `FunctionVMProofs!OnlySelfArgument` | `Spec => []OnlySelfArgumentFails`: an accepted program, with whatever branches, repeats and calls, runs to END or to a division by zero, a CALL with its own result among its arguments apart | below |
| `FunctionVMProofs!ExactBound` | `Spec => []BoundIsExact`: without branches the static bound is the number of steps, calls and repeats included | below |
| `ScalarVMProofs!TypeCorrect` | `Spec => []TypeOK` | as above, with the slots from the contract |
| `ScalarVMProofs!SlotsAlwaysInBounds` | `Spec => []SlotsInBounds` | `ContractTouches`: each kind of contract mentions every instruction of the program, and each check of an instruction bounds its operands |
| `ScalarVMProofs!AcceptedRuns` | `Spec => []AcceptedNeverFails`: an accepted program runs to END or to a division by zero | below |
| `ScalarVMProofs!ExactBound` | `Spec => []BoundIsExact`: without jumps the static bound is the number of steps | below |
| `FunctionVMProofs!ExactFormat`, `ScalarVMProofs!ExactFormat` | `Spec => []FormatIsExact`: a program has one file, which the decoder reads back just if the program may run | below |
| `FunctionVMProofs!ProgramMeans`, `ScalarVMProofs!PlainMeans` | at every place of an accepted program `MeaningFrom` equals the body of its definition | below |
| `FunctionVMProofs!ResultsAreMeanings`, `ScalarVMProofs!ResultsAreMeanings` | `Spec => []ResultIsMeaning`: what a run emits is what the program means, and it divides by zero only if the meaning does | below |

The invariants say besides that what runs has passed the validator (`Checked`).

`AcceptedRuns` relates the validator, which looks at each instruction once, to runs, which may come to it along several
paths and many times. For programs with branches, the data-flow analysis `Flow` is first shown to solve its
equations (`FlowSolves`), so what it knows behind an instruction is contained in what it knows before the next
(`FlowEdge`). `FlowInv` then says that the VM, at each pc, finds at least what the analysis knows there: slots
are initialized, something was emitted or not, bool slots hold 0 or 1, and no more steps were executed than instructions lie before. So
each check that the validator made of an instruction makes the VM's check succeed. For programs with a repeat, `RepeatAt`
counts: the steps so far are those of the turns done plus the place in this one, and turns times length is what
`PlainBound` allows.

`OnlySelfArgument` and `ExactBound` do the same for functions. The scans `BodyScan` and `MainScan`, the chains `CallChains` and the
costs `CostFrom` and `MainCost` solve their equations (`BodyScanSolves`, `MainScanSolves`, `ChainsSolve`, `CostSolves`,
`MainCostSolves`). The recursion of `CostFrom` goes into the functions called, wherever they lie in the code, so its rank is
the height of a function in the tree of calls, then the distance to its end; `Heights` finds these heights because
`DepthOK` leaves no long chain of calls. `RunInv` says of each step of a run:

* the running frame is at a `Place` the scan came to, or in a repeat or branch that the scan checked as a whole, and the frame's
  slots and types are exactly what the scan knew there; bool slots hold 0 or 1 (`Bits`);
* each waiting frame goes on, behind its CALL, at a place the scan came to with the CALL's result known (`Waits`);
* the functions on the stack begin a chain of calls, so there is room for one more (`Chained`, `RoomToCall`);
* the steps executed, what is left at this place (`rest`) and what the callers still owe (`Due`) are together at most the bound,
  and equal to it in code without branches (`Spends`).

`EveryPlaceLeads` and `MainPlaceLeads` are about the validator alone: from each place the instruction leads to a place with one
step less to do. `Progress` then gives each check of the VM, the step budget included, and one lemma per action that `RunInv` goes on.

`ExactFormat` needs no invariant but that what is loaded is one of `Programs`; it is about encoder, decoder and validator. The
decoder checks each instruction before it applies the contract, by rules of its own. So for each place an instruction has in
an accepted program (a straight line, a repeat, a branch; in a body or in main) a lemma shows that these rules let it pass in the version
that the encoder chose by its contents (`FlowFits`, `RepeatProgramFits`; `InnerFits`, `OuterFits`, for which the scans also
show that every line of every body is one of a few kinds, `LineKept`). `PlainContents` and `FramedContents` say that nothing is lost
between the two, `PlainSurvives` and `FramedSurvives` the first half of the property. For the other half, what a variation of the
file can be and still be accepted is laid out like a file of the encoder (`PlainVariation`, `FramedVariation`: other
sizes, counts and headers contradict `LimitsOK` or `SizeOK`, inputs renamed or out of order `InputsOK`), and a file
laid out so is the one written for its contents (`SameFileAgain`), because the contract of each version refuses the contents of
the others.

`ResultsAreMeanings` says what the result is, where `OnlySelfArgument` and `AcceptedRuns` only say that there is one. First the
meaning must exist: `MeaningFrom` is a recursive definition, and nothing makes such a definition equal its body for a program
that calls itself or jumps back. For a program the validator accepted it does (`MeaningSolves`, `PlainMeans`, `ProgramMeans`): its places
are ranked so that each leads only to lower ones (`Grounded`). In plain code, where jumps go forward, the rank is the distance
to the end; with functions it is the height of the function in the tree of calls, then that distance (`ProgramGrounded`).
Then `MeaningInv` relates every state of a run to the meaning of the whole program:

* the running frame, at its `pc` with its slots, means some result (`Rest`); within a repeat, the repeat means
  it from its beginning on, for slots which the turns done and the lines passed in this one have made what they are now (`Turning`,
  `FrameMeans`);
* each waiting frame means what it goes on with when the result of the next is stored in its slot (`Resumed`);
* the lowest means what the program does (`Results`), until that is emitted.

There is one lemma per kind of instruction. The frame a call opens means just what its caller waits for
(`ArgumentsPassed`), a RETURN replaces that result by the value returned, REPEAT_NEXT makes one more turn of the
definition, and a division by zero leaves the running frame, then by induction down the stack each of its callers, without a value
(`NothingLeft`, `NothingReturned`). `RunInv` is needed for where a run may be: that a repeat is left only at its end, that no
call is made in one, and that in a program with functions nothing but END follows the emit. `MeaningInv` was checked with TLC before it was proved. In the
plain VM the emitted *slot* is read at END, so the invariant keeps its value from the emit on, for programs that assign each slot
once (`AssignedOnce`).

For the plain VM the property claims this of divisions before the emit only, and could not claim more: the validator lets code
stand behind the emit, which may divide by zero when the program already has its value. The runs
contain such programs (`Divisions` of `MCScalarVM`).

**Induction.** The theorems of the library about induction and recursive definitions take an operator as
a parameter, which the provers cannot instantiate. Where a proof needs them, it uses first-order versions over sets
instead, proved from the well-ordering of the naturals: `SetInduction` (a set of naturals with 0 and closed under successor has
all of them), `RecursiveFunction` and `FixedPoint` (a recursive definition whose value at a point depends on the
function at points of lower rank has a solution, so that `f[x \in D] == ...` does equal its body).

**Only model-checked.** Liveness (`EveryCallReturns`), which no installed prover handles under fairness. `BuiltIsAccepted`,
`MeaningPreserved` and `StoredAsCompiled` of the compiler: they compare what the builder made with a source, in
`SourceMeaning` and `QirBuilder`, by RECURSIVE operators over nested statements, which tlapm does not support. What comes after
the compiler, from the file to the emitted value, is proved for every scalar program.

## 5. Findings

1. **First use of a ledger is racy** (`ledger_first_use`). A process that opens the file after another created
   it and before that one locks it sees an empty file and fails with QN-E5203.
   `tests/test_replay_ledger.c` expects no failures from eight concurrent consumers of a new ledger.
2. **Only the creator makes the directory entry durable** (`ledger_entry_loss`). If the creator dies early, a
   later consumer is granted a token in a file whose directory entry may still be lost.

**Remarks**: behaviour that contradicts no text of the repository, but that the properties have to allow for.

* `--shots` is cut to 32 bits before it is checked, so 4294967297 shots run as 1 (`main.c:156`).
* A CALL may take its own result as argument: the validator marks the result slot initialized before it looks at the
  arguments, the VM refuses in the middle of the run, when the token is spent. `OnlySelfArgumentFails` shows that
  nothing else can fail so. The compiler emits no such code.
* A slot assigned on one path may be assigned again where paths meet: the join is an intersection, right for reads but
  not for the rule that declarations are final. The plain VM then outputs the later value. `ResultIsMeaning`
  is stated for programs that assign each slot once, which is what the compiler emits.
* A plain program may go on behind its emit with new variables: compiler, validator and decoder agree on that
  (`BuiltIsAccepted`). If that code divides by zero, the run fails although the value to output was there.
* The compiler may succeed with a program whose file the decoder refuses: one of QN_MAX_INSTRUCTIONS instructions gets
  one more for END (`qir.c:2365`). `BuiltIsAccepted` excepts this case by name (`NoRoomForEnd`) and shows that there is
  no other; `StoredAsCompiled` that such a file is refused.
* A program with a jump but no bool is run by the VM and refused by the decoder (`JumpsWithoutBool`); the compiler
  makes none. Bytes 78 and 79 of a file are read by nobody, so two files may differ in them alone.
* If `vkQueueWaitIdle` fails while the GPU still runs, the clean-up releases objects in use.
* A ledger torn by a crash is refused for good; no code repairs it.

## 6. What is not modelled

* Cryptography (ideal: a seal names its key and what it covers, digests are distinct), `hmac_sha256` running out of
  memory, floating-point amplitudes, Vulkan itself, and words a GPU computes (right or wrong).
* Text: lexer and parser (pure functions of a text, without state between calls; what the parser returns is the
  input of `QirBuilder`), diagnostics, byte order, spellings of numbers and hexadecimal, what labels and reasons say, the
  content of results and receipts.
* Quantum, vector and tensor programs in the builder, the validator, the codec and the VM. The boundary has their
  kinds and entry checks, `GpuCompute` the path of a vector program.
* The `guard`, `build` and other commands of `main.c` that neither use tokens nor the GPU.
* An administrator who replaces or truncates the ledger (the documentation requires a trusted directory). Of publishing: a
  destination that is a symbolic link, and durability of the rename itself (no directory fsync, and nothing promises
  one).

## 7. Plan

Done: the ledger, the boundary, publishing, tokens, stores, the GPU path, both scalar VMs and the file format, with proofs of every
safety property the runs check of them; the compiler, model-checked. Next, in this order:

1. The compiler's properties for every source: `QirBuilder` and `SourceMeaning` with recursive functions instead of RECURSIVE
   operators, and the builder shown to keep the meaning of the statements compiled so far.
2. Vector and quantum programs in `QbcContract`, `QbcCodec` and `QirBuilder`.

Runs of further components may be merged with those of components that they extend, to keep one run per question.
