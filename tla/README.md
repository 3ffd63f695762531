# A verification of ProbData

ProbData advises on how to move data over a fast network: a client connects to
a server, looks in a database of earlier measurements, measures the path with
iperf3 (TCP) and tpg (UDT) at a series of parameter settings, and recommends the
best it has seen. This directory holds TLA+ models of that program, the TLC
runs that check them, and proofs that TLAPS checks.

Files: `*.tla` modules, `*.cfg` TLC configurations, `PROJECT.json` the index
(components, runs, mutants, source lines, findings, hazards, theorems).

    tlc -workers 2 -config MCSession.cfg MCBacklog
    tlapm ControlSessionProofs.tla

## 1. Inventory

Source paths are relative to `src/src/`.

| Part | Source | State | Operations | What makes it correct | Model |
|---|---|---|---|---|---|
| Client session | `probdata/probdata_client.cpp` | `prob->status`, `do_udt_only`, `host_max_buf`, the two profilers' results | connect and identify, poll one status byte, act on it, ask for the next stage | asks in order, one thing at a time; ends | `ControlSession` |
| Server session | `probdata/probdata_server.cpp` | the same, plus two `pthread_t*` | listen, accept one client, poll, act, echo | echoes what it was asked once it has done it; starts, cancels and joins its threads once each; ends | `ControlSession`; who waits behind it: `Backlog` |
| Control channel | `probdata/probdata_control.cpp` | one TCP connection, no framing | send/receive N bytes, status byte, limits exchange | a byte is read as what it was written as; both sides leave the exchange with the same limits | `ControlSession`, abstractly `Session` |
| TCP worker | `probdata_server.cpp:495-542` | `err_cnt`, the iperf3 test | serve, reset, give up, be cancelled | has stopped before UDT is measured | `ControlSession` |
| UDT worker | `probdata_server.cpp:611-652` | `ok_cnt`, `err_cnt` | serve, time out, give up | lasts as long as the client's search | `ControlSession`, `UdtProfiling` |
| FastProf search | `fastprof/fastprof_tcp.cpp`, `fastprof_udt.cpp` | counters, limits, best so far, visited list | y(+), y(-), y(\*), stop, report | keeps the best, counts right, stops for the right reason within its limits | `FastProf` |
| SPSA arithmetic, RTT | the same files, `fastprof.cpp:49-57,182-223` | theta, a/c gains, `ctrl->rtt_ms`, buffer range | ping, average, tune the range, project, perturb, move, restart | every run within the safeguards; the range around the bandwidth-delay product; no division by 0 unless the step is 0 | `Spsa` |
| Profile database | `fastprof/fastprof.cpp:75-145`, record functions of both profilers | one file per pair of hosts | append a record, find the best | what is written is found, whoever else appends | `ProfDB` |
| Recommendation | `probdata_client.cpp:73-98` | three measured maxima | compare, print | recommends the best there is | `ProfDB` |
| Options, logs, result files | `probdata.cpp`, `*_log.cpp`, `*_error.cpp` | - | parse, print | - | not modelled: text |
| Disk-to-disk | `probdata_client.cpp:247-342`, `probdata_server.cpp:210-262` | - | stubs | - | its statuses, in `ControlSession` |
| iperf3, tpg, UDT | headers and binaries in `lib/` | - | - | - | external: only the outcomes |

How they interact: the client drives. It sends a status byte; the server's poll
loop reads it straight into `prob->status` - which the UDT worker reads as its
loop condition - handles it, and echoes it; the client acts on the echo. TCP
profiling happens between the client's `RUN_M2M_TCP` echo and its request for
`RUN_M2M_UDT`, against the server's TCP worker, on connections of its own; the
same for UDT. The two searches append to the database and fill `prof_max`.

What is hard: the worker threads' life cycle across requests (creation,
cancellation, two joins, a null pointer); echoes sent before or after the work;
an untagged stream with a struct in the middle of it, where end of file is a
short read that only the poll loops notice; the two sides' options, of which
only some are exchanged; a process dying at any point; the limits of a search
whose loop body has three exits; clients that the server never answers; an `int`
that is clamped after it has overflowed, and a point that is brought back into
its range in a dozen places. `PROJECT.json` lists each hazard at its line.

## 2. The modules

    Session                 abstract: a conversation
      ^ implemented by
    ControlSession          client, server, threads, channel, failures
      ControlSessionInv     its inductive invariant
        MCControlSession    instances for TLC
        ControlSessionProofs
          ControlSessionRefines   that it implements Session
        Backlog             the session with other clients waiting behind it
          MCBacklog

    FastProf                one search
      FastProfProofs
      SearchDB              what the search is to the database: implements ProfDB
        MCFastProf, SearchDBProofs
      ^ EXTENDS, and implemented by
    UdtProfiling            the search against the server's UDT worker
      MCUdtProfiling, UdtProfilingProofs

    Spsa                    where a search measures, and with which buffers
      MCSpsa, SpsaProofs

    ProfDB                  the profile database and the sessions that use it
      MCProfDB, ProfDBProofs

**Session** promises what a client may ask after which answer, that nothing is
asked before the answer and that the answer to a request is that request; and
that the conversation can be cut short.

**ControlSession.** `cpc`/`spc` are the control points of the two main threads;
`cst`/`sst` are `prob->status` on either side. A control point lies at every
blocking call, at every write to the channel and between creating a thread and
echoing, because there the two processes and the threads interleave. `CliX` and
`SrvX` are the `case` labels of `*_proc_ctrl_packet` and the steps of `*_poll_*`,
`*_connect`, `*_accept`. `c2s`/`s2c` hold whole items: N-byte sends and receives
are blocking loops, so that a byte, a struct or an ID packet is one item, and a
wrong pairing shows as an item of the wrong kind (`StatusOf`, `CtrlMsgs`).
`Gone` processes have returned, been killed, or died of SIGPIPE; a reader whose
peer is gone sees end of file, which `recv_Nbytes` reports as 0 and only the
poll loops treat as an error. Undefined behaviour is a choice: uninitialised
`data` after such a read is any message, a second join comes back or crashes, a
double free crashes or does not. `Kill` is the environment.

**Backlog** composes a session with any number of `Others`. The server accepts
once, so that the branch of `probdata_server_accept` that tells a client "busy"
is dead code. Such a client is in `probdata_client_connect`: `OtherConnect` takes
it to its `recv`, which has no timeout, and `OtherReset` out of it when the
server process is gone. Whether its `connect` succeeds is the kernel's business:
how many clients the listen queue holds is left open, and any of them may be
refused (`OtherRefused`).

A profiling loop in ControlSession is any number of runs up to `Runs` and then
an end or a failure; what happens inside is FastProf.

**FastProf** is `f_tcp_client_run` and `f_udt_client_run`, which have one
control flow. A run is made at any of `Points` and measures any of `Perfs`
(integers; what is compared is Gbps, and at most 0 is "nothing got through");
the target is bandwidth times performance gain ratio. `Decide` is the head of
the loop with its three breaks and with the ping that may end the process, `Plus`/`Minus`/`Star` the three runs with
recording, counting, listing and comparison, `Report` what follows the loop.
`RecordAdd` is `f_*_m2m_record_add` after its `fopen`: what `fprintf` and `fflush`
return is not looked at, so a run counts whether or not its record got into the
file. `db` is the records that are lines of their own, each with the number of
its run; `torn` says that the file's last line has no newline, so that the next
record continues it. A `fopen` that fails is part of `GiveUp`.
`prof_pt` is the setting in the test object that `prof` and `prof_max` share.

**Spsa** is the part of the same two functions that FastProf leaves open. A point
has two coordinates, each in `ThetaMin..ThetaMax` ticks; `Begin` is what the head
of the loop does when it does not stop: `EstimateRtt` and `TuneRange` (with -y)
and `Perturb`. `Plus`, `Minus` and `Star` are the three runs at the points this
gives; `Ascend` follows the gradient after the second, `Star` restarts at the
best point. `ToInt` is the conversion of a double to `int`: what does not fit is
`INT_MIN` (x86) or the nearest `int` (other hardware). `Setting` is what is set
on the iperf3 or tpg object. When the search stops is left open here; the gains
`ak` and `ck`, which decrease and are scaled as it goes on, are any of `Aks` and
`Cks`, so that the results hold for any such sequence. They come from `-e`, `-g`,
`-o` and `-x`, which nobody checks: a step may be negative or 0. With a step of 0
the two points fall together and the gradient is infinite or no number
(`Ascend`); a point that is no number, `Nan`, passes every comparison
(`ProbeNothing`) and is set to whatever an `int` makes of it. `stepless`
remembers that there was such a step.

**SearchDB** says what a search is to the profile database: with `prof_max` as the
result that the session will look at, each step of FastProf is a step of a ProfDB
session that searches, or none of it; what the file gains is `db`, so a record that
did not become a line of its own is ProfDB's `Cut` of which nothing reached the
disk. So the session's guarantees are about the searches that are really made, of
either transport (`Source`).

**UdtProfiling** adds the worker of `probdata_server_udt_fastprof_worker`; a run
needs a worker that is serving, one that has ended refuses it.

**ProfDB** is one database file over many sessions: `Begin` to `Advise` is one
client, from `new` to the recommendation, and `OtherClient` is every other
client of the same hosts, of which this one sees only that lines are appended.
`OpenFile`, `ReadLine`, `ReadEnd` and `Hit` are `f_m2m_db_search`, with a step
per line, so that others append while it reads. A line is what `sscanf` makes of
it: a measurement, `Bad`, or a `Comment`. `Whole` and `Cut` are the ways a
record gets into the file, the disk being full in the second. `perf` is the
three results as they lie in memory: `Garbage` until the session writes them,
which the ghost `written` keeps track of. The runs of a search are any number of
`Run`s; FastProf says when they stop, ControlSession whether the server answers
the last request.

The modules are parameterised by their CONSTANTS with named assumptions; the
`MC*` modules give TLC values for those that a `.cfg` cannot express.

## 3. The runs

| Run | Expect | Shows |
|---|---|---|
| `MCSession` | pass | All interleavings of both processes, both threads, and kills, in every scenario: `Framed`, `LockStep`, `Agreement`, `ProfilersExclusive`, `WorkerToCancel`, `DoneMeansJoined`, `UdtOnlySkipsTcp`, `NoneStuck` (nobody waits for somebody who waits for him), the inductive invariant `IInv`, `Onward` (no status is gone back to, no worker started twice), and that it all implements `Session`. With fairness, `SupportedEnds`: once connected, both processes finish. With another client: `OthersReleased`, whoever waits is let go. Where TCP profiling is `Imposed` by `-t` without history, `ProfilersExclusive`, `UdtOnlySkipsTcp`, one part of `NoneStuck` and the liveness properties promise nothing; the others hold all the same |
| `MCSessionHang` | violation | with `-t` and no history TCP is profiled, and the two processes do not finish |
| `MCSessionJoins` | violation | a thread is joined twice |
| `MCFastProf` | pass | `BestSoFar`, `Impeded`, `StopReason`, `Overrun`, `RecordsKept` (every run is recorded, and a write that is cut short costs two records at most), `IInv`, `Shrinks` (every step brings the end nearer), `ImplementsRecords` (to the database it is a search of ProfDB), `Terminates` |
| `MCFastProfBest` | violation | the settings reported are the last run's |
| `MCUdtMatched` | pass | `WorkerOutlivesSearch`, `CountsAgree`, `UdtInv`, and that the composition implements `FastProf` |
| `MCUdtRefused` | violation | the same `-N` on both sides is not enough |
| `MCSpsa` | pass | `InSafeguards`, `Probed`, `RttAmong`, `RangeHoldsBdp`, `RestartsAtBest`, in any number of iterations; of a step of 0, `Probed` and `InSafeguards` say that it, and nothing else, makes the divisor 0 and lets a run be made at no number |
| `MCSpsaRange` | violation | a product of which four times does not fit an `int` is outside the range made for it |
| `MCProfDB` | pass | `OfferedBest`, `AdviceBest`, `IInv`, `AppendOnly` (a complete line stands) |
| `MCProfDBMiss` | violation | one bad line hides all records |
| `MCProfDBAdvice` | violation | what is recommended may be uninitialised memory |

Every property of a passing run has a mutant in `PROJECT.json`: a plausible bug
in one definition under which TLC finds the property violated. The faulty
variants stand next to the definitions they would replace.

Bounds, and why they are enough:

- `MaxErr = 2` (10 in the code), `Limit = 0` (60): the workers' counters matter
  only in being at or above their limit, which a worker reaches by its first run.
- `Runs = 2`: more than `Limit + 1`, so that the UDT worker ends while the
  client still wants runs. The violation runs have `Limit = 1` and `Runs = 3`.
- `Others = {o1}`: the other clients have nothing to do with one another, and
  each may come, be refused, wait and be let go at any time.
- `Bufs = {1, 2}`: either host may have the smaller limit, or both the same.
- `Scenarios`: all four combinations of `-t` and history in `MCSession`;
  `MCSessionHang` looks at `-t` without history and `MCSessionJoins` at the others. `CanDecline` and `CanKill` are on.
- `Points = {p, q}`, `Perfs = 0..3`, `Target = 3`: nothing, two grades, and the
  target; `-L` in -1 (default, 1), 0, 2; `-N` in -1 (twice `-L`), 0, 1, 4: the
  limits are looked at once per three runs, so a remainder of 1, where they are
  exceeded most, both zeros and both defaults are there. `MaxCuts = 1`: one write
  is cut short, at any run, with the record after it or without; for any number
  of cuts `CutsCostTwo` is proved. The violation run and `UdtProfiling` have no cuts. `Source = "tcp"`; the two searches differ in
  nothing but that name, and `SearchIsSessions` is proved for both.
- `UdtProfiling`: the client's `-N` 2 to 5 against the server's 2 to 6, all
  residues of 3, smaller, equal and larger.
- `Spsa`: 4 ticks, with steps of -1, 0 and 4 and gains of 1 and 12, so that a
  perturbed or a moved point lies inside, on, or outside the range on either
  side; `int` of -33..32 with buffers of 4..30, a bandwidth of 4 or none, and
  times of 1, 2 and 5, so that four times the product is below, within and above
  the safeguards and past the largest `int`; hosts that allow 3 (less than the
  smallest buffer), 20, and 40 (more than the largest). Iterations are not
  bounded: the state space closes on itself.
- `ProfDB`: files that are missing, kept by hand with a comment, or hold a line
  of another make before or after a good record; `MaxLines = 3` leaves room for
  two records after the longest but one of them and three in an empty file, so
  that a reader meets lines appended before, during and after its reading, and a
  cut line is continued; measurements -1 (no streams), 1, 2; memory that holds 0
  or more than anything measured.

No run uses symmetry: the properties quantify over the first best point.

Deadlock is checked everywhere. A session that is over stutters in `Over`; the
server that was never connected to waits in `accept` for ever, and that is in
`Over` too.

### Fairness

`MCSession` assumes weak fairness of each of the four threads' own steps
(`CliStep`, `SrvStep`, `TcpWorker`, `UdtWorker`): the operating system schedules
them, the poll loops spin with a zero time-out, `tpg_server_run` comes back
after 15 seconds and a thread that is cancelled reaches a cancellation point.
`CliStep` bounds a profiling loop because FastProf does (`Terminates`, and
`Overrun`). Nothing is assumed of errors and kills. For each
client in the backlog the kernel's reset is fair: a peer whose server process is
gone is told so; nobody is made to connect. `Terminates` assumes
weak fairness of the search's next step: a run ends, because iperf3 and tpg
measure for a given duration, or fails.

### What the violation runs found

Seven disagreements between the code and what it says of itself; the quotations
are in `PROJECT.json`.

1. `-t` without a database match profiles TCP (`probdata_client.cpp:348-350`), and
   then the server never finishes: it does not cancel the TCP worker
   (`probdata_server.cpp:300-302`) and waits for it (`:357`).
2. The TCP worker is joined at `:309` and again at `:357`.
3. `prof_max` shares its test object with `prof` (`fastprof_tcp.cpp:435`): the
   buffer size and stream count reported are not those of the best run.
4. A server with the client's `-N` can stop serving before the client's last
   run; the client then fails and prints no recommendation. `Matched` in
   `UdtProfiling` is the condition under which this does not happen.
5. One line of the database that does not parse, such as one cut by a full disk,
   and no session finds any record again (`fastprof.cpp:130`).
6. The recommendation compares results that the session may never have written
   (`probdata_client.cpp:73`): with `-t`, when the user declines, for files, and
   when the folder does not exist yet.
7. Four times the bandwidth-delay product is stored into an `int` before it is
   clamped (`fastprof_udt.cpp:307`, `fastprof_tcp.cpp:295`). From 537 MB on, on
   x86, the upper end of the range becomes the smallest buffer, and no buffer as
   large as the product is tried. Nothing else goes wrong: `InSafeguards` holds.

The search's limits are looked at once in three runs, so it makes up to two runs
more than the "Upper" bound it prints (`fastprof_tcp.cpp:232-237`); `Overrun`
states that, and is proved.

## 4. The proofs

TLAPS proves, for every value of the constants that meets the assumptions:

| Module | Theorems |
|---|---|
| `ControlSessionProofs` | `TypeCorrect`, `InvariantHolds`, `StreamStaysFramed`, `RequestsAlternate`, `SidesAgree`, `ProfilersNeverOverlap`, `WorkerExistsToCancel`, `DoneAfterJoins`, `UdtOnlyWithHistory`, `NobodyStuck`, `NeverTurnsBack` |
| `ControlSessionRefines` | `SessionIsConversation` |
| `SpsaProofs` | `TypeCorrect`, `BuffersInSafeguards`, `ProbesApart`, `RttWithin`, `RangeCorrect`, `Restarts` |
| `FastProfProofs` | `TypeCorrect`, `InvariantHolds`, `KeepsTheBest`, `CountsTheImpeded`, `StopsForItsReason`, `OverrunsByTwo`, `CutsCostTwo`, `EveryStepNearer` |
| `SearchDBProofs` | `SearchIsSessions` |
| `UdtProfilingProofs` | `UdtRefinesSearch`, `UdtInvariantHolds`, `WorkerCountsKnownRuns`, `MatchedLimitsSuffice` |
| `ProfDBProofs` | `TypeCorrect`, `OffersTheBest`, `RecommendsTheBest`, `Inductive`, `CompleteLinesStand` |

**ControlSession.** Nothing is assumed of the scenario: the invariant also
describes the sessions of a client with `-t` and no database match, in which the
TCP worker is there to the end (finding 1). `Imposed` is that case, and only what
is false in it is conditional on its absence: that the profilers never overlap,
that `-t` skips TCP, and that the worker joined at `PROGRAM_DONE` has ended. None
of the properties is inductive: that the profilers never overlap depends on which request
the server works on, that on what the client asked, that on the echo it acted
on, and that on what is in the channel. `IInv` (`ControlSessionInv`) describes
the conversation from both ends:

- `CliView`: while both live, for each control point of the client, what is in
  the two streams and where the server is. A waiting client's request `r` is
  either in the stream (`Asked`), being worked on (`Served`) or answered
  (`Answered`), and `r` may follow the client's status (`Follow`).
- `Legacy`: what a client that has left can leave in the stream.
- `CliInbox`: what a client can still read when the server has left.
- `SrvView`: for each status and control point of the server, which worker
  threads exist and in what state.
- `Unexchanged`, `DoneAnswered`: the limits before the exchange; an answered
  `PROGRAM_DONE` comes after the joins.

The step lemma is proved per conjunct and, within it, per action
(`SrvViewStep`, `CliViewStep`, `CliInboxStep`, `UnexchangedStep`,
`DoneAnsweredStep`, `ThreadsStep`); `EchoStep` and `SendStep` treat all echoes
and all requests at once. The properties then follow state by state.

`NobodyStuck` is deadlock-freedom: if both streams were empty and both processes
in `recv`, `CliView` would have the server where it has something to send.
`NeverTurnsBack` is about steps: a process takes a status from the channel, and
`IInv` knows of every status that can be there, also of those that a dead peer
left, that it belongs to a later stage than the reader's own (`LaterStage`).
Together they are the safety half of `SupportedEnds`: somebody can always go on
except where finding 1 says otherwise, and whoever acts on a status gets further.

**ControlSessionRefines.** The abstract conversation's state is a function of
the two processes' control points and the channel, so each step of either
process maps to one step of `Session` or to none: a request to `Ask`, an echo to
`Answer`, the first status of the client to `Greet`, an exit to `Close`. That an answer
is to the request that is open, and that a request is one the last answer allows,
is what `IInv` knows of the channel.

**Spsa.** Everything is about one fact, that a point within the range stays
between the two values it is mapped to (`Interpolation`, `ToValBetween`), after
rounding and when the range is reversed; and that whatever `ToInt` makes of the
product, `Safeguard` brings it between the two safeguards, which may themselves
be reversed (`SafeguardBetween`). For `Probed` the shortened steps are the
distances the points really moved (`AdjustIsDistance`), and of two points on
either side of one within the range at least one is at a distance (`ApartUp`);
a negative step only exchanges them (`AdjustNegative`), so that the divisor is 0
exactly where the step is (`Apart`). That a point is no number only after a step
of 0 is a part of the invariant: only `Ascend` makes one, and only where the
divisor is 0.
`RestartsAtBest` needs an invariant: as long as there is no -y, the setting of
`max_theta` is the setting that was best.

**FastProf.** `IInv` is the properties themselves and `Phase`: an iteration that
was begun was begun below both limits and below the target, and has made 0, 1
or 2 runs since. From it the bound of two runs follows. The three runs of an
iteration are one operator, so each conjunct has one lemma about `Measure`.
`RecordsKept` needs `Damage`: while a line is torn, one of the two records its cut
may cost is still to be lost.
`EveryStepNearer` is the safety half of `Terminates`: `Remaining`, a natural number
that starts from the limit of runs, decreases with every step, since `Phase`
says that an iteration begun leaves runs to make.

**SearchDB.** Each step of the search is looked at once: a run is the session's
`Run` (`MeasureIsRun`), the end its `SearchReturns` or `Die` (`EndIsSessions`), and
the rest stutters. That the result kept is the best one needs `BestSoFar`, that
`prof_max` and `max_perf` are the same.

**UdtProfiling.** Every step is a step of FastProf or leaves it alone
(`StepRefines`), so all of FastProf's theorems hold of the composition. `UdtInv`
adds that the worker's count is never ahead of the search's, and that an
iteration starts at a multiple of three; with `Phase` this gives the sharp
condition `Matched`.

**ProfDB.** `OfferedBest` speaks of a search that has returned, so the reader's
loop needs an invariant of its own: while it reads, the lines behind it are all
complete, all parse, and none beats its result (`ReadSoFar`). Complete lines
never change, however a record gets into the file (`RecordKeepsLines`), so
other clients cannot disturb it; `CompleteLinesStand` says so of every step. `AdviceBest` follows from the comparison
(`AdviceBeats`) and from `RunsKept`, every recorded run is outdone by a result
that was written, which needs in turn that a running search's best is in its own
result and that nobody wrote that result before (`BestKept`, `Phases`).

Only model-checked: liveness (`SupportedEnds`, `OthersReleased`, `Terminates`),
which the prover does not do under fairness; what can be said of it without
fairness is proved (`NobodyStuck`, `NeverTurnsBack`, `EveryStepNearer`). Every
invariant, action property and refinement that a passing run checks is proved;
those of `MCSession` of ControlSession's `Spec`, whose variables the other clients
of `Backlog` do not touch.

## 5. What is not modelled

- Floating point. In `Spsa` coordinates are whole ticks and times and sizes whole
  numbers; quotients are rounded down to a tick. What depends on the rounding of
  doubles themselves is not covered.
- The decrease of the gains with the iteration (`pow`), and whether the search
  converges.
- The text that ping prints and how it is parsed: of `f_estimate_rtt` a time,
  nothing, or an exception.
- Records: of a line only its measurement is kept. The settings recorded with
  it, and the source address that is cut when it is longer than the destination
  (`fastprof_tcp.cpp:694`), are not.
- Lines longer than the reader's 512 bytes: a record has about 150.
- In `FastProf`, other writers of the file, which are ProfDB's: `db` is this
  search's records. Only a file that cannot be opened ends the search; a failing
  `fprintf` or `fflush` loses the record and the search goes on.
- Gains that are no numbers themselves (`-g nan`), and what the settings are
  after a point is none: an `int` made of it, whatever the platform makes.
- How many clients the kernel queues behind a session, and in which order.
- Texts: options and their units, logs, help, error strings, the ID packet's characters, addresses.
- Short writes and reads on a live connection: the N-byte loops hide them.
- The race between the client's first UDT run and the worker's listening socket
  (the server answers first and starts the worker 500 us later): a run against a
  worker that is not serving yet either waits or is a failed run.

## 6. Plan

In order of what matters most to the system:

1. `NBytes`: `recv_Nbytes`/`send_Nbytes` with short counts, end of file and
   errors, as the abstract "item" channel's implementation; the exchange and the
   address message on top of it.
2. The composition of `FastProf` and `Spsa`: that the search is the same with its
   points chosen by the arithmetic.

Runs: one per module with 2 or 3 hosts, records or grid values each, and a
violation run only where the code and its documents disagree.
