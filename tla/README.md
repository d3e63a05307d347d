# ctxpack: a model-checked and partly proved specification

ctxpack selects the files of a repository that matter for a task or a diff and
writes them, shortened to a token budget, into one Markdown "context pack". This
directory holds TLA+ modules for the parts of the program whose order of events,
arithmetic or interplay is hard to test, the TLC configurations that check them,
and TLAPS proofs of the properties of eight of them. `PROJECT.json` maps
every definition to the lines it models and lists runs, mutants, findings,
hazards and theorems.

    tlc -workers 2 -config MCPackBudget.cfg MCPackBudget     # any run of PROJECT.json
    tlapm PackBudget_proofs.tla                            # any *_proofs module

Names of operators follow the Go source. Operators named `Mutant...` are wrong on
purpose: each is a plausible bug in the definition after it, is used by nothing, and
was seen to break the property it is listed with.

## 1. The system

| part (under `src/internal`) | state it keeps | operations | talks to |
|---|---|---|---|
| `repo`, `pathspec` | ignore rules | scan the tree, match globs | file system |
| `index` | the repository index; `.ctxpack/index.sqlite` | build, build with cache, save; analyzers per language | `repo`; other ctxpack processes through the database file |
| `rank` (scores) | scores by path | own score from the task's words, boosts along imports and nearby tests, order | `index` |
| `rank` (diff) | changes by path | nine git commands, parsing, merging | git, and through it the user |
| `budget` | the slice of selections | choose a mode per file, degrade the least important | `rank`; shares the slice with `pack` |
| `pack` | the text and the same slice | render, fit to the budget | `budget`, `tokens` |
| `config` | the parsed `.ctxpack.yml` | parse lines, filter the index | `cli`, `bench` |
| `cli` | settings of a run; packs and summaries on disk | parse arguments; index, pack, diff, ci, explain, mcp, bench | all of the above |
| `mcp` | nothing between requests | the JSON-RPC loop and four tools | a client through two pipes; `index` without its cache |
| `bench` | results of tasks | run tasks and baselines, write reports | all of the above |

There is no concurrency inside one process. What is concurrent is outside: editors
and git change the tree while it is read, several ctxpack processes share one
database and one `.ctxpack` directory, an MCP client sends ahead of its answers,
and a process can die anywhere. Inside, what is hard is loops that edit shared
slices in place, budgets that are decided by texts that the decision changes, and
parsers and mergers whose result depends on the order of their input.

What makes each part correct:

* **budget, pack** - the pack is within its budget or shows nothing; no file is
  left out that would fit; what is printed about the selections is true of them;
  degradation hits the least important first; both loops end; the lines shown of a
  file are the first of those around its matches, each once.
* **index** - a cached analysis is used only for the text it was made from; the
  database changes as a whole; after edits end it describes the tree.
* **rank (diff)** - no change is missed whatever happens between the commands;
  a quiet repository is reported exactly.
* **cli diff/ci** - exit code, summary and pack tell the same story, also after
  failures; the checks asked for are the checks evaluated; flags win.
* **config** - a file means what its indentation says.
* **cli pack/explain** - options mean the same in every place; a pack file is one whole
  pack; `explain` shows the latest.
* **rank (scores)** - an import leads to one file and the ranking is a function of its
  inputs; boosts are bounded.
* **mcp** - one answer per request, in order, about the present repository.
* **bench** - verdicts follow the documented criteria; summary and packs are of one run;
  the baseline compared with is a fair one.
* **repo, pathspec** - the scan finds what git would track, or fails; patterns name what
  they are documented to name.

## 2. Modules

| module | models | checked by | proofs |
|---|---|---|---|
| `PackBudget` | `budget.Select`, `pack.FitToBudget` | `MCPackBudget` | `PackBudget_proofs` |
| `PackPromise` | what callers of the two may rely on | refined by `PackBudget` | same |
| `MarkdownText` | `pack.RenderMarkdown`, `tokens.Estimate`, costs | through `MCPackBudget` | - |
| `PackText` | the two together: what the text says of the selections | `MCPackBudget` | `PackBudget_proofs` |
| `SliceRanges` | `budget.SliceBlock`, `mergeRanges` | `MCSliceRanges` | `SliceRanges_proofs` |
| `IndexCache` | `index.BuildCached`, `index.Save` | `MCIndexCache` | `IndexCache_proofs` |
| `PathSpec` | `pathspec.Match` on characters | through `MCScanTree`, `MCBenchRun` | `BenchRun_proofs` |
| `ScanTree` | `repo.Scan`, `.gitignore`, `config.Apply` | `MCScanTree` | `BenchRun_proofs` |
| `GitChanges` | `rank.ChangedFilesDetailed` | `MCGitChanges` | `GitChanges_proofs` |
| `ImportGraph` | `rank.buildLocalGraph` | through `MCRanking` | `GitChanges_proofs` |
| `Ranking` | `rank.ScoreFiles` from own scores on, the graph's boosts | `MCRanking` | `GitChanges_proofs` |
| `DiffRun` | `cli.runDiff`, its settings, checks and artifacts | `MCDiffRun` | `DiffRun_proofs` |
| `FlagArgs` | `flexibleFlagArgs`, `flagPresent`, Go's `flag` | through `MCPackCommand` | `PackCommand_proofs` |
| `PackCommand` | `cli.runPack`, `cli.runExplain` by several processes | `MCPackCommand` | `PackCommand_proofs` |
| `ConfigFile` | `config.Parse` and an author | itself | `DiffRun_proofs` |
| `MCPServer` | `mcp.Server.Run`, a client, an editor | itself | `MCPServer_proofs` |
| `TaskFile` | `bench.parseYAMLTasks` | through `MCBenchRun` | `BenchRun_proofs` |
| `BenchRun` | `bench.Run`, its tasks, baselines and artifacts | `MCBenchRun` | `BenchRun_proofs` |

### PackBudget, PackPromise, MarkdownText

The state is the slice `selections`, the loop index `i`, Select's `remaining`, and
`markdown`: the selections that the current text was rendered from, since the text
is a function of them. One action per outcome of a loop iteration: `SelectMode`,
`SelectOmitted` (Select), `DowngradeLeastImportant` / `StopDowngrading` (first loop of
FitToBudget), `SkipSelected`, `PromoteOmitted`, `RestoreOmitted` (second loop, which
starts over after each promotion), `Return`. A trial edit that is rendered and undone
within one iteration of the code is one action.

The renderer is the constant operator `RenderTokens`. `PackBudget` assumes nothing of
it, not even that showing less makes the text shorter - in the code it need not: each
omitted file adds lines elsewhere; the proofs hold for every renderer. `MarkdownText` is
the real one, section by section, with each piece of text reduced to its runes and
lines. `AlwaysAdvances` is termination as an action property: every step of a loop
makes progress that no later step of it undoes. `PackPromise` is the abstract specification: one step from
request to an answer that is listed in order, within budget or empty, and maximal.

### SliceRanges

A file is the number of its lines, the lines of its symbols and the lines with a word of
the task. `SymbolRange` and `LineWindow` are the iterations of the two loops that find
windows, `StartRange` and `ExtendRange` those that merge, taking the smallest range that
is left (the sort), and `CapRange` those that cut off after 90 lines. A symbol may lie behind
the end of its file, since Go's positions follow `//line` directives and the symbols may be
those of an older text; the code then shows the last line, and `Wanted` asks for it.

### IndexCache

Processes (`Procs`) run `LoadCache`, `Scan`, then per path `StatFile` and `ReadFile`, and
`BeginSave`, `DeleteRows`, an `InsertRow` per file and `Commit`; `Write` and `Remove` edit the
tree between any two of these, `SaveBusy` is a locked database. `Fail` is an error anywhere,
after which an open transaction is rolled back, and `Die` a death, after which its half
done statements and its `journal` stay in the file until the next process opens it and plays
the journal back (`PlayBack` in `LoadCache` and `BeginSave`). `db` is what the statements left,
`Rows` what a reader is given. A file is a text and a
modification time; a row holds size, time, token estimate and an analysis, which is
represented by the text it was made from. So "the analysis is stale" is
`symbols # content`.

Assumed: every write gets a new modification time (no coarse clocks, no `touch -d`,
no renames that keep times); the analyzers do not change (the row `schema_version` is
never read by the code); one scan of the directory is one step; and of SQLite, that a
journal has the rows of before the transaction, that one process writes at a time, and
that a busy writer fails at once (the code sets no timeout). That a save is all or nothing is not
assumed but checked of these steps. A commit that readers keep busy is a `Fail`.

### PathSpec, ScanTree

Paths and patterns are sequences of characters, since what `**` does follows from
searching text. `ScanTree` walks a tree as `WalkDir` does: `todo` are the entries it will
still call back for, `SkipDir` prunes, `WalkError` is a directory that is unreadable or
was removed by somebody since (`RemoveDir`), which is the error of the whole scan. `Apply` is
the overlay of `.ctxpack.yml`. The paths of a tree are paths (`IsTree`): what is above an entry is a
directory, and none begins with `./` or ends in `/`.

### GitChanges

`step` counts the nine commands: name-status for four comparisons, numstat for the
same, ls-files. The trees they compare (`fork`, `base`, `head`, `staged`, `work`) are
changed between any two commands by `Write`, `Add`, `Move`, `Commit` and `Fetch`. Git
itself - which differences are a rename, how numstat prints it - is modelled from
what the code's parsers expect and is marked external. `Succeed` parses and merges one
answer, `CommandFails` forgets one. The code keeps the numstat answers until all four are
there; as nothing looks in between, they are merged at once. The changes of one answer
fall on different paths or commute, so `MergeAll` says what each path gets of it instead of
going through them in order.

### DiffRun

`Start` is a command line with a `.ctxpack.yml`; `SettleSettings` applies flags, `ci`
section, file and defaults in the code's order; `FitPack` yields what the checks read of
a summary (any combination that Select and FitToBudget allow: over budget means
everything omitted, which `PackBudget_proofs!BudgetOrEmpty` proves); then the checks, the
summary (truncated, then written), the pack (the same), and the verdict. `Fault` is an
error or a death at any point. An artifact is the number of the run that wrote it,
negative while truncated.

### ConfigFile

Each step, the author writes a line (`WriteHeading`, `WriteItem`, `WriteScalar`,
`WriteInline`) at the place its indentation says, and `Parse` reads it. `said` is what
the author means, `cfg` what the parser understood. `tidy` remembers whether the author has so
far kept to the order that the README, the example and the tests of the repository use,
the scalars of a level before its sections.

### PackCommand, FlagArgs

`FlagArgs` moves the options before the words as the code does, hands the result to a
model of Go's `flag`, and is compared with what the command line says where it stands.
In `PackCommand`, processes start `pack` or `explain` with such lines. `os.WriteFile` is
`Truncate`, then `WriteBlock`s at the writer's own offset, so that two writers of one
slug can interleave and a death leaves a part; `List` and `ReadPack` are the two steps in
which `explain` can meet them. Times are those of a clock that may stand still.

### BenchRun, TaskFile

`Parse` reads the task file line by line, `RunTask` judges one task and writes its
pack, `WriteSummary` ends the run; `Abort` and `SummaryFails` are errors and deaths in
between, which leave truncated files. What a pack of a task holds is a constant, `Outcome`;
`packs` has the files that were ever written, named for their tasks as the code does.

### ImportGraph, Ranking

Files are numbers in path order. `ImportGraph` fills the tables of importable names and
looks the imports up; `AddPackageTSModules` takes the npm packages in any order, as Go's
maps do. `TopSeedPaths` sorts what came out of a Go map -
modelled as any order that the stable sort may return - and `BoostRelated` / `SkipSeed`
visit the seeds with the scores of that moment. Own scores and
nearness are arbitrary inputs; scores are hundredths of a point, rounded down.

### MCPServer

Two pipes of bounded capacity, a client that sends ahead, closes or dies, an editor.
A line is its kind; the answer of a tool carries the version of the repository it was
built from.

## 3. Runs

| run | bounds | shows |
|---|---|---|
| `pack` | all rankings of up to 3 of 6 kinds of files, of all 3 changed files with one other, and of 12 to 34 files; budgets 0 to 21000 | everything about selections, the allowance, the checklist and the progress of both loops; refinement of `PackPromise` |
| `slice_ranges` | files of up to 200 lines; up to 10 symbols and 9 matching lines at every distance that matters | ranges apart, in order, 90 lines; exactly the first wanted lines |
| `index_cache` | 2 processes, 2 files, 3 texts, two of them of equal size, 1 edit after the first state, 1 failure | fresh, transparent, replaced as a whole, and in the end up to date |
| `indexed_files` | every pattern of up to 6 characters over `a`, `/`, `*` and some longer ones; pairs of 14 lines of `.gitignore`; trees of up to 14 entries with unreadable and vanishing directories | the scan finds what git tracks; the overlay removes what plain patterns mean |
| `git_changes` | 3 paths, one under `.ctxpack`; 2 texts; 3 user operations; 1 failing command | no steady change missed; quiet answers exact |
| `ranking` | every import graph on 3 Go files, 4 own scores, 2 seeds; 5 TypeScript, Java or Maven files with ambiguous names | imports lead to one file; deterministic; bounded |
| `diff_runs` | 35 command lines, 10 files, 2 runs, 1 fault | exit 0 means checked; flags win; artifacts match the verdict |
| `pack_command` | 2 processes, 3 commands, the first with any of 70 argument lists; packs of 2 and 3 sections; 2 clock ticks; deaths anywhere | options in any place; whole packs; the latest explained |
| `config_file` | every documented kind of field at most once, in every order; lists of 1 item (inline lists of 2) | indentation is respected where scalars come first; lists never mix |
| `bench_run` | 2 runs, 13 task files of up to 3 tasks, budgets from four places, packs of up to 17 files; failures at every step | verdicts follow the criteria; artifacts of one run; fair baseline |
| `mcp_server` | 3 lines of 9 kinds, pipes of 2 lines, 1 edit | one answer each, in order, current, eventually |

Why these bounds: Select's thresholds lie at 6000 and 20000 tokens, four files, ten
omissions and thirty candidates, and the lists and budgets of `pack` lie on both
sides of each. The files of `slice_ranges` have windows that overlap, touch, leave one
line or two between them, more than the eight at which the scan stops, and more lines than the 90
that are shown. The cache can only go wrong through two writers and a file that changes
between a stat and a read; two files add the interleaving of their entries, and what
more edits could do to the safety properties the proofs settle. Six characters are
enough for `**` between two parts, at either end and twice. Three user
operations are enough to move, stage and edit one path between commands. A second run
of `diff` or `bench` sees the artifacts, whole or truncated, of an earlier one. Three files are
the smallest graph in which a boosted file can boost on. Three commands are two writers of
one file and their reader. Two lines in a pipe and one in hand are the
smallest number in which answers could be swapped. Counters that would grow without
end (`MaxEdits`, `MaxAborts`, `MaxFailures`, `MaxRuns`, `MaxFaults`, `MaxLines`, `MaxItems`,
`Commands`, `Ticks`, `Runs`) are bounds of the environment, never of the program.

Deadlock is checked except in `diff_runs`, `config_file` and `mcp_server`, where the model ends with
its last run, field or line; the others end in an explicit stuttering step.
`pack_command` uses symmetry of its two processes, which run the same code and are only
compared for equality; no other run does, and none a constraint. All packs of the runs are
diff packs: a task pack has the same sections less some, and the difference is in the renderer
only, of which the proofs assume nothing.

Fairness is stated where liveness is. In `IndexCache` weak fairness of
each process's steps says that a started command goes on and that commands keep being
started; edits and failures are not fair, they end by their bounds. In `MCPServer` the
server runs on and the client keeps reading, as the protocol requires. The other
modules claim safety only; that the loops of `PackBudget` end is `AlwaysAdvances`, which
needs no fairness.

### Disagreements

One has a run that TLC must find violated (`"expect": "violation"`): `brace_rename`, a
move within or between directories is listed twice, once with a path that does not
exist and no status.

Others were met while modelling. The models contain the code that causes them, and the
properties are stated so as to except them; no run is spent on showing each:

* the "hard token budget" of `mcp/server.go:311` and the usage text is exceeded when the
  sections around the files alone exceed it (`markdown.go:153`); what is promised is
  `OverBudgetMeansEmpty`;
* `ci.budget: 12000` is taken for "not given" (`cli.go:237`, against `docs/schemas.md:28`);
* the order of fields in `.ctxpack.yml` changes their meaning: after a list of `ci`, a
  `budget` is the top-level one (`config.go:73`); `MeansWhatItSays` asks for scalars first;
* a star before a final `/` or `/**`, and any single star beside `**`, is compared as a character,
  so that such a pattern names nothing: `services/billing/**/*test*` of `docs/evals.md:57`
  can never be met, and as `ignore` removes nothing, although `docs/schemas.md:20` calls these
  patterns path globs (`pathspec.go:33`, `:61`); `AppliesWhatIsNamed` requires nothing of them
  (`Plain`), so it would also hold of a code that followed them;
* two tasks of a bench whose names give the same slug share one pack file, which is that
  of the later (`bench.go:284`); `ArtifactsAreOfTheRun` accepts it;
* an MCP client that writes on without reading can fill both pipes and stop itself and the
  server for good (`server.go:68`); `EveryRequestAnswered` assumes a client that reads;
* of `.gitignore`, `!` lines are skipped, and `/gen/` or `b*/` mean other things than in
  git (`ignore.go:102`; `AsInGit`);
* `expect` and `avoid` look at the first fifteen files of a pack only (`bench.go:185`,
  against `docs/evals.md:78`), and the budget of `.ctxpack.yml` wins over `--budget` in
  `bench`, while it loses in `pack` (`bench.go:111`);
* a `#` anywhere in a line of a task file ends it (`tasks.go:93`);
* words with a dash after `--` are read as options if they come first, count as the
  presence of an option anywhere, and an option without its value at the end of the line
  takes the first word of the task (`cli.go:447`, `:461`, `:471`; `Sensible` excepts these);
* `explain --repo sub` joins the directory twice and finds nothing (`cli.go:328`), and
  `explain` shows an empty pack, with success, while `pack` is writing it;
* a Go import resolves to every directory whose name ends it, `m/mypay` to `pay` too
  (`graph.go:159`), and of `foo.ts` and `foo/index.ts` the latter is `./foo`;
* the checklist announces "nearby tests selected in this pack" for a changed test that
  was omitted (`markdown.go:588`);
* a file rewritten between stat and read has the old symbols beside the new text until
  the next run (`index.go:68`; `RowsFresh` is why no longer);
* an unreadable base is no error if another git command reports a file (`diff.go:81`);
* without any resolved import, `include_tests` boosts nothing (`graph.go:19`);
* one MCP message over 64 KiB ends the server with the requests behind it unanswered
  (`server.go:52`).

## 4. Proofs

`PackBudget_proofs` proves, for every set of files, costs, rankings, budgets and every
renderer: type correctness (with it, that Select never overdraws), `EstimatesFollowModes`,
`NoRoomLeftBehind`, `TextMatchesSelections`, `OverBudgetMeansEmpty`, `PromotionMaximal`,
`DegradesInOrder`, `AlwaysAdvances`, and that `PackBudget` implements `PackPromise`.

The properties are not inductive by themselves. The invariant `IInv` adds that ranks in
the list are ranks of candidates in increasing order and below `i` (`Ranked`), that a
candidate not listed has a summary that cost more than what remained *and* ten omissions
before it (`LeftOut`; `remaining` only falls, so both survive later steps), and that in the
second loop every omitted file before the scan index has already failed to fit with
the *present* selections (`ScanSoFar`) - which is why the code has to start over after
each promotion, and why maximality follows when a scan reaches the end. The lemma
`InPlace` carries the parts about one edited element; each action has its own lemma.

`IndexCache_proofs` proves, for any processes, files, texts, edits and failures:
`TypeOK`, `RowsFresh`, `CacheTransparent`, `ReplacedWhole`. The last rests on `InTransaction`:
the lock is held by the one process between its first statement and its commit, with a
journal; while it inserts, the rows in the file and those still to be inserted are together
those of its index, so that at the commit they are all of these; and a statement, a
rollback, a death or the playing back leaves `Rows` as they were (`RowsKept`). `IInv` also adds that all times in
rows, entries and stats are at most the clock (`Ages`); that *every* row, loaded, built
or stored, whose time is the disk file's time holds that file's analysis
(`AllVouched`); the same for a stat that is not yet followed by its read (`Queued`); and,
for a process during whose build nobody edited, that the part of the index built so
far is the cold index of the paths already visited (`Tracks`). The crux is a read that
reuses a row: the row's time equals the stat's time, and if that is still the disk's
time the row was vouched for; if not, the entry carries a time that no file on disk
will have again. TLC checked both `IInv` before they were proved.

`PackBudget_proofs` also proves `SelectSpendsAllowance`. The sum of the charges is a
recursive function; its running totals exist for every list, and are unique, because
the shortest part of a list without them would follow from the part before it.
And it proves `OmissionsReported`: the checklist is nine lists one after the other, one
of which alone can hold the item in question (`OmittedItem`), and it is written from the
selections returned with it, which is `TextMatchesSelections`.

`SliceRanges_proofs` proves, for files of any length with any matches and symbols on any lines,
also behind their end, type correctness,
`RangesApart` and `FirstLinesShown`. For the first, `IInv` adds that every range lies
inside the file, and, for the loop that cuts off (`CapSoFar`), that it has as many ranges
as it has seen, the last of which ends no later than the merged one it was cut from: so
the next one, which starts beyond that, is apart. For the lines themselves, `LInv` says in
three parts what each loop has done so far. `Collected`: the windows found are those of the
symbols and lines passed, as many as there are ranges, so that the limit of eight stops at
the line at which `LookedAt` says it does. `MergedSoFar`: the merged ranges have the lines
of the ranges taken, and others only singly between two of those; what is left starts no
earlier; and they are far enough apart that at the end every such single line is in one.
`CutSoFar`: the lines shown are as many as are counted, and a line of the ranges seen is
missing only behind 90 that are shown.

`DiffRun_proofs` proves, for any command lines, configurations, runs and faults, type
correctness, `ExitMatchesArtifacts`, `PackHasItsSummary`, `OkMeansAsked` and `FlagsWin`. The
invariant follows a run: which checks are evaluated once it has settings (`ChecksKnown`),
that no pack on disk is of this run before it begins to write one (`PackIsOld`), that the write
of one begins with a truncated file (`Underway`), and that a summary asked for is on disk when the
pack's turn comes (`SummaryFirst`). The lemma `VerdictIsAsked` says that the verdict computed from
the list of checks is that of the checks asked for; it is where "all" and an empty list of
forbidden patterns meet.

The same module proves `ListsKeepTheirPlace` and `MeansWhatItSays` of `ConfigFile`, whatever
the author writes. A list accepted so far holds what was said, because while the author
writes a list the parser is in that list or in a section that is none, where an item is an
error (`ListsAgree`). For a tidy file `Together` adds that nothing has failed, that the two
agree on every scalar as well, and that the parser is in the section the author is in.

`MCPServer_proofs` proves, for pipes of any capacity, type correctness, `AnsweredInOrder`
and `NeverStale`. `PipeFollows` says that the pipe holds, in order, the lines sent after the one in hand;
`InHand` that an answer in the making is an answer to this line, about a tree no older than it;
`Rising` that answers carry rising numbers, and `NonePassedOver` that every request before the line in hand has its
answer. Versions of the tree only grow, so an index built after a request was sent is not older.

`PackCommand_proofs` proves, for any number of processes, tasks, files and deaths,
`PackIsWhole` and `ExplainShowsLatest`. `Making` says that a pack in the making has a task with
sections and its writer is inside it; `Undisturbed` that a file not disturbed has one
writer at most and holds exactly the blocks this one has written, so that a writer that closes
has written all. For `explain`, `NewestWhole` says that the last pack to be completed is
whole as long as nothing was written since, and `Picked` carries it from the listing to the
reading; times are compared as numbers (`Timed`). What is shown of it needs `Excerpt`, two
minima of sets of positions, which exist because a set of naturals has a least element.

It also proves `FlagsAnywhere`. The code goes through a command line twice, the words being
moved in between; the property reads it once, where it stands (`Roles`). `SensibleIsUnderstood`
compares them argument by argument: after n arguments of the first pass the options and words
collected are those of the first n roles, and after the options collected so far the second
pass has set, of each option, the last value said of it (`Told`). The words come last in the
second pass and contain nothing that it takes for an option, which is what `Sensible` asks for.

`BenchRun_proofs` proves, for any task files, outcomes, runs and failures,
`ArtifactsAreOfTheRun`. Files are never of a later run than the present one (`Dated`), the
packs of the tasks done are of this run, each of its task or a later one of the same name
(`Progress`), a run that has ended well has judged them all (`Complete`), its verdict is on disk
(`Verdict`), and no pack listed by the summary is older than it, also while a later run
overwrites them (`Listed`).

It proves `BaselineIsFair` and `VerdictsAreSound`, too. The loops over a list are recursive
functions, which exist for every list and are unique by a least counterexample (`LoopExists`).
For the baseline, `IsFairSoFar` says after each file that the tokens counted are the sum of the
files taken, and that whatever was passed over did not fit, nor will it later, as the sum only
grows. For the verdicts the reader of task files is compared with what the lines say:
`IsSoFar` says that after n lines its tasks are those of the first n lines, the one in
hand being that of their last dash. A line that follows either is a dash, which leaves all
earlier tasks alone, or adds to the last task only (`AddsTo`); so the whole file is read as it is
written (`FileSays`), in any order of fields and lists. `ResultIsSound` turns that
into a verdict, which is kept while later tasks are run (`VInv`).

The module also proves what is searched in texts, for texts of any length. `ScanTree`:
`ScansWhatGitTracks` follows from `WalkInv`. While the walk goes on, each file that is wanted
and not yet found, and each unreadable directory the walk must look into, is below an entry
still to be visited (`Covers`); nothing that is to be visited is below an excluded directory
(`Reached`), nor is anything found so; and what is removed is removed with all that is below it (`Whole`).
Reading a directory puts its children where the directory was, and the next of them leads to
whatever the directory led to (`ChildrenCover`). The rules that `ignore.go` applies to a path
agree with git's on it or on something above it (`GitIsFollowed`, `GitIsFollowedOnly`), which is
enough, as both prune.

`AppliesWhatIsNamed` speaks of plain patterns: whatever else is in `ignore`, the files that they
mean are removed, and if there are no others, nothing else is. It rests on `MatchIsMeant`: for
every pattern, and every path without a star, `Match` holds exactly if the pattern is plain and
means the path. With a star in the
path itself it need not, as a pattern is then also compared as text. The crux is `**`: the
code looks for each part at the first place behind the one before, where the meaning allows any
place. `SearchFindsSpans` shows that nothing is lost: the first places come no later than those of
any way to match (`InTime`), and the places found are such a way. A part that contains a star
is found nowhere in a path without one, which is why such patterns match nothing.

`GitChanges_proofs` proves, for any texts, users and failures and finitely many paths,
`NoSteadyChangeMissed` and `QuietAnswerIsExact`. For the first it assumes nothing of which deleted
and added files rename detection takes for one. `Found` says that
a path once reported stays so, by itself or as the old path of another, unless
`OldPathForgotten` excepts it; `TrackedFound` and `UntrackedFound` that after the commands that
look for them the steady changes are there: of a file that differs from the base and nobody
touches, the work tree comparison or, if git does not know it, the last command speaks.

For the second, `Gathered` says what is noted of a path before each command as long as nobody acts and
none fails: the path is there if a comparison before said anything of it (`IsTold`), with the first status said
(`IsFirst`) and the most lines counted so far (`IsMost`). What the comparisons say are tables of the
trees (`Said`, `Lines`, `Loose`), which do not change while nobody acts. One command has one change
of a path at most, so of each path its merge is that of one change or of none (`CommandSays`,
`AnswerGrows`). That rests on rename detection pairing files one to one: a largest such pairing exists
(`RenamesFacts`), as the paths, and so the pairings, are finitely many. A rename written with braces is
what breaks it, and the run `brace_rename` shows how.

The module also proves the three properties of `Ranking`, which takes up where the changed files are
known. A finite set of files has one list in rank order (`OneOrder`), so what a sort makes of a
map does not depend on the map's order, and the seeds are the `Visits` that the property names.
`VisitInv` says that after k visits the scores are those computed for the first k visits and
the seeds are what is left of the list; that gives `SameEveryTime`, and, as each visit adds at most 2000
hundredths to a neighbour (`GainsAreBounded`), `GainsFromNeighbours`. For `ImportsLeadToOneFile`,
`ModulesInv` says that while the names of packages are added, each name of the table leads to the last
file added so far under it; files come in path order and a package's files are added together, so the
order of the packages does not show (`ModuleIsMeant`).

The assumptions are the named ASSUMEs of the modules (costs and sizes are numbers, the
bounds are natural, budgets are numbers, lines of a task file are of one of six kinds, a
file that a baseline can take costs a token at least, the scan lists each existing file,
no file has an empty path, the entries of a work tree have paths, a repository has finitely many paths, a file has finitely many
imports and its score is a number, a command line is a list of options, words and dashes, every
pack has sections, defaults are settings); TLC evaluates them in every run.

Only model-checked: liveness (`EventuallyFresh`, `EveryRequestAnswered`), which is out of
this prover's reach, as is ENABLED. Every safety property of the runs that pass is proved. The
library's induction theorems cannot be used, as the provers do not instantiate their
operator parameters; where induction was worth it, it is by a least counterexample, from
the theorem that the order of the naturals is well-founded (`LeastNat`).

## 5. Not modelled

* The analyzers: regular expressions and AST walks over one text, without control.
  Other modules see them as a function of the text.
* The choice between `.ctxpack.yml` and `.ctxpack.yaml`, task files in JSON, and the
  character classes and `?` of patterns.
* The commands `index`, `version` and `mcp`: wrappers of modelled parts.
* What a diff summary says of each file: `DiffRun` takes what the checks read of it.
* How own scores follow from words: a long list of additive rules, left open as an
  input of `Ranking`, like the tests near a file.
* The JSON form of the cache: `index.Save` writes it for a path that no command uses.
* The wording of packs, reports and messages, as far as no budget depends on it.

## 6. Plan

Done, in this order: PackBudget with its promise, renderer and proofs; IndexCache and its
proofs; GitChanges; DiffRun; ConfigFile; MCPServer; Ranking; SliceRanges and its proof;
PathSpec and ScanTree; TaskFile and BenchRun; FlagArgs and PackCommand; ImportGraph.

Then the proofs of DiffRun, MCPServer, PackCommand, BenchRun with its task files, and GitChanges,
of the lines that SliceRanges shows and of the sum that Select spends.

Then those of the configuration file, the command line, the ranking, the checklist, and the
scan with its patterns.

Left: no safety property. An abstract specification worth stating for `DiffRun` is the
gate that CI relies on: a verdict with its two artifacts, or an error; for `MCPServer`, a
queue of requests answered in one step each.
