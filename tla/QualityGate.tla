----------------------------- MODULE QualityGate -----------------------------
(***************************************************************************)
(* scripts/quality/checks.sh: eight steps that all run whatever fails, each *)
(* judged by its tool's exit status or by what gate_emit.py counts in the  *)
(* tool's output, a report, and an exit status that CI believes.           *)
(*                                                                         *)
(* A checkout is the set of the defects it has.  A run may be hit by faults *)
(* (a tool crashes, gate_emit.py dies, a database volume cannot be reset), *)
(* and is followed by another run on what it left.                         *)
(***************************************************************************)
EXTENDS Naturals, FiniteSets, Sequences

CONSTANTS
  MaxDefects,  \* bound: how many defects a checkout begins with
  MaxFaults,   \* bound: how many faults hit one run
  MaxRuns      \* bound: how many runs follow each other

ASSUME BoundsOK == MaxDefects \in Nat /\ MaxFaults \in Nat /\ MaxRuns \in Nat

VARIABLES
  tree,      \* the defects of the checkout and its environment
  opts,      \* FULL and FIX as parsed, and whether this is CI
  at,        \* the step about to run; 0 before gate_init
  report,    \* GATE_STEPS with their status
  errors,    \* GATE_TOTAL_ERRORS
  verified,  \* verify_stack's scenarios that have run
  failed,    \* verify_stack's FAILED
  exit,      \* Running while the gate runs, then its exit status
  faulty,    \* history: where this run was hit by a fault
  noisy,     \* history: the suites whose summary named warnings or skips
  previous,  \* history: how the run before ended
  runs       \* how many runs have begun

vars == <<tree, opts, at, report, errors, verified, failed, exit, faulty, noisy, previous,
          runs>>
-----------------------------------------------------------------------------
\* Mutant of Order: The fixes come after the steps that judge them.
LateFixes == <<"audit", "basedpyright", "import-linter", "mcp tests", "pytest",
               "ruff", "shell", "verify_stack">>

Order == <<"audit", "ruff", "shell", "basedpyright", "import-linter",
           "mcp tests", "pytest", "verify_stack">>
Step == {Order[i] : i \in 1..8}
Scenario == {"bare-metal", "compose"}

\* What each step's tool objects to.
StackDefects == {"migration", "seed", "api"}
Defects(s) ==
  CASE s = "audit"         -> {"vulnerable"}
    [] s = "ruff"          -> {"lint", "autofix", "format"}
    [] s = "shell"         -> {"shfmt", "shellcheck"}
    [] s = "basedpyright"  -> {"types"}
    [] s = "import-linter" -> {"imports"}
    [] s = "mcp tests"     -> {"contract", "contract fixture", "export"}
    [] s = "pytest"        -> {"tests", "fixture", "coverage", "database"}
    [] s = "verify_stack"  -> StackDefects
AllDefects == UNION {Defects(s) : s \in Step}

\* Two of them keep a test suite from starting, so that nothing is counted:
\* an OpenAPI export that fails, a test database that cannot be prepared.
Unready == {"export", "database"}
Uncounted == Unready \cup {"coverage", "format"}

\* Tests that error in a fixture while others of their suite pass.  They come
\* last in the summary: a warning or a skip before them hides them.
Suite == {"mcp tests", "pytest"}
Errored == {"contract fixture", "fixture"}

Options == [full : BOOLEAN, fix : BOOLEAN, ci : BOOLEAN]
Parsed(arg, ci) ==
  [full |-> arg = "--full", fix |-> arg \in {"--full", "--fix"} /\ ~ci, ci |-> ci]
Running == 256  \* no exit status
Planned == IF opts.full THEN 8 ELSE 7
-----------------------------------------------------------------------------
Fresh ==
  /\ \E arg \in {"", "--fix", "--full"}, ci \in BOOLEAN : opts' = Parsed(arg, ci)
  /\ at' = 0 /\ report' = <<>> /\ errors' = 0 /\ exit' = Running
  /\ verified' = {} /\ failed' = 0 /\ faulty' = {} /\ noisy' = {}

Init ==
  /\ tree \in SUBSET AllDefects /\ Cardinality(tree) <= MaxDefects
  /\ \E arg \in {"", "--fix", "--full"}, ci \in BOOLEAN : opts = Parsed(arg, ci)
  /\ at = 0 /\ report = <<>> /\ errors = 0 /\ exit = Running
  /\ verified = {} /\ failed = 0 /\ faulty = {} /\ noisy = {}
  /\ previous = [green |-> FALSE, calm |-> FALSE, full |-> FALSE] /\ runs = 1

At(s) == /\ exit = Running /\ at \in 1..Planned /\ Order[at] = s

Hit(place, fault) ==
  \/ fault = "none" /\ UNCHANGED faulty
  \/ /\ fault # "none" /\ Cardinality(faulty) < MaxFaults
     /\ faulty' = faulty \cup {place}

\* Mutant of gate_record_step: A failing step ends the script.
RecordUnderErrexit(n) ==
  /\ report' = Append(report, [step |-> Order[at], status |-> IF n > 0 THEN "FAIL" ELSE "pass"])
  /\ errors' = errors + n
  /\ at' = IF n > 0 THEN Planned + 1 ELSE at + 1
  /\ UNCHANGED <<opts, exit, previous, runs>>

gate_record_step(n) ==
  /\ report' = Append(report, [step |-> Order[at], status |-> IF n > 0 THEN "FAIL" ELSE "pass"])
  /\ errors' = errors + n
  /\ at' = at + 1
  /\ UNCHANGED <<opts, exit, previous, runs>>

\* Without .venv the script ends before its first step.
Begin ==
  /\ at = 0 /\ exit = Running
  /\ \/ at' = 1 /\ UNCHANGED <<exit, faulty>>
     \/ Hit("venv", "missing") /\ exit' = 1 /\ UNCHANGED at
  /\ UNCHANGED <<tree, opts, report, errors, verified, failed, noisy, previous, runs>>
-----------------------------------------------------------------------------
One(condition) == IF condition THEN 1 ELSE 0

\* Mutant of Count: Broken JSON of basedpyright counts as no error.
CountNothing(s, fault, hidden) ==
  IF fault = "tool" \/ tree \cap Defects(s) \cap Unready # {}
  THEN 0
  ELSE One(tree \cap (Defects(s) \ (Uncounted \cup hidden)) # {})

\* A tool's exit status, and the errors gate_emit.py counts in its output but
\* for those hidden from it.  A crash leaves nothing to count, except that
\* basedpyright's JSON is then broken.
Exit(s, fault) == One(fault = "tool" \/ tree \cap Defects(s) # {})
Count(s, fault, hidden) ==
  IF fault = "tool" \/ tree \cap Defects(s) \cap Unready # {}
  THEN One(s = "basedpyright")
  ELSE One(tree \cap (Defects(s) \ (Uncounted \cup hidden)) # {})

\* Steps judged by the exit status; that of audit is 0 when nothing was found.
ByExit(s) ==
  /\ At(s)
  /\ \E fault \in {"none", "tool"} :
       Hit(s, fault) /\ gate_record_step(Exit(s, fault))
  /\ UNCHANGED <<tree, noisy, verified, failed>>

\* Steps judged by the summary, by the exit status only if there is none.
BySummary(s, hidden) ==
  /\ At(s)
  /\ \E fault \in {"none", "tool", "emitter"} :
       /\ Hit(s, fault)
       /\ gate_record_step(IF fault = "emitter" THEN Exit(s, fault)
                           ELSE Count(s, fault, hidden))
  /\ UNCHANGED <<tree, verified, failed>>

\* Whether a suite warns or skips is not up to the checkout alone: the MCP
\* tests skip one of theirs while no API answers.
SuiteRuns(s) ==
  \/ BySummary(s, {}) /\ UNCHANGED noisy
  \/ BySummary(s, Errored) /\ noisy' = noisy \cup {s}

Audit == ByExit("audit")
ImportLinter == ByExit("import-linter")
Pyright == BySummary("basedpyright", {}) /\ UNCHANGED noisy
McpTests == SuiteRuns("mcp tests")
Pytest == SuiteRuns("pytest")

\* Check mode reads the exit status of the format check, not of the lint.
RuffCheck ==
  /\ At("ruff") /\ ~opts.fix
  /\ \E fault \in {"none", "tool", "emitter", "formatter"} :
       /\ Hit("ruff", fault)
       /\ gate_record_step((IF fault = "emitter" THEN 0 ELSE Count("ruff", fault, {}))
                           + One(fault = "formatter" \/ "format" \in tree))
  /\ UNCHANGED <<tree, noisy, verified, failed>>

\* An autofix may break a test, or remove the import a fixture came by.
Breakable == Errored \cup {"contract", "tests"}

\* What ruff.sh leaves: a violation that stays ends it before it formats.
RuffFixed(fault) ==
  LET plain == tree \ {"autofix"}
      broken == {plain \cup {d} : d \in Breakable}
      fixed == {plain} \cup (IF "autofix" \in tree THEN broken ELSE {})
  IN  IF fault = "tool" THEN {tree} \cup fixed
      ELSE IF "lint" \in tree THEN fixed
      ELSE {t \ {"format"} : t \in fixed}

RuffFix ==
  /\ At("ruff") /\ opts.fix
  /\ \E fault \in {"none", "tool"} :
       /\ Hit("ruff", fault)
       /\ tree' \in RuffFixed(fault)
       /\ gate_record_step(One(fault = "tool" \/ "lint" \in tree))
  /\ UNCHANGED <<noisy, verified, failed>>

\* What shellcheck.sh leaves: only shfmt rewrites.
ShellFixed(fault) ==
  IF opts.fix THEN {tree \ {"shfmt"}} \cup (IF fault = "tool" THEN {tree} ELSE {})
  ELSE {tree}

Shell ==
  /\ At("shell")
  /\ \E fault \in {"none", "tool"} :
       /\ Hit("shell", fault)
       /\ tree' \in ShellFixed(fault)
       /\ gate_record_step(One(fault = "tool" \/ tree' \cap Defects("shell") # {}))
  /\ UNCHANGED <<noisy, verified, failed>>
-----------------------------------------------------------------------------
\* verify_stack.sh runs its scenarios inside "if !", where set -e is off: a
\* stage that fails is noticed only through the smoke test at the end.
BareMetalPasses(fault) ==
  \/ tree \cap StackDefects = {}
  \/ fault = "stale" /\ "api" \notin tree  \* the old volume is still there
  \/ fault = "port"                       \* another server answers
ComposePasses(fault) ==
  \/ tree \cap StackDefects = {}
  \/ fault = "stale"                      \* so are the old containers

Passes(sc, fault) ==
  IF sc = "compose" THEN ComposePasses(fault) ELSE BareMetalPasses(fault)

VerifyScenario(sc) ==
  /\ At("verify_stack") /\ sc \notin verified
  /\ sc = "compose" => "bare-metal" \in verified
  /\ \E fault \in {"none", "stale", "port"} :
       /\ fault = "port" => sc = "bare-metal"
       /\ Hit(sc, fault)
       /\ failed' = failed + One(~Passes(sc, fault))
  /\ verified' = verified \cup {sc}
  /\ UNCHANGED <<tree, opts, at, report, errors, exit, noisy, previous, runs>>

\* It ends with 1 if a scenario failed, or at once: a missing command, a
\* profile that is not local, a port in use.
VerifyStack ==
  /\ At("verify_stack")
  /\ \/ verified = Scenario /\ gate_record_step(One(failed > 0)) /\ UNCHANGED faulty
     \/ verified = {} /\ Hit("verify_stack", "refused") /\ gate_record_step(1)
  /\ UNCHANGED <<tree, noisy, verified, failed>>

gate_exit ==
  /\ exit = Running /\ at = Planned + 1
  /\ exit' = One(errors > 0)
  /\ UNCHANGED <<tree, opts, at, report, errors, verified, failed, faulty, noisy,
                 previous, runs>>

\* Someone, or CI, runs the gate again on what this run left.
Again ==
  /\ exit # Running /\ runs < MaxRuns
  /\ runs' = runs + 1
  /\ previous' = [green |-> exit = 0, calm |-> faulty = {}, full |-> opts.full]
  /\ Fresh
  /\ UNCHANGED tree

Next ==
  \/ Begin
  \/ Audit \/ RuffCheck \/ RuffFix \/ Shell \/ Pyright \/ ImportLinter
  \/ McpTests \/ Pytest
  \/ \E sc \in Scenario : VerifyScenario(sc)
  \/ VerifyStack
  \/ gate_exit
  \/ Again

Spec == Init /\ [][Next]_vars
-----------------------------------------------------------------------------
(***************************************************************************)
(* Properties.                                                             *)
(***************************************************************************)
Place == Step \cup Scenario \cup {"venv"}
Row == [step : Step, status : {"pass", "FAIL"}]

\* The state of the run, its report and its history have their types.
TypeOK ==
  /\ tree \in SUBSET AllDefects /\ opts \in Options
  /\ at \in 0..9 /\ report \in Seq(Row) /\ errors \in Nat
  /\ verified \in SUBSET Scenario /\ failed \in Nat
  /\ exit \in {Running, 0, 1} /\ faulty \in SUBSET Place
  /\ noisy \in SUBSET Suite
  /\ previous \in [green : BOOLEAN, calm : BOOLEAN, full : BOOLEAN] /\ runs \in Nat

\* "All steps run; summary at end; exit 1 on errors": whatever fails, a run
\* that got past its prerequisites ends with one row per planned step, in
\* order, and its exit status is that of the report (set +e in checks.sh).
ReportIsWhole ==
  exit # Running /\ "venv" \notin faulty =>
    /\ Len(report) = Planned
    /\ \A i \in DOMAIN report : report[i].step = Order[i]
    /\ exit = 1 <=> \E i \in DOMAIN report : report[i].status = "FAIL"

\* Errors in fixtures that a warning or a skip of their suite hid.
Hidden == {d \in Errored : \E s \in noisy : d \in Defects(s)}

\* What a gate that passed may have missed: what its summaries never count, and
\* the errors hidden from them; the tests of a suite that did not start or whose
\* run crashed; in check mode lint that crashed or whose output was not counted;
\* and the stack if it was not verified, or with both of its scenarios hit.
Missed ==
  (Uncounted \ {"format"}) \cup Hidden
    \cup (IF "export" \in tree \/ "mcp tests" \in faulty
          THEN {"contract", "contract fixture"} ELSE {})
    \cup (IF "database" \in tree \/ "pytest" \in faulty THEN {"tests", "fixture"} ELSE {})
    \cup (IF ~opts.fix /\ "ruff" \in faulty THEN {"lint", "autofix"} ELSE {})
    \cup (IF opts.full /\ ~(Scenario \subseteq faulty) THEN {} ELSE StackDefects)

\* A passing gate vouches for everything else: vulnerabilities, types, import
\* contracts, format and shell scripts whatever crashed, and with --full the
\* stack even when one scenario ran on a stale volume or a taken port.
PassMissesOnly == exit = 0 => tree \subseteq Missed

\* A run without faults passes on a checkout that a run without faults passed
\* and perhaps rewrote: green on the developer's machine is green in CI, the
\* fixes being made before the steps that judge them.  Errors that a skip hid
\* in the first run must be hidden in the second one too.
GreenStaysGreen ==
  (exit # Running /\ faulty = {} /\ previous.green /\ previous.calm
    /\ (opts.full => previous.full) /\ tree \cap Errored \subseteq Hidden) => exit = 0

\* In CI nothing is rewritten, whatever options are given.
CiRewritesNothing == [][opts.ci => tree' = tree]_vars
=============================================================================
