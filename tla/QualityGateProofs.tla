-------------------------- MODULE QualityGateProofs --------------------------
(***************************************************************************)
(* Proofs about the quality gate, for any number of defects, faults and    *)
(* runs.  Every step that runs a tool is first brought to one form, Judges; *)
(* the invariants are proved of that form.                                 *)
(***************************************************************************)
EXTENDS QualityGate, TLAPS

\* What a gate without faults may pass, with or without --full.
Silent(full) ==
  (Uncounted \ {"format"}) \cup Errored
    \cup (IF "export" \in tree THEN {"contract"} ELSE {})
    \cup (IF "database" \in tree THEN {"tests"} ELSE {})
    \cup (IF full THEN {} ELSE StackDefects)

\* A fixture of step s errs in the checkout, and the summary of s shows it.
ShownBy(s) == s \notin noisy /\ \E d \in Errored : d \in tree /\ d \in Defects(s)

\* A step records n errors, none only if what the tool objects to is gone or
\* among what may be missed, and none if nothing else was there to begin with and
\* the errors in its fixtures were hidden.
Judges(s) ==
  /\ At(s)
  /\ \E n \in Nat :
       /\ gate_record_step(n)
       /\ n = 0 => tree' \cap Defects(s) \subseteq Missed'
       /\ \A full \in BOOLEAN : faulty' = {} /\ tree \subseteq Silent(full) => n = 0 \/ ShownBy(s)'
  /\ faulty \subseteq faulty' /\ faulty' \subseteq Place
  /\ noisy \subseteq noisy' /\ noisy' \subseteq noisy \cup {s} /\ noisy' \subseteq Suite
  /\ \/ UNCHANGED tree
     \/ /\ s \in {"ruff", "shell"} /\ opts.fix
        /\ tree' \subseteq tree \cup (IF "autofix" \in tree THEN Breakable ELSE {})
        /\ \A d \in Unready : d \in tree' <=> d \in tree
        /\ \A d \in Errored : d \in tree => d \in tree'
  /\ UNCHANGED <<verified, failed>>

\* The report has a row of the right step for each step that ran, errors are
\* counted for exactly the failing ones, and the exit status follows.
Booked ==
  /\ at = 0 => report = <<>> /\ errors = 0
  /\ at > 0 => Len(report) = at - 1
  /\ at <= Planned + 1
  /\ \A i \in 1..Len(report) : report[i].step = Order[i]
  /\ errors > 0 <=> \E i \in 1..Len(report) : report[i].status = "FAIL"
  /\ exit # Running =>
       \/ at = Planned + 1 /\ exit = One(errors > 0)
       \/ "venv" \in faulty /\ exit = 1

\* While nothing failed, what the steps and scenarios so far object to is gone
\* or may have been missed.
Vouched ==
  /\ errors = 0 => \A i \in 1..(at - 1) : tree \cap Defects(Order[i]) \subseteq Missed
  /\ failed = 0 => \A sc \in verified : tree \cap StackDefects = {} \/ sc \in faulty

\* After a run without faults that passed, only silent defects are left, and a
\* run without faults that checks no more has nothing to report but errors in
\* fixtures that were hidden before.
Shown == \E i \in 1..(at - 1) : ShownBy(Order[i])
StillGreen ==
  faulty = {} /\ previous.green /\ previous.calm =>
    /\ tree \subseteq Silent(previous.full)
    /\ (opts.full => previous.full) => Shown \/ (errors = 0 /\ failed = 0)

CiNeverFixes == opts.ci => ~opts.fix

\* Only a suite that ran has a summary.
NoisyRan == \A s \in noisy : \E i \in 1..(at - 1) : Order[i] = s

IInv == TypeOK /\ Booked /\ NoisyRan /\ Vouched /\ StillGreen /\ CiNeverFixes

Tool ==
  \/ Audit \/ RuffCheck \/ RuffFix \/ Shell \/ Pyright \/ ImportLinter
  \/ McpTests \/ Pytest
-----------------------------------------------------------------------------
LEMMA OrderIs ==
  /\ Order[1] = "audit" /\ Order[2] = "ruff" /\ Order[3] = "shell"
  /\ Order[4] = "basedpyright" /\ Order[5] = "import-linter"
  /\ Order[6] = "mcp tests" /\ Order[7] = "pytest" /\ Order[8] = "verify_stack"
BY DEF Order

LEMMA StepIs ==
  Step = {"audit", "ruff", "shell", "basedpyright", "import-linter", "mcp tests",
          "pytest", "verify_stack"}
<1>1. 1..8 = {1, 2, 3, 4, 5, 6, 7, 8}
  OBVIOUS
<1>2. Step = {Order[i] : i \in {1, 2, 3, 4, 5, 6, 7, 8}}
  BY <1>1 DEF Step
<1>3. \A i \in {1, 2, 3, 4, 5, 6, 7, 8} :
        Order[i] \in {"audit", "ruff", "shell", "basedpyright", "import-linter",
                      "mcp tests", "pytest", "verify_stack"}
  BY OrderIs
<1>4. QED
  BY <1>2, <1>3, OrderIs

LEMMA DefectsAre ==
  /\ Defects("audit") = {"vulnerable"}
  /\ Defects("ruff") = {"lint", "autofix", "format"}
  /\ Defects("shell") = {"shfmt", "shellcheck"}
  /\ Defects("basedpyright") = {"types"}
  /\ Defects("import-linter") = {"imports"}
  /\ Defects("mcp tests") = {"contract", "contract fixture", "export"}
  /\ Defects("pytest") = {"tests", "fixture", "coverage", "database"}
  /\ Defects("verify_stack") = {"migration", "seed", "api"}
BY DEF Defects, StackDefects

LEMMA AllDefectsAre ==
  AllDefects = {"vulnerable", "lint", "autofix", "format", "shfmt", "shellcheck",
                "types", "imports", "contract", "contract fixture", "export", "tests",
                "fixture", "coverage", "database", "migration", "seed", "api"}
<1>1. AllDefects = UNION {Defects(s) : s \in {"audit", "ruff", "shell", "basedpyright",
        "import-linter", "mcp tests", "pytest", "verify_stack"}}
  BY StepIs DEF AllDefects
<1>2. ASSUME NEW d
      PROVE  d \in AllDefects <=>
               \/ d \in Defects("audit") \/ d \in Defects("ruff") \/ d \in Defects("shell")
               \/ d \in Defects("basedpyright") \/ d \in Defects("import-linter")
               \/ d \in Defects("mcp tests") \/ d \in Defects("pytest")
               \/ d \in Defects("verify_stack")
  BY <1>1
<1>3. QED
  BY <1>2, DefectsAre

\* Each step has defects of its own as far as fixtures go.
LEMMA FixturesAre ==
  ASSUME NEW d \in Errored, NEW s \in Step, d \in Defects(s)
  PROVE  /\ s \in Suite
         /\ \A t \in Suite : d \in Defects(t) => t = s
BY StepIs, DefectsAre DEF Errored, Suite

LEMMA OrderDistinct ==
  ASSUME NEW i \in 1..8, NEW j \in 1..8, Order[i] = Order[j]
  PROVE  i = j
<1>1. /\ i \in {1, 2, 3, 4, 5, 6, 7, 8}
      /\ j \in {1, 2, 3, 4, 5, 6, 7, 8}
  OBVIOUS
<1>2. \A k \in {1, 2, 3, 4, 5, 6, 7, 8} :
        /\ Order[k] = "audit" => k = 1
        /\ Order[k] = "ruff" => k = 2
        /\ Order[k] = "shell" => k = 3
        /\ Order[k] = "basedpyright" => k = 4
        /\ Order[k] = "import-linter" => k = 5
        /\ Order[k] = "mcp tests" => k = 6
        /\ Order[k] = "pytest" => k = 7
        /\ Order[k] = "verify_stack" => k = 8
  BY OrderIs
<1>3. CASE i = 1
  BY <1>1, <1>2, <1>3, OrderIs
<1>4. CASE i = 2
  BY <1>1, <1>2, <1>4, OrderIs
<1>5. CASE i = 3
  BY <1>1, <1>2, <1>5, OrderIs
<1>6. CASE i = 4
  BY <1>1, <1>2, <1>6, OrderIs
<1>7. CASE i = 5
  BY <1>1, <1>2, <1>7, OrderIs
<1>8. CASE i = 6
  BY <1>1, <1>2, <1>8, OrderIs
<1>9. CASE i = 7
  BY <1>1, <1>2, <1>9, OrderIs
<1>10. CASE i = 8
  BY <1>1, <1>2, <1>10, OrderIs
<1>11. QED
  BY <1>1, <1>3, <1>4, <1>5, <1>6, <1>7, <1>8, <1>9, <1>10

\* Every planned step is one of the eight.
LEMMA PlannedIs ==
  ASSUME TypeOK
  PROVE  Planned \in 7..8 /\ (Planned = 8 <=> opts.full)
BY DEF Planned, TypeOK, Options

LEMMA HitFacts ==
  ASSUME NEW place \in Place, NEW fault, faulty \in SUBSET Place, Hit(place, fault)
  PROVE  /\ faulty \subseteq faulty' /\ faulty' \in SUBSET Place
         /\ fault # "none" => place \in faulty'
BY DEF Hit

LEMMA PlacesAre ==
  Step \subseteq Place /\ Scenario \subseteq Place /\ "venv" \in Place
BY DEF Place
-----------------------------------------------------------------------------
\* The steps judged by the exit status.
LEMMA ByExitJudges ==
  ASSUME TypeOK, NEW s \in {"audit", "import-linter"}, ByExit(s)
  PROVE  Judges(s)
<1>1. PICK fault \in {"none", "tool"} : Hit(s, fault) /\ gate_record_step(Exit(s, fault))
  BY DEF ByExit
<1>2. s \in Place
  BY StepIs, PlacesAre
<1>3. faulty \subseteq faulty' /\ faulty' \in SUBSET Place /\ (fault # "none" => s \in faulty')
  BY <1>1, <1>2, HitFacts DEF TypeOK
<1>4. Exit(s, fault) \in Nat
  BY DEF Exit, One
<1>5. Exit(s, fault) = 0 => tree \cap Defects(s) = {}
  BY DEF Exit, One
<1>6. ASSUME NEW full \in BOOLEAN, faulty' = {}, tree \subseteq Silent(full)
      PROVE  Exit(s, fault) = 0
  BY <1>3, <1>6, DefectsAre DEF Exit, One, Silent, Uncounted, Unready, Errored, StackDefects
<1>7. UNCHANGED <<tree, noisy, verified, failed>> /\ At(s) /\ noisy \subseteq Suite
  BY DEF ByExit, TypeOK
<1>8. Exit(s, fault) = 0 => tree' \cap Defects(s) \subseteq Missed'
  BY <1>5, <1>7
<1>9. QED
  BY <1>1, <1>3, <1>4, <1>6, <1>7, <1>8 DEF Judges

\* What is left when the exit status is 0, and when the summary counts nothing.
LEMMA ExitsZero ==
  ASSUME NEW s, NEW fault, Exit(s, fault) = 0
  PROVE  tree \cap Defects(s) = {}
<1>1. ~(tree \cap Defects(s) # {})
  BY DEF Exit, One
<1>2. QED
  BY <1>1

LEMMA CountsNothing ==
  ASSUME NEW s, NEW fault, NEW hidden, Count(s, fault, hidden) = 0,
         NEW d \in tree, d \in Defects(s)
  PROVE  \/ d \in Uncounted \/ d \in hidden
         \/ /\ s # "basedpyright"
            /\ fault = "tool" \/ \E e \in Unready : e \in tree /\ e \in Defects(s)
BY DEF Count, One

LEMMA CountIsOne ==
  ASSUME NEW s, NEW fault, NEW hidden, Count(s, fault, hidden) # 0
  PROVE  \/ fault = "tool" /\ s = "basedpyright"
         \/ s = "basedpyright" /\ \E d \in tree : d \in Defects(s) /\ d \in Unready
         \/ /\ \A d \in Unready : d \in tree => d \notin Defects(s)
            /\ \E d \in tree : d \in Defects(s) /\ d \notin Uncounted /\ d \notin hidden
BY DEF Count, One

\* A step about to run has had no summary yet.
LEMMA NotYetNoisy ==
  ASSUME TypeOK, NoisyRan, NEW s, At(s)
  PROVE  s \notin noisy
<1>1. at \in 1..8 /\ Order[at] = s
  BY PlannedIs DEF At
<1>2. ASSUME NEW i \in 1..(at - 1)
      PROVE  Order[i] # s
  <2>1. i \in 1..8 /\ i # at
    BY <1>1
  <2>2. QED
    BY <1>1, <2>1, OrderDistinct
<1>3. QED
  BY <1>2 DEF NoisyRan

\* The steps judged by their summary, which may hide errors in fixtures.
LEMMA BySummaryJudges ==
  ASSUME TypeOK, NoisyRan,
         NEW s \in {"basedpyright", "mcp tests", "pytest"}, NEW hidden,
         BySummary(s, hidden),
         \/ hidden = {} /\ noisy' = noisy
         \/ hidden = Errored /\ s \in Suite /\ noisy' = noisy \cup {s}
  PROVE  Judges(s)
<1> DEFINE n(fault) == IF fault = "emitter" THEN Exit(s, fault) ELSE Count(s, fault, hidden)
<1>1. PICK fault \in {"none", "tool", "emitter"} : Hit(s, fault) /\ gate_record_step(n(fault))
  BY DEF BySummary
<1>2. s \in Place /\ s \in Step
  BY StepIs, PlacesAre
<1>3. faulty \subseteq faulty' /\ faulty' \in SUBSET Place /\ (fault # "none" => s \in faulty')
  BY <1>1, <1>2, HitFacts DEF TypeOK
<1>4. n(fault) \in Nat
  BY DEF Exit, Count, One
<1>5. /\ UNCHANGED <<tree, verified, failed>> /\ At(s)
      /\ noisy \subseteq noisy' /\ noisy' \subseteq noisy \cup {s} /\ noisy' \subseteq Suite
  BY DEF BySummary, TypeOK
<1>6. ASSUME n(fault) = 0, NEW d \in tree, d \in Defects(s)
      PROVE  d \in Missed'
  <2>1. CASE fault = "emitter"
    <3>1. Exit(s, fault) = 0
      BY <1>6, <2>1
    <3>2. tree \cap Defects(s) = {}
      BY <3>1, ExitsZero
    <3>3. QED
      BY <1>6, <3>2
  <2>2. CASE fault # "emitter"
    <3>1. \/ d \in Uncounted \/ d \in hidden
          \/ /\ s # "basedpyright"
             /\ fault = "tool" \/ \E e \in Unready : e \in tree /\ e \in Defects(s)
      <4>1. Count(s, fault, hidden) = 0
        BY <1>6, <2>2
      <4>2. QED
        BY <4>1, <1>6, CountsNothing
    <3>2. CASE d \in hidden
      <4>1. d \in Errored /\ s \in noisy' /\ d \in Defects(s)
        BY <1>6, <3>2
      <4>2. d \in Hidden'
        BY <4>1 DEF Hidden
      <4>3. QED
        BY <4>2 DEF Missed
    <3>3. CASE s = "basedpyright" /\ d \notin hidden
      BY <1>6, <3>1, <3>3, DefectsAre DEF Uncounted, Unready
    <3>4. CASE s = "mcp tests" /\ d \notin hidden
      <4>1. d \in {"contract", "contract fixture", "export"}
        BY <1>6, <3>4, DefectsAre
      <4>2. CASE d = "export"
        BY <4>2 DEF Missed, Uncounted, Unready
      <4>3. CASE d # "export"
        <5>1. "export" \in tree \/ "mcp tests" \in faulty'
          BY <1>3, <3>1, <3>4, <4>1, <4>3, DefectsAre DEF Uncounted, Unready
        <5>2. QED
          BY <1>5, <4>1, <4>3, <5>1 DEF Missed
      <4>4. QED
        BY <4>2, <4>3
    <3>5. CASE s = "pytest" /\ d \notin hidden
      <4>1. d \in {"tests", "fixture", "coverage", "database"}
        BY <1>6, <3>5, DefectsAre
      <4>2. CASE d \in {"coverage", "database"}
        BY <4>2 DEF Missed, Uncounted, Unready
      <4>3. CASE d \in {"tests", "fixture"}
        <5>1. "database" \in tree \/ "pytest" \in faulty'
          BY <1>3, <3>1, <3>5, <4>3, DefectsAre DEF Uncounted, Unready
        <5>2. QED
          BY <1>5, <4>3, <5>1 DEF Missed
      <4>4. QED
        BY <4>1, <4>2, <4>3
    <3>6. QED
      BY <3>2, <3>3, <3>4, <3>5
  <2>3. QED
    BY <2>1, <2>2
<1>7. ASSUME NEW full \in BOOLEAN, faulty' = {}, tree \subseteq Silent(full), n(fault) # 0
      PROVE  ShownBy(s)'
  <2>1. fault = "none" /\ Count(s, fault, hidden) # 0
    BY <1>3, <1>7
  <2>2. PICK d \in tree : /\ d \in Defects(s)
                          /\ \/ s = "basedpyright" /\ d \in Unready
                             \/ /\ d \notin Uncounted /\ d \notin hidden
                                /\ \A e \in Unready : e \in tree => e \notin Defects(s)
    BY <2>1, CountIsOne
  <2>3. d \in Silent(full)
    BY <1>7, <2>2
  <2>4. d \in Errored /\ d \notin hidden
    <3>1. CASE s = "basedpyright"
      BY <2>2, <2>3, <3>1, DefectsAre DEF Silent, Uncounted, Unready, Errored, StackDefects
    <3>2. CASE s = "mcp tests"
      BY <2>2, <2>3, <3>2, DefectsAre DEF Silent, Uncounted, Unready, Errored, StackDefects
    <3>3. CASE s = "pytest"
      BY <2>2, <2>3, <3>3, DefectsAre DEF Silent, Uncounted, Unready, Errored, StackDefects
    <3>4. QED
      BY <3>1, <3>2, <3>3
  <2>5. s \notin noisy'
    <3>1. hidden # Errored
      BY <2>4
    <3>2. s \notin noisy
      BY <1>5, NotYetNoisy
    <3>3. QED
      BY <3>1, <3>2
  <2>6. QED
    BY <1>5, <2>2, <2>4, <2>5 DEF ShownBy
<1>8. QED
  BY <1>1, <1>3, <1>4, <1>5, <1>6, <1>7 DEF Judges
-----------------------------------------------------------------------------
LEMMA RuffCheckJudges ==
  ASSUME TypeOK, RuffCheck
  PROVE  Judges("ruff")
<1> DEFINE lint(fault) == IF fault = "emitter" THEN 0 ELSE Count("ruff", fault, {})
           fmt(fault) == One(fault = "formatter" \/ "format" \in tree)
           n(fault) == lint(fault) + fmt(fault)
<1>1. PICK fault \in {"none", "tool", "emitter", "formatter"} :
        Hit("ruff", fault) /\ gate_record_step(n(fault))
  BY DEF RuffCheck
<1>2. "ruff" \in Place
  BY StepIs, PlacesAre
<1>3. /\ faulty \subseteq faulty' /\ faulty' \in SUBSET Place
      /\ fault # "none" => "ruff" \in faulty'
  BY <1>1, <1>2, HitFacts DEF TypeOK
<1>4. lint(fault) \in Nat /\ fmt(fault) \in Nat
  BY DEF Count, One
<1> HIDE DEF lint, fmt
<1>5. /\ n(fault) \in Nat
      /\ n(fault) = 0 <=> lint(fault) = 0 /\ fmt(fault) = 0
  BY <1>4
<1> HIDE DEF n
<1>6. /\ UNCHANGED <<tree, noisy, verified, failed>> /\ At("ruff") /\ ~opts.fix
      /\ noisy \subseteq Suite
  BY DEF RuffCheck, TypeOK
<1>7. ASSUME n(fault) = 0, NEW d \in tree, d \in Defects("ruff")
      PROVE  d \in Missed'
  <2>1. lint(fault) = 0 /\ fmt(fault) = 0
    BY <1>7, <1>5
  <2>2. d \in {"lint", "autofix"}
    <3>1. ~(fault = "formatter" \/ "format" \in tree)
      BY <2>1 DEF fmt, One
    <3>2. QED
      BY <1>7, <3>1, DefectsAre
  <2>3. "ruff" \in faulty'
    <3>1. CASE fault = "emitter"
      BY <1>3, <3>1
    <3>2. CASE fault # "emitter"
      <4>1. Count("ruff", fault, {}) = 0
        BY <2>1, <3>2 DEF lint
      <4>2. d \notin Uncounted /\ (\A e \in Unready : e \notin Defects("ruff"))
        BY <2>2, DefectsAre DEF Uncounted, Unready
      <4>3. fault = "tool"
        BY <1>7, <4>1, <4>2, CountsNothing
      <4>4. QED
        BY <1>3, <4>3
    <3>3. QED
      BY <3>1, <3>2
  <2>4. opts' = opts
    BY <1>1 DEF gate_record_step
  <2>5. QED
    BY <1>6, <2>2, <2>3, <2>4 DEF Missed
<1>8. ASSUME NEW full \in BOOLEAN, faulty' = {}, tree \subseteq Silent(full)
      PROVE  n(fault) = 0
  <2>1. fault = "none"
    BY <1>3, <1>8
  <2>2. /\ "lint" \notin tree
        /\ "autofix" \notin tree
        /\ "format" \notin tree
    BY <1>8 DEF Silent, Uncounted, Unready, Errored, StackDefects
  <2>3. Count("ruff", fault, {}) = 0
    <3>1. tree \cap Defects("ruff") = {}
      BY <2>2, DefectsAre
    <3>2. ~(fault = "tool" \/ tree \cap Defects("ruff") \cap Unready # {})
      BY <2>1, <3>1
    <3>3. ~(tree \cap (Defects("ruff") \ Uncounted) # {})
      BY <3>1
    <3>4. QED
      BY <3>2, <3>3 DEF Count, One
  <2>4. QED
    <3>1. ~(fault = "formatter" \/ "format" \in tree)
      BY <2>1, <2>2
    <3>2. fmt(fault) = 0
      BY <3>1 DEF fmt, One
    <3>3. QED
      BY <1>5, <2>1, <2>3, <3>2 DEF lint
<1>9. QED
  BY <1>1, <1>3, <1>6, <1>7, <1>8, <1>5 DEF Judges

\* The two steps that rewrite the checkout with --fix.
LEMMA RuffFixJudges ==
  ASSUME TypeOK, RuffFix
  PROVE  Judges("ruff")
<1> DEFINE n(fault) == One(fault = "tool" \/ "lint" \in tree)
<1>1. PICK fault \in {"none", "tool"} :
        Hit("ruff", fault) /\ tree' \in RuffFixed(fault) /\ gate_record_step(n(fault))
  BY DEF RuffFix
<1>2. "ruff" \in Place
  BY StepIs, PlacesAre
<1>3. /\ faulty \subseteq faulty' /\ faulty' \in SUBSET Place
      /\ fault # "none" => "ruff" \in faulty'
  BY <1>1, <1>2, HitFacts DEF TypeOK
<1>4. n(fault) \in Nat
  BY DEF One
<1>5. UNCHANGED <<noisy, verified, failed>> /\ At("ruff") /\ opts.fix /\ noisy \subseteq Suite
  BY DEF RuffFix, TypeOK
<1>6. /\ tree' \subseteq tree \cup (IF "autofix" \in tree THEN Breakable ELSE {})
      /\ \A d \in Unready : d \in tree' <=> d \in tree
      /\ \A d \in Errored : d \in tree => d \in tree'
      /\ fault # "tool" => "autofix" \notin tree'
      /\ fault # "tool" /\ "lint" \notin tree => "format" \notin tree' /\ "lint" \notin tree'
  <2>1. PICK t :
          /\ \/ fault = "tool" /\ t = tree
             \/ t = tree \ {"autofix"}
             \/ "autofix" \in tree /\ \E d \in Breakable : t = (tree \ {"autofix"}) \cup {d}
          /\ tree' = t \/ tree' = t \ {"format"}
          /\ fault = "tool" \/ "lint" \in tree \/ tree' = t \ {"format"}
    <3>1. CASE fault = "tool"
      BY <1>1, <3>1 DEF RuffFixed
    <3>2. CASE fault # "tool" /\ "lint" \in tree
      BY <1>1, <3>2 DEF RuffFixed
    <3>3. CASE fault # "tool" /\ "lint" \notin tree
      BY <1>1, <3>3 DEF RuffFixed
    <3>4. QED
      BY <3>1, <3>2, <3>3
  <2>2. /\ \A e \in t : e \in tree \/ (e \in Breakable /\ "autofix" \in tree)
        /\ \A e \in tree : e \in t \/ e = "autofix"
        /\ fault # "tool" => "autofix" \notin t
    <3>1. "autofix" \notin Breakable
      BY DEF Breakable, Errored
    <3>2. CASE t = tree /\ fault = "tool"
      BY <3>2
    <3>3. CASE t = tree \ {"autofix"}
      BY <3>3
    <3>4. CASE "autofix" \in tree /\ \E d \in Breakable : t = (tree \ {"autofix"}) \cup {d}
      BY <3>1, <3>4
    <3>5. QED
      BY <2>1, <3>2, <3>3, <3>4, Zenon
  <2>3. /\ \A e \in tree' : e \in t
        /\ \A e \in t : e \in tree' \/ e = "format"
        /\ fault # "tool" /\ "lint" \notin tree => "format" \notin tree'
    BY <2>1
  <2>4. tree' \subseteq tree \cup (IF "autofix" \in tree THEN Breakable ELSE {})
    BY <2>2, <2>3
  <2>5. \A d \in Unready : d \in tree' <=> d \in tree
    BY <2>2, <2>3 DEF Unready, Breakable, Errored
  <2>6. \A d \in Errored : d \in tree => d \in tree'
    BY <2>2, <2>3 DEF Errored
  <2>7. "lint" \notin tree => "lint" \notin tree'
    BY <2>2, <2>3 DEF Breakable, Errored
  <2>8. QED
    BY <2>2, <2>3, <2>4, <2>5, <2>6, <2>7
<1>7. ASSUME n(fault) = 0
      PROVE  tree' \cap Defects("ruff") \subseteq Missed'
  <2>1. fault # "tool" /\ "lint" \notin tree
    BY <1>7 DEF One
  <2>2. QED
    BY <1>6, <2>1, DefectsAre
<1>8. ASSUME NEW full \in BOOLEAN, faulty' = {}, tree \subseteq Silent(full)
      PROVE  n(fault) = 0
  <2>1. fault = "none"
    BY <1>3, <1>8
  <2>2. "lint" \notin tree
    BY <1>8 DEF Silent, Uncounted, Unready, Errored, StackDefects
  <2>3. QED
    BY <2>1, <2>2 DEF One
<1>9. QED
  BY <1>1, <1>3, <1>4, <1>5, <1>6, <1>7, <1>8 DEF Judges

LEMMA ShellJudges ==
  ASSUME TypeOK, Shell
  PROVE  Judges("shell") /\ (~opts.fix => UNCHANGED tree)
<1> DEFINE n(fault) == One(fault = "tool" \/ tree' \cap Defects("shell") # {})
<1>1. PICK fault \in {"none", "tool"} :
        Hit("shell", fault) /\ tree' \in ShellFixed(fault) /\ gate_record_step(n(fault))
  BY DEF Shell
<1>2. "shell" \in Place
  BY StepIs, PlacesAre
<1>3. /\ faulty \subseteq faulty' /\ faulty' \in SUBSET Place
      /\ fault # "none" => "shell" \in faulty'
  BY <1>1, <1>2, HitFacts DEF TypeOK
<1>4. n(fault) \in Nat
  BY DEF One
<1>5. UNCHANGED <<noisy, verified, failed>> /\ At("shell") /\ noisy \subseteq Suite
  BY DEF Shell, TypeOK
<1>6. /\ tree' \subseteq tree
      /\ \A d \in Unready : d \in tree' <=> d \in tree
      /\ \A d \in Errored : d \in tree => d \in tree'
      /\ ~opts.fix => UNCHANGED tree
  BY <1>1 DEF ShellFixed, Unready, Errored
<1>7. ASSUME n(fault) = 0
      PROVE  tree' \cap Defects("shell") \subseteq Missed'
  BY <1>7 DEF One
<1>8. ASSUME NEW full \in BOOLEAN, faulty' = {}, tree \subseteq Silent(full)
      PROVE  n(fault) = 0
  <2>1. fault = "none"
    BY <1>3, <1>8
  <2>2. "shfmt" \notin tree /\ "shellcheck" \notin tree
    BY <1>8 DEF Silent, Uncounted, Unready, Errored, StackDefects
  <2>3. tree' \cap Defects("shell") = {}
    BY <1>6, <2>2, DefectsAre
  <2>4. QED
    BY <2>1, <2>3 DEF One
<1>9. UNCHANGED tree \/ opts.fix
  BY <1>1, <1>6 DEF TypeOK, Options
<1>10. QED
  BY <1>1, <1>3, <1>4, <1>5, <1>6, <1>7, <1>8, <1>9 DEF Judges

LEMMA ToolsJudge ==
  ASSUME TypeOK, NoisyRan, Tool
  PROVE  \E i \in 1..7 : Judges(Order[i])
<1>1. \/ Judges("audit") \/ Judges("ruff") \/ Judges("shell") \/ Judges("basedpyright")
      \/ Judges("import-linter") \/ Judges("mcp tests") \/ Judges("pytest")
  <2>1. Audit => Judges("audit")
    BY ByExitJudges DEF Audit
  <2>2. ImportLinter => Judges("import-linter")
    BY ByExitJudges DEF ImportLinter
  <2>3. Pyright => Judges("basedpyright")
    BY BySummaryJudges DEF Pyright
  <2>4. McpTests => Judges("mcp tests")
    BY BySummaryJudges DEF McpTests, SuiteRuns, Suite
  <2>5. Pytest => Judges("pytest")
    BY BySummaryJudges DEF Pytest, SuiteRuns, Suite
  <2>6. QED
    BY <2>1, <2>2, <2>3, <2>4, <2>5, RuffCheckJudges, RuffFixJudges, ShellJudges DEF Tool
<1>2. /\ 1 \in 1..7 /\ 2 \in 1..7 /\ 3 \in 1..7 /\ 4 \in 1..7
      /\ 5 \in 1..7 /\ 6 \in 1..7 /\ 7 \in 1..7
  OBVIOUS
<1>3. QED
  BY <1>1, <1>2, OrderIs
-----------------------------------------------------------------------------
LEMMA OrderInStep ==
  ASSUME NEW i \in 1..8
  PROVE  Order[i] \in Step
BY DEF Step

\* A step that records keeps the types of what it records into.
LEMMA RecordKeepsTypes ==
  ASSUME TypeOK, at \in 1..Planned, NEW n \in Nat, gate_record_step(n)
  PROVE  /\ at' \in 0..9 /\ report' \in Seq(Row) /\ errors' \in Nat
         /\ opts' \in Options /\ exit' \in {Running, 0, 1} /\ runs' \in Nat
         /\ previous' \in [green : BOOLEAN, calm : BOOLEAN, full : BOOLEAN]
<1>1. at \in 1..8
  BY PlannedIs
<1>2. Order[at] \in Step
  BY <1>1, OrderInStep
<1>3. [step |-> Order[at], status |-> IF n > 0 THEN "FAIL" ELSE "pass"] \in Row
  BY <1>2 DEF Row
<1>4. QED
  BY <1>1, <1>3 DEF gate_record_step, TypeOK

\* A step that records keeps the books.
LEMMA RecordKeepsBooked ==
  ASSUME TypeOK, Booked, at \in 1..Planned, exit = Running, NEW n \in Nat,
         gate_record_step(n)
  PROVE  Booked'
<1> DEFINE row == [step |-> Order[at], status |-> IF n > 0 THEN "FAIL" ELSE "pass"]
<1>1. /\ report' = Append(report, row) /\ errors' = errors + n
      /\ at' = at + 1 /\ UNCHANGED <<opts, exit>>
  BY DEF gate_record_step
<1>2. report \in Seq(Row) /\ errors \in Nat /\ Planned \in 7..8 /\ Planned' = Planned
  BY <1>1, PlannedIs DEF TypeOK, Planned
<1>3. Len(report) = at - 1 /\ at \in 1..8
  BY <1>2 DEF Booked
<1>4. row.step = Order[at] /\ (row.status = "FAIL" <=> n > 0)
  OBVIOUS
<1> HIDE DEF row
<1>5. /\ Len(report') = at
      /\ \A i \in 1..(at - 1) : report'[i] = report[i]
      /\ report'[at] = row
  BY <1>1, <1>2, <1>3
<1>6. \A i \in 1..Len(report') : report'[i].step = Order[i]
  <2>1. SUFFICES ASSUME NEW i \in 1..at
                 PROVE  report'[i].step = Order[i]
    BY <1>5
  <2>2. CASE i = at
    BY <1>4, <1>5, <2>2
  <2>3. CASE i # at
    BY <1>3, <1>5, <2>3 DEF Booked
  <2>4. QED
    BY <2>2, <2>3
<1>7. errors' > 0 <=> \E i \in 1..Len(report') : report'[i].status = "FAIL"
  <2>1. errors' > 0 <=> errors > 0 \/ n > 0
    BY <1>1, <1>2
  <2>2. errors > 0 <=> \E i \in 1..(at - 1) : report'[i].status = "FAIL"
    BY <1>3, <1>5 DEF Booked
  <2>3. n > 0 <=> report'[at].status = "FAIL"
    BY <1>4, <1>5
  <2>4. ASSUME NEW i \in 1..at
        PROVE  i = at \/ i \in 1..(at - 1)
    BY <1>3
  <2>5. at \in 1..at /\ \A i \in 1..(at - 1) : i \in 1..at
    BY <1>3
  <2>6. QED
    BY <1>5, <2>1, <2>2, <2>3, <2>4, <2>5
<1>8. QED
  BY <1>1, <1>2, <1>3, <1>5, <1>6, <1>7 DEF Booked

\* What may be missed only grows with the faults.
LEMMA MissedGrows ==
  ASSUME faulty \subseteq faulty', noisy \subseteq noisy', opts' = opts,
         \A d \in Unready : d \in tree' <=> d \in tree
  PROVE  Missed \subseteq Missed'
<1>1. "export" \in Unready /\ "database" \in Unready
  BY DEF Unready
<1>2. Scenario \subseteq faulty => Scenario \subseteq faulty'
  OBVIOUS
<1>3. (Uncounted \ {"format"})' = Uncounted \ {"format"} /\ StackDefects' = StackDefects
  BY DEF Uncounted, Unready, StackDefects
<1>4. SUFFICES ASSUME NEW d \in Missed
               PROVE  d \in Missed'
  OBVIOUS
<1>5. Hidden \subseteq Hidden'
  BY DEF Hidden
<1>6. QED
  BY <1>1, <1>2, <1>3, <1>5 DEF Missed

-----------------------------------------------------------------------------
\* The steps that run a tool preserve the invariant.
LEMMA ToolKeepsTypes ==
  ASSUME TypeOK, NEW i \in 1..7, Judges(Order[i])
  PROVE  TypeOK'
<1>1. at \in 1..Planned
  BY DEF Judges, At
<1>2. PICK n \in Nat : gate_record_step(n)
  BY DEF Judges
<1>3. /\ at' \in 0..9 /\ report' \in Seq(Row) /\ errors' \in Nat
      /\ opts' \in Options /\ exit' \in {Running, 0, 1} /\ runs' \in Nat
      /\ previous' \in [green : BOOLEAN, calm : BOOLEAN, full : BOOLEAN]
  BY <1>1, <1>2, RecordKeepsTypes
<1>4. tree' \in SUBSET AllDefects
  <2>1. Breakable \subseteq AllDefects
    BY AllDefectsAre DEF Breakable, Errored
  <2>2. QED
    BY <2>1 DEF Judges, TypeOK
<1>5. /\ faulty' \in SUBSET Place /\ noisy' \in SUBSET Suite
      /\ verified' = verified /\ failed' = failed
  BY DEF Judges
<1>6. QED
  BY <1>3, <1>4, <1>5 DEF TypeOK

LEMMA ToolKeepsVouched ==
  ASSUME TypeOK, Booked, Vouched, NEW i \in 1..7, Judges(Order[i])
  PROVE  Vouched'
<1>1. at \in 1..8 /\ Order[at] = Order[i]
  BY PlannedIs DEF Judges, At
<1>2. PICK n \in Nat :
        gate_record_step(n) /\ (n = 0 => tree' \cap Defects(Order[i]) \subseteq Missed')
  BY DEF Judges
<1>3. /\ errors' = errors + n /\ at' = at + 1 /\ opts' = opts
      /\ faulty \subseteq faulty' /\ noisy \subseteq noisy'
      /\ verified' = verified /\ failed' = failed
  BY <1>2 DEF gate_record_step, Judges
<1>4. \A d \in Unready : d \in tree' <=> d \in tree
  BY DEF Judges
<1>5. Missed \subseteq Missed'
  BY <1>3, <1>4, MissedGrows
<1>6. tree' \subseteq tree \cup Breakable
  BY DEF Judges
<1>7. ASSUME NEW j \in 1..(at - 1)
      PROVE  tree' \cap Defects(Order[j]) \subseteq tree
  <2>1. CASE tree' = tree
    BY <2>1
  <2>2. CASE Order[i] \in {"ruff", "shell"}
    <3>1. at \in {2, 3}
      <4>1. at \in {1, 2, 3, 4, 5, 6, 7, 8}
        BY <1>1
      <4>2. QED
        BY <1>1, <2>2, <4>1, OrderIs
    <3>2. j \in {1, 2}
      BY <3>1
    <3>3. Breakable \cap Defects(Order[j]) = {}
      BY <3>2, OrderIs, DefectsAre DEF Breakable, Errored
    <3>4. QED
      BY <1>6, <3>3
  <2>3. QED
    BY <2>1, <2>2 DEF Judges
<1>8. ASSUME errors' = 0, NEW j \in 1..(at' - 1)
      PROVE  tree' \cap Defects(Order[j]) \subseteq Missed'
  <2>1. errors = 0 /\ n = 0
    BY <1>3, <1>8 DEF TypeOK
  <2>2. CASE j = at
    BY <1>1, <1>2, <2>1, <2>2
  <2>3. CASE j # at
    <3>1. j \in 1..(at - 1)
      BY <1>1, <1>3, <2>3
    <3>2. tree \cap Defects(Order[j]) \subseteq Missed
      BY <2>1, <3>1 DEF Vouched
    <3>3. QED
      BY <1>5, <1>7, <3>1, <3>2
  <2>4. QED
    BY <2>2, <2>3
<1>9. ASSUME failed' = 0, NEW sc \in verified'
      PROVE  tree' \cap StackDefects = {} \/ sc \in faulty'
  <2>1. Breakable \cap StackDefects = {}
    BY DEF Breakable, Errored, StackDefects
  <2>2. QED
    BY <1>3, <1>6, <1>9, <2>1 DEF Vouched
<1>10. QED
  BY <1>8, <1>9 DEF Vouched, StackDefects

\* What a summary showed stays shown for the rest of the run.
LEMMA ShownStays ==
  ASSUME NEW i \in 1..(at - 1), at \in 1..8, ShownBy(Order[i]),
         noisy' \subseteq noisy \cup {Order[at]},
         \A d \in Errored : d \in tree => d \in tree'
  PROVE  ShownBy(Order[i])'
<1>1. i \in 1..8 /\ i # at
  OBVIOUS
<1>2. Order[i] # Order[at]
  BY <1>1, OrderDistinct
<1>3. QED
  BY <1>2 DEF ShownBy, Errored, Defects, Order, StackDefects

LEMMA ToolKeepsGreen ==
  ASSUME TypeOK, StillGreen, NEW i \in 1..7, Judges(Order[i])
  PROVE  StillGreen'
<1>1. SUFFICES ASSUME faulty' = {}, previous'.green, previous'.calm
               PROVE  /\ tree' \subseteq Silent(previous.full)'
                      /\ (opts'.full => previous'.full) =>
                           Shown' \/ (errors' = 0 /\ failed' = 0)
  BY DEF StillGreen
<1>2. PICK n \in Nat :
        /\ gate_record_step(n)
        /\ \A full \in BOOLEAN :
             faulty' = {} /\ tree \subseteq Silent(full) => n = 0 \/ ShownBy(Order[i])'
  BY DEF Judges
<1>3. /\ previous' = previous /\ opts' = opts /\ errors' = errors + n /\ at' = at + 1
      /\ faulty = {} /\ failed' = failed
  BY <1>1, <1>2 DEF gate_record_step, Judges
<1>4. /\ tree \subseteq Silent(previous.full) /\ previous.full \in BOOLEAN
      /\ (opts.full => previous.full) => Shown \/ (errors = 0 /\ failed = 0)
  BY <1>1, <1>3 DEF StillGreen, TypeOK
<1>5. n = 0 \/ ShownBy(Order[i])'
  BY <1>1, <1>2, <1>4
<1>6. "autofix" \notin tree
  BY <1>4 DEF Silent, Uncounted, Unready, Errored, StackDefects
<1>7. tree' \subseteq tree /\ \A d \in Errored : d \in tree => d \in tree'
  BY <1>6 DEF Judges
<1>8. Silent(previous.full)' = Silent(previous.full)
  <2>1. \A d \in Unready : d \in tree' <=> d \in tree
    BY DEF Judges
  <2>2. QED
    BY <1>3, <2>1 DEF Silent, Unready, Uncounted, Errored, StackDefects
<1>9. at \in 1..8 /\ Order[at] = Order[i] /\ noisy' \subseteq noisy \cup {Order[at]}
  BY PlannedIs DEF Judges, At
<1>10. ShownBy(Order[i])' => Shown'
  <2>1. at \in 1..(at' - 1)
    BY <1>3, <1>9
  <2>2. QED
    BY <1>9, <2>1 DEF Shown, ShownBy
<1>11. Shown => Shown'
  <2>1. SUFFICES ASSUME NEW j \in 1..(at - 1), ShownBy(Order[j])
                 PROVE  Shown'
    BY DEF Shown
  <2>2. ShownBy(Order[j])' /\ j \in 1..(at' - 1)
    BY <1>3, <1>7, <1>9, <2>1, ShownStays
  <2>3. QED
    BY <2>2 DEF Shown
<1>12. QED
  BY <1>3, <1>4, <1>5, <1>7, <1>8, <1>10, <1>11 DEF TypeOK

LEMMA ToolStep ==
  ASSUME IInv, Tool
  PROVE  IInv' /\ (opts.ci => tree' = tree)
<1>1. PICK i \in 1..7 : Judges(Order[i])
  BY ToolsJudge DEF IInv
<1>2. PICK n \in Nat : gate_record_step(n)
  BY <1>1 DEF Judges
<1>3. at \in 1..Planned /\ exit = Running
  BY <1>1 DEF Judges, At
<1>4. Booked'
  BY <1>2, <1>3, RecordKeepsBooked DEF IInv
<1>5. TypeOK' /\ Vouched' /\ StillGreen'
  BY <1>1, ToolKeepsTypes, ToolKeepsVouched, ToolKeepsGreen DEF IInv
<1>6. CiNeverFixes' /\ NoisyRan'
  <2>1. /\ CiNeverFixes' /\ at' = at + 1
        /\ noisy' \subseteq noisy \cup {Order[at]} /\ at \in 1..8
    BY <1>1, <1>2, <1>3, PlannedIs DEF Judges, At, gate_record_step, IInv, CiNeverFixes
  <2>2. at \in 1..(at' - 1) /\ \A j \in 1..(at - 1) : j \in 1..(at' - 1)
    BY <2>1
  <2>3. QED
    BY <2>1, <2>2 DEF IInv, NoisyRan
<1>7. opts.ci => tree' = tree
  BY <1>1 DEF Judges, IInv, CiNeverFixes
<1>8. QED
  BY <1>4, <1>5, <1>6, <1>7 DEF IInv
-----------------------------------------------------------------------------
LEMMA NoisyStays ==
  ASSUME IInv, noisy' = noisy, at' = at \/ at' = at + 1
  PROVE  NoisyRan'
<1>1. \A i \in 1..(at - 1) : i \in 1..(at' - 1)
  BY DEF IInv, TypeOK
<1>2. QED
  BY <1>1 DEF IInv, NoisyRan

\* The other steps preserve it.  A scenario passes without a fault only if the
\* stack has no defect.
LEMMA ScenarioStep ==
  ASSUME IInv, NEW sc \in Scenario, VerifyScenario(sc)
  PROVE  IInv' /\ tree' = tree
<1>1. PICK fault \in {"none", "stale", "port"} :
        Hit(sc, fault) /\ failed' = failed + One(~Passes(sc, fault))
  BY DEF VerifyScenario
<1>2. /\ verified' = verified \cup {sc}
      /\ UNCHANGED <<tree, opts, at, report, errors, exit, noisy, previous, runs>>
      /\ At("verify_stack")
  BY DEF VerifyScenario
<1>3. /\ faulty \subseteq faulty' /\ faulty' \in SUBSET Place
      /\ fault # "none" => sc \in faulty'
  BY <1>1, HitFacts, PlacesAre DEF IInv, TypeOK
<1>4. One(~Passes(sc, fault)) \in Nat /\ failed \in Nat
  BY DEF One, IInv, TypeOK
<1>5. /\ Passes(sc, "none") <=> tree \cap StackDefects = {}
      /\ One(~Passes(sc, fault)) = 0 <=> Passes(sc, fault)
  BY DEF Passes, ComposePasses, BareMetalPasses, One
<1>6. failed' = 0 <=> failed = 0 /\ Passes(sc, fault)
  BY <1>1, <1>4, <1>5
<1>7. TypeOK'
  BY <1>1, <1>2, <1>3, <1>4 DEF IInv, TypeOK
<1>8. Booked'
  BY <1>2, <1>3 DEF IInv, Booked, Planned, At
<1>9. Vouched'
  <2>1. Missed \subseteq Missed'
    BY <1>2, <1>3, MissedGrows
  <2>2. errors' = 0 => \A i \in 1..(at' - 1) : tree' \cap Defects(Order[i]) \subseteq Missed'
    BY <1>2, <2>1 DEF IInv, Vouched
  <2>3. ASSUME failed' = 0, NEW s \in verified'
        PROVE  tree' \cap StackDefects = {} \/ s \in faulty'
    <3>1. CASE s \in verified
      BY <1>2, <1>3, <1>6, <2>3, <3>1 DEF IInv, Vouched
    <3>2. CASE s = sc
      BY <1>2, <1>3, <1>5, <1>6, <2>3, <3>2
    <3>3. QED
      BY <1>2, <3>1, <3>2
  <2>4. QED
    BY <2>2, <2>3 DEF Vouched, StackDefects
<1>10. StillGreen'
  <2>1. SUFFICES ASSUME faulty' = {}, previous.green, previous.calm
                 PROVE  /\ tree \subseteq Silent(previous.full)
                        /\ (opts.full => previous.full) =>
                             Shown \/ (errors = 0 /\ failed' = 0)
    BY <1>2 DEF StillGreen, Shown, ShownBy, Silent, Uncounted, Unready, Errored, StackDefects
  <2>2. /\ tree \subseteq Silent(previous.full)
        /\ (opts.full => previous.full) => Shown \/ (errors = 0 /\ failed = 0)
    BY <1>3, <2>1 DEF IInv, StillGreen
  <2>3. opts.full
    <3>1. at = 8
      <4>1. at \in {1, 2, 3, 4, 5, 6, 7, 8}
        BY <1>2, PlannedIs DEF At, IInv
      <4>2. QED
        BY <1>2, <4>1, OrderIs DEF At
    <3>2. QED
      BY <1>2, <3>1, PlannedIs DEF At, IInv
  <2>4. previous.full => tree \cap StackDefects = {}
    BY <2>2 DEF Silent, Uncounted, Unready, Errored, StackDefects
  <2>5. QED
    BY <1>3, <1>5, <1>6, <2>1, <2>2, <2>3, <2>4
<1>11. CiNeverFixes' /\ NoisyRan'
  BY <1>2, NoisyStays DEF IInv, CiNeverFixes
<1>12. QED
  BY <1>2, <1>7, <1>8, <1>9, <1>10, <1>11 DEF IInv

LEMMA VerifyStackStep ==
  ASSUME IInv, VerifyStack
  PROVE  IInv' /\ tree' = tree
<1>1. PICK n \in Nat :
        /\ gate_record_step(n)
        /\ \/ verified = Scenario /\ n = One(failed > 0) /\ faulty' = faulty
           \/ n = 1 /\ Hit("verify_stack", "refused")
  BY DEF VerifyStack, One
<1>2. /\ UNCHANGED <<tree, noisy, verified, failed, opts, previous>>
      /\ At("verify_stack") /\ errors' = errors + n /\ at' = at + 1
  BY <1>1 DEF VerifyStack, gate_record_step
<1>3. "verify_stack" \in Place /\ failed \in Nat /\ errors \in Nat
  BY StepIs, PlacesAre DEF IInv, TypeOK
<1>4. /\ faulty \subseteq faulty' /\ faulty' \in SUBSET Place
      /\ faulty' = {} => verified = Scenario /\ n = One(failed > 0)
  BY <1>1, <1>3, HitFacts DEF IInv, TypeOK
<1>5. n = 0 => verified = Scenario /\ failed = 0
  BY <1>1, <1>3 DEF One
<1>6. at = 8 /\ opts.full /\ exit = Running /\ at \in 1..Planned
  <2>1. at \in {1, 2, 3, 4, 5, 6, 7, 8}
    BY <1>2, PlannedIs DEF At, IInv
  <2>2. at = 8
    BY <1>2, <2>1, OrderIs DEF At
  <2>3. QED
    BY <1>2, <2>2, PlannedIs DEF At, IInv
<1>7. TypeOK'
  BY <1>1, <1>2, <1>4, <1>6, RecordKeepsTypes DEF IInv, TypeOK
<1>8. Booked'
  BY <1>1, <1>6, RecordKeepsBooked DEF IInv
<1>9. Vouched'
  <2>1. Missed \subseteq Missed'
    BY <1>2, <1>4, MissedGrows
  <2>2. ASSUME errors' = 0, NEW i \in 1..8
        PROVE  tree \cap Defects(Order[i]) \subseteq Missed'
    <3>1. errors = 0 /\ n = 0
      BY <1>1, <1>2, <1>3, <2>2
    <3>2. CASE i = 8
      <4>1. Defects(Order[i]) = StackDefects
        BY <3>2, OrderIs, DefectsAre DEF StackDefects
      <4>2. tree \cap StackDefects = {} \/ Scenario \subseteq faulty'
        BY <1>4, <1>5, <3>1 DEF IInv, Vouched
      <4>3. Scenario \subseteq faulty' => StackDefects \subseteq Missed'
        BY DEF Missed, StackDefects
      <4>4. QED
        BY <4>1, <4>2, <4>3
    <3>3. CASE i # 8
      <4>1. i \in 1..(at - 1)
        BY <1>6, <3>3
      <4>2. QED
        BY <2>1, <3>1, <4>1 DEF IInv, Vouched
    <3>4. QED
      BY <3>2, <3>3
  <2>3. at' - 1 = 8
    BY <1>2, <1>6
  <2>4. failed' = 0 =>
          \A s \in verified' : tree' \cap StackDefects = {} \/ s \in faulty'
    BY <1>2, <1>4 DEF IInv, Vouched
  <2>5. QED
    BY <1>2, <2>2, <2>3, <2>4 DEF Vouched, StackDefects
<1>10. StillGreen'
  <2>1. SUFFICES ASSUME faulty' = {}, previous.green, previous.calm
                 PROVE  /\ tree \subseteq Silent(previous.full)
                        /\ (opts.full => previous.full) =>
                             Shown' \/ (errors' = 0 /\ failed = 0)
    BY <1>2 DEF StillGreen, Silent, Uncounted, Unready, Errored, StackDefects
  <2>2. /\ tree \subseteq Silent(previous.full)
        /\ (opts.full => previous.full) => Shown \/ (errors = 0 /\ failed = 0)
    BY <1>4, <2>1 DEF IInv, StillGreen
  <2>3. failed = 0 => n = 0
    BY <1>4, <2>1 DEF One
  <2>4. Shown => Shown'
    <3>1. \A i \in 1..(at - 1) : i \in 1..(at' - 1)
      BY <1>2, <1>6
    <3>2. QED
      BY <1>2, <3>1 DEF Shown, ShownBy, Errored
  <2>5. QED
    BY <1>2, <2>2, <2>3, <2>4
<1>11. CiNeverFixes' /\ NoisyRan'
  BY <1>2, NoisyStays DEF IInv, CiNeverFixes
<1>12. QED
  BY <1>2, <1>7, <1>8, <1>9, <1>10, <1>11 DEF IInv

\* The options a run is started with.
LEMMA ParsedIs ==
  ASSUME NEW arg, NEW ci \in BOOLEAN
  PROVE  Parsed(arg, ci) \in Options /\ (Parsed(arg, ci).ci => ~Parsed(arg, ci).fix)
BY DEF Parsed, Options

LEMMA InitIInv ==
  ASSUME Init
  PROVE  IInv
<1>1. opts \in Options /\ CiNeverFixes
  BY ParsedIs DEF Init, CiNeverFixes
<1>2. /\ tree \in SUBSET AllDefects
      /\ at = 0 /\ report = <<>> /\ errors = 0 /\ exit = Running
      /\ verified = {} /\ failed = 0 /\ faulty = {} /\ noisy = {} /\ runs = 1
      /\ previous = [green |-> FALSE, calm |-> FALSE, full |-> FALSE]
  BY DEF Init
<1>3. TypeOK
  BY <1>1, <1>2 DEF TypeOK
<1>4. Booked
  <2>1. Planned \in 7..8
    BY <1>3, PlannedIs
  <2>2. Len(report) = 0 /\ 1..Len(report) = {}
    BY <1>2
  <2>3. QED
    BY <1>2, <2>1, <2>2 DEF Booked
<1>5. Vouched
  <2>1. 1..(at - 1) = {}
    BY <1>2
  <2>2. QED
    BY <1>2, <2>1 DEF Vouched
<1>6. StillGreen /\ NoisyRan
  BY <1>2 DEF StillGreen, NoisyRan
<1>7. QED
  BY <1>1, <1>3, <1>4, <1>5, <1>6 DEF IInv

LEMMA BeginStep ==
  ASSUME IInv, Begin
  PROVE  IInv' /\ tree' = tree
<1>1. /\ UNCHANGED <<tree, opts, report, errors, verified, failed, noisy, previous, runs>>
      /\ at = 0 /\ exit = Running
      /\ \/ at' = 1 /\ UNCHANGED <<exit, faulty>>
         \/ Hit("venv", "missing") /\ exit' = 1 /\ at' = 0
  BY DEF Begin
<1>2. faulty \subseteq faulty' /\ faulty' \in SUBSET Place
  BY <1>1, HitFacts, PlacesAre DEF IInv, TypeOK
<1>3. exit' # Running => "venv" \in faulty' /\ exit' = 1
  BY <1>1, HitFacts, PlacesAre DEF IInv, TypeOK
<1>4. TypeOK'
  BY <1>1, <1>2 DEF IInv, TypeOK
<1>5. Planned' = Planned /\ Planned \in 7..8 /\ report = <<>> /\ errors = 0
  BY <1>1, PlannedIs DEF IInv, Booked, Planned
<1>6. Booked'
  BY <1>1, <1>3, <1>5 DEF Booked
<1>7. Vouched'
  <2>1. 1..(at' - 1) = {}
    BY <1>1
  <2>2. QED
    BY <1>1, <1>2, <2>1 DEF IInv, Vouched, StackDefects
<1>8. StillGreen'
  <2>1. ~Shown
    BY <1>1 DEF Shown
  <2>2. QED
    BY <1>1, <1>2, <2>1 DEF IInv, StillGreen, Silent, Uncounted, Unready, Errored, StackDefects
<1>9. CiNeverFixes' /\ NoisyRan'
  <2>1. noisy' = noisy /\ (at' = at \/ at' = at + 1)
    BY <1>1
  <2>2. QED
    BY <1>1, <2>1, NoisyStays DEF IInv, CiNeverFixes
<1>10. QED
  BY <1>1, <1>4, <1>6, <1>7, <1>8, <1>9 DEF IInv

LEMMA ExitStep ==
  ASSUME IInv, gate_exit
  PROVE  IInv' /\ tree' = tree
<1>1. /\ UNCHANGED <<tree, opts, at, report, errors, verified, failed, faulty, noisy,
                     previous, runs>>
      /\ at = Planned + 1 /\ exit' = One(errors > 0)
  BY DEF gate_exit
<1>2. TypeOK'
  BY <1>1 DEF IInv, TypeOK, One
<1>3. Booked'
  BY <1>1 DEF IInv, Booked, Planned, One
<1>4. Missed' = Missed
  BY <1>1 DEF Missed, Hidden, Uncounted, Unready, Errored, StackDefects
<1>5. Vouched' /\ NoisyRan'
  BY <1>1, <1>4, NoisyStays DEF IInv, Vouched
<1>6. StillGreen' /\ CiNeverFixes'
  BY <1>1 DEF IInv, StillGreen, Shown, ShownBy, CiNeverFixes, Silent, Uncounted, Unready,
              Errored, StackDefects
<1>7. QED
  BY <1>1, <1>2, <1>3, <1>5, <1>6 DEF IInv

\* A gate that passed has recorded no error in any planned step.
LEMMA IInvPasses ==
  ASSUME IInv, exit = 0
  PROVE  tree \subseteq Missed
<1>1. at = Planned + 1 /\ ~(errors > 0)
  BY DEF IInv, Booked, Running, One
<1>2. errors = 0
  BY <1>1 DEF IInv, TypeOK
<1>3. at - 1 = Planned /\ Planned \in 7..8 /\ (Planned = 8 <=> opts.full)
  BY <1>1, PlannedIs DEF IInv
<1>4. SUFFICES ASSUME NEW d \in tree
               PROVE  d \in Missed
  OBVIOUS
<1>5. PICK i \in 1..8 : d \in Defects(Order[i])
  <2>1. d \in AllDefects
    BY DEF IInv, TypeOK
  <2>2. QED
    BY <2>1 DEF AllDefects, Step
<1>6. CASE i \in 1..Planned
  BY <1>2, <1>3, <1>5, <1>6 DEF IInv, Vouched
<1>7. CASE i \notin 1..Planned
  <2>1. i = 8 /\ ~opts.full
    BY <1>3, <1>7
  <2>2. d \in StackDefects
    BY <1>5, <2>1, OrderIs, DefectsAre DEF StackDefects
  <2>3. QED
    BY <2>1, <2>2 DEF Missed
<1>8. QED
  BY <1>6, <1>7

LEMMA AgainStep ==
  ASSUME IInv, Again
  PROVE  IInv' /\ tree' = tree
<1>1. /\ tree' = tree /\ runs' = runs + 1
      /\ at' = 0 /\ report' = <<>> /\ errors' = 0 /\ exit' = Running
      /\ verified' = {} /\ failed' = 0 /\ faulty' = {} /\ noisy' = {}
  BY DEF Again, Fresh
<1>2. previous' = [green |-> exit = 0, calm |-> faulty = {}, full |-> opts.full]
  BY DEF Again
<1>3. opts' \in Options /\ CiNeverFixes'
  BY ParsedIs DEF Again, Fresh, CiNeverFixes
<1>4. TypeOK'
  BY <1>1, <1>3, <1>2 DEF IInv, TypeOK, Options, Running
<1>5. Booked'
  <2>1. Len(report') = 0 /\ 1..Len(report') = {} /\ ~(errors' > 0)
    BY <1>1
  <2>2. at' <= Planned' + 1
    BY <1>1 DEF Planned
  <2>3. ~(at' > 0)
    BY <1>1
  <2>4. exit' = Running
    BY <1>1
  <2>5. QED
    BY <1>1, <2>1, <2>2, <2>3, <2>4 DEF Booked
<1>6. Vouched' /\ NoisyRan'
  <2>1. 1..(at' - 1) = {}
    BY <1>1
  <2>2. QED
    BY <1>1, <2>1 DEF Vouched, NoisyRan
<1>7. StillGreen'
  <2>1. ASSUME exit = 0, faulty = {}
        PROVE  tree \subseteq Silent(opts.full)
    <3>1. tree \subseteq Missed
      BY <2>1, IInvPasses
    <3>2. ~(Scenario \subseteq faulty)
      BY <2>1 DEF Scenario
    <3>3. QED
      BY <2>1, <3>1, <3>2 DEF Missed, Silent, Hidden, Errored
  <2>2. SUFFICES ASSUME previous'.green, previous'.calm
                 PROVE  tree' \subseteq Silent(previous.full)'
    BY <1>1 DEF StillGreen
  <2>3. exit = 0 /\ faulty = {} /\ previous'.full = opts.full
    BY <1>2, <2>2
  <2>4. Silent(previous.full)' = Silent(opts.full)
    BY <1>1, <2>3 DEF Silent, Uncounted, Unready, Errored, StackDefects
  <2>5. QED
    BY <1>1, <2>1, <2>3, <2>4
<1>8. QED
  BY <1>1, <1>3, <1>4, <1>5, <1>6, <1>7 DEF IInv

LEMMA NextIInv ==
  ASSUME IInv, [Next]_vars
  PROVE  IInv' /\ (opts.ci => tree' = tree)
<1>1. CASE UNCHANGED vars
  <2>1. TypeOK' /\ Booked' /\ CiNeverFixes' /\ tree' = tree
    BY <1>1 DEF vars, IInv, TypeOK, Booked, CiNeverFixes, Planned
  <2>2. Vouched' /\ NoisyRan'
    <3>1. Missed' = Missed
      BY <1>1 DEF vars, Missed, Hidden, Uncounted, Unready, Errored, StackDefects
    <3>2. QED
      BY <1>1, <3>1 DEF vars, IInv, NoisyRan, Vouched
  <2>3. StillGreen'
    BY <1>1 DEF vars, IInv, StillGreen, Shown, ShownBy, Silent, Uncounted, Unready, Errored,
                StackDefects
  <2>4. QED
    BY <2>1, <2>2, <2>3 DEF IInv
<1>2. CASE Next
  <2>1. CASE Tool
    BY <2>1, ToolStep
  <2>2. CASE \E sc \in Scenario : VerifyScenario(sc)
    BY <2>2, ScenarioStep
  <2>3. CASE Begin \/ VerifyStack \/ gate_exit \/ Again
    BY <2>3, BeginStep, VerifyStackStep, ExitStep, AgainStep
  <2>4. QED
    BY <1>2, <2>1, <2>2, <2>3 DEF Next, Tool
<1>3. QED
  BY <1>1, <1>2

\* The inductive invariant holds in every reachable state.
THEOREM Invariant == Spec => []IInv
<1>1. Init => IInv
  BY InitIInv
<1>2. IInv /\ [Next]_vars => IInv'
  BY NextIInv
<1>3. QED
  BY <1>1, <1>2, PTL DEF Spec
-----------------------------------------------------------------------------
\* Every variable of the gate keeps its type.
THEOREM TypeCorrect == Spec => []TypeOK
<1>1. IInv => TypeOK
  BY DEF IInv
<1>2. QED
  BY <1>1, Invariant, PTL

\* "All steps run; summary at end; exit 1 on errors": the report of a run has
\* one row per planned step and the exit status is the report's (checks.sh).
THEOREM ReportAlwaysWhole == Spec => []ReportIsWhole
<1>1. IInv => ReportIsWhole
  <2>1. SUFFICES ASSUME IInv, exit # Running, "venv" \notin faulty
                 PROVE  /\ Len(report) = Planned
                        /\ \A i \in DOMAIN report : report[i].step = Order[i]
                        /\ exit = 1 <=> \E i \in DOMAIN report : report[i].status = "FAIL"
    BY DEF ReportIsWhole
  <2>2. at = Planned + 1 /\ exit = One(errors > 0)
    BY <2>1 DEF IInv, Booked
  <2>3. Len(report) = Planned
    BY <2>1, <2>2, PlannedIs DEF IInv, Booked
  <2>4. DOMAIN report = 1..Len(report)
    BY <2>1 DEF IInv, TypeOK
  <2>5. exit = 1 <=> errors > 0
    BY <2>2 DEF One
  <2>6. QED
    BY <2>1, <2>3, <2>4, <2>5 DEF IInv, Booked
<1>2. QED
  BY <1>1, Invariant, PTL

\* A gate that passes vouches for everything but the defects of Missed: a
\* crashed tool, a dead gate_emit.py or one scenario of verify_stack on a stale
\* volume lets nothing else through (the judging conditions of checks.sh).
THEOREM PassAlwaysVouches == Spec => []PassMissesOnly
<1>1. IInv => PassMissesOnly
  BY IInvPasses DEF PassMissesOnly
<1>2. QED
  BY <1>1, Invariant, PTL

\* Run again without faults and with no more to verify, a gate that passed
\* without faults passes: what --fix rewrites is judged in the same run.
THEOREM GreenAlwaysStaysGreen == Spec => []GreenStaysGreen
<1>1. IInv => GreenStaysGreen
  <2>1. SUFFICES ASSUME IInv, exit # Running, faulty = {}, previous.green,
                        previous.calm, opts.full => previous.full,
                        tree \cap Errored \subseteq Hidden
                 PROVE  exit = 0
    BY DEF GreenStaysGreen
  <2>2. exit = One(errors > 0)
    BY <2>1 DEF IInv, Booked
  <2>3. ~Shown
    <3>1. at - 1 = Planned /\ Planned \in 7..8
      BY <2>1, PlannedIs DEF IInv, Booked
    <3>2. SUFFICES ASSUME NEW i \in 1..(at - 1), ShownBy(Order[i])
                   PROVE  FALSE
      BY DEF Shown
    <3>3. PICK d \in Errored : d \in tree /\ d \in Defects(Order[i])
      BY <3>2 DEF ShownBy
    <3>4. PICK s \in noisy : d \in Defects(s)
      BY <2>1, <3>3 DEF Hidden
    <3>5. Order[i] \in Step
      BY <3>1, OrderInStep
    <3>6. s \in Suite
      BY <2>1, <3>4 DEF IInv, TypeOK
    <3>7. s = Order[i]
      BY <3>3, <3>4, <3>5, <3>6, FixturesAre
    <3>8. QED
      BY <3>2, <3>4, <3>7 DEF ShownBy
  <2>4. errors = 0
    BY <2>1, <2>3 DEF IInv, StillGreen
  <2>5. QED
    BY <2>2, <2>4 DEF One
<1>2. QED
  BY <1>1, Invariant, PTL

\* With CI set, no step of the gate changes the checkout (FIX in checks.sh).
THEOREM CiNeverRewrites == Spec => CiRewritesNothing
<1>1. IInv /\ [Next]_vars => [opts.ci => tree' = tree]_vars
  BY NextIInv
<1>2. QED
  BY <1>1, Invariant, PTL DEF Spec, CiRewritesNothing
=============================================================================
