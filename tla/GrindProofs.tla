----------------------------- MODULE GrindProofs -----------------------------
(***************************************************************************)
(* Theorems about Grind, for any themes, cards, command lines and budgets. *)
(***************************************************************************)
EXTENDS Grind, TLAPS, WellFoundedInduction, FiniteSetTheorems

-----------------------------------------------------------------------------
\* The fallback theme.

\* A set of naturals that is not empty has a least member.
LEMMA LeastMember ==
    ASSUME NEW T, T \subseteq Nat, T # {}
    PROVE  \E x \in T : \A y \in T : x <= y
<1> DEFINE less == OpToRel(<, Nat)
<1>1. IsWellFoundedOn(less, Nat)
  BY NatLessThanWellFounded
<1>2. \A x, y \in Nat : <<y, x>> \in less <=> y < x
  BY DEF OpToRel
<1> HIDE DEF less
<1>3. PICK x \in T : \A y \in T : ~ (<<y, x>> \in less)
  BY <1>1, WFMin
<1>4. \A y \in T : x \in Nat /\ y \in Nat /\ ~(y < x)
  BY <1>2, <1>3
<1> QED
  BY <1>4

LEMMA AutoThemesIsFunction ==
    /\ Len(AutoThemes) \in Nat \ {0}
    /\ AutoThemes \in [1 .. Len(AutoThemes) -> Themes]
    /\ DOMAIN AutoThemes = 1 .. Len(AutoThemes)
    /\ \A k \in 1 .. Len(AutoThemes) : AutoThemes[k] \in AutoSet
<1>1. /\ Len(AutoThemes) \in Nat \ {0}
      /\ AutoThemes \in [1 .. Len(AutoThemes) -> Themes]
      /\ DOMAIN AutoThemes = 1 .. Len(AutoThemes)
  BY GrindAssumption
<1> QED
  BY <1>1 DEF AutoSet

LEMMA AutoIsTheme == AutoSet \subseteq Themes
  BY AutoThemesIsFunction DEF AutoSet

LEMMA ThemeAtIsAuto ==
    ASSUME NEW i \in Nat \ {0}, NEW o \in Nat
    PROVE  ThemeAt(i, o) \in AutoSet
<1> DEFINE k == ((i - 1 + o) % Len(AutoThemes)) + 1
<1>1. k \in 1 .. Len(AutoThemes)
  BY AutoThemesIsFunction
<1> HIDE DEF k
<1>2. AutoThemes[k] \in AutoSet
  BY <1>1, AutoThemesIsFunction
<1> QED
  BY <1>2 DEF ThemeAt, k

\* A multiple of the divisor does not change the remainder.
LEMMA RemainderOfMultiple ==
    ASSUME NEW n \in Nat \ {0}, NEW q \in Int, NEW r \in 0 .. n - 1
    PROVE  (n * q + r) % n = r
<1> DEFINE m == n * q + r
<1>0. m \in Int
  BY SMT
<1> HIDE DEF m
<1>1. m % n \in 0 .. n - 1 /\ m = n * (m \div n) + (m % n) /\ m \div n \in Int
  BY <1>0, SMT
<1>2. PICK d \in Int, e \in 0 .. n - 1 : d = m \div n /\ e = m % n /\ m = n * d + e
  BY <1>1
<1>3. n * (q - d) = e - r /\ e - r < n /\ r - e < n
  BY <1>2 DEF m
<1>4. q - d = 0
  <2>1. CASE q - d >= 1
    <3>1. n * (q - d) >= n
      BY <2>1, <1>2
    <3> QED
      BY <3>1, <1>3
  <2>2. CASE q - d <= -1
    <3>1. n * (q - d) <= -n
      BY <2>2, <1>2
    <3> QED
      BY <3>1, <1>3, <1>2
  <2> QED
    BY <2>1, <2>2, <1>2
<1>5. e = r
  BY <1>2, <1>3, <1>4
<1> QED
  BY <1>2, <1>5 DEF m

\* Every automatic theme is within reach of the offsets.
LEMMA ThemeAtReaches ==
    ASSUME NEW i \in Nat \ {0}, NEW t \in AutoSet
    PROVE  \E o \in 0 .. Len(AutoThemes) - 1 : ThemeAt(i, o) = t
<1>0. PICK n \in Nat \ {0} : n = Len(AutoThemes)
  BY AutoThemesIsFunction
<1>2. PICK j \in 1 .. n : AutoThemes[j] = t
  BY <1>0, AutoThemesIsFunction DEF AutoSet
<1>3. PICK r \in 0 .. n - 1, q \in Int : i - 1 = n * q + r
  <2>1. \A m \in Int : m % n \in 0 .. n - 1 /\ m \div n \in Int /\ m = n * (m \div n) + (m % n)
    BY SMT
  <2>2. i - 1 \in Int
    OBVIOUS
  <2> QED
    BY <2>1, <2>2
<1>4. \E o \in 0 .. n - 1, p \in Int : i - 1 + o = n * p + (j - 1)
  <2>1. CASE r < j
    <3>1. j - 1 - r \in 0 .. n - 1 /\ i - 1 + (j - 1 - r) = n * q + (j - 1)
      BY <2>1, <1>3
    <3> QED
      BY <3>1
  <2>2. CASE ~(r < j)
    <3>1. n + j - 1 - r \in 0 .. n - 1
      BY <2>2, <1>3
    <3>2. n * (q + 1) = n * q + n
      BY <1>3
    <3>3. q + 1 \in Int /\ i - 1 + (n + j - 1 - r) = n * (q + 1) + (j - 1)
      BY <3>2, <1>3
    <3> QED
      BY <3>1, <3>3
  <2> QED
    BY <2>1, <2>2
<1>5. PICK o \in 0 .. n - 1, p \in Int : i - 1 + o = n * p + (j - 1)
  BY <1>4
<1>6. (i - 1 + o) % n = j - 1
  <2>1. j - 1 \in 0 .. n - 1
    OBVIOUS
  <2> QED
    BY <2>1, <1>5, RemainderOfMultiple
<1>7. ((i - 1 + o) % n) + 1 = j
  BY <1>6
<1> QED
  BY <1>0, <1>2, <1>5, <1>7 DEF ThemeAt

\* Unless every automatic theme is exhausted, the fallback is one that is not.
LEMMA FallbackIsOpen ==
    ASSUME NEW i \in Nat \ {0}, ~(AutoSet \subseteq exhausted)
    PROVE  FallbackTheme(i) \in Themes \ exhausted
<1> DEFINE open == {o \in 0 .. Len(AutoThemes) - 1 : ThemeAt(i, o) \notin exhausted}
<1>1. open # {}
  BY ThemeAtReaches
<1>2. open \subseteq Nat
  OBVIOUS
<1>3. \E x \in open : \A y \in open : x <= y
  BY <1>1, <1>2, LeastMember
<1> DEFINE least == CHOOSE o \in open : \A p \in open : o <= p
<1>4. least \in open
  BY <1>3
<1>5. FallbackTheme(i) = ThemeAt(i, least)
  BY <1>1 DEF FallbackTheme
<1> QED
  BY <1>2, <1>4, <1>5, ThemeAtIsAuto, AutoIsTheme
-----------------------------------------------------------------------------
\* Types and the budgets of the themes.

\* A theme that has not used up a budget.
HasRoom(s) == s.commits < MaxCommits /\ s.repairs < MaxRepairs /\ s.noOps < StopAfter

Within(s) == s.commits <= MaxCommits /\ s.repairs <= MaxRepairs /\ s.noOps <= StopAfter

\* The iterations a theme may have had.
Used(s) == (s.commits + s.repairs) * StopAfter + s.noOps

Unused(s) == s.commits = 0 /\ s.repairs = 0 /\ s.noOps = 0

\* The places of the refactor phase.
Refactoring == pc \notin {"down", "card"} /\ phase = "refactor"

\* In the refactor phase every theme that is not exhausted has room, and the
\* iterations so far are paid for by the exhausted themes and the current one.
PhaseInv ==
    /\ current \notin exhausted
    /\ opts.fixed => exhausted = {}
    /\ ~opts.fixed /\ pc # "next" => current \in Themes
    /\ pc # "next" => iteration <= opts.maxIterations
    /\ \A k \in Keys \ exhausted : HasRoom(states[k])
    /\ \A k \in Keys \ exhausted : k # current => Unused(states[k])
    /\ ~opts.fixed => Unused(states[NoTheme])
    /\ iteration - 1 <= Cardinality(exhausted) * IterationBound + Used(states[current])

TypeInv ==
    /\ TypeOK
    /\ pc \in {"next", "cluster", "plan", "implement", "gates", "commit"} => phase = "refactor"
    /\ pc = "down" => /\ iteration = 1 /\ exhausted = {} /\ states = [k \in Keys |-> FreshState]
                      /\ phase = "refactor" /\ ending = "none"
    /\ \A k \in Keys : Within(states[k])
    /\ Refactoring => PhaseInv
    /\ BudgetsEndThePhase

LEMMA Constants ==
    /\ StopAfter \in Nat \ {0}
    /\ MaxCommits \in Nat \ {0}
    /\ MaxRepairs \in Nat \ {0}
    /\ LowValueStop \in Nat \ {0}
    /\ RepairAttempts \in Nat
    /\ IterationBound \in Nat
    /\ \A o \in Options : o \in CommandLines /\ o.theme \in Keys
                        /\ o.maxIterations \in Nat \ {0} /\ (o.theme # NoTheme => o.fixed)
<1>1. /\ StopAfter \in Nat \ {0} /\ MaxCommits \in Nat \ {0} /\ MaxRepairs \in Nat \ {0}
      /\ LowValueStop \in Nat \ {0} /\ RepairAttempts \in Nat
  BY GrindAssumption
<1>2. MaxCommits + MaxRepairs - 1 \in Nat
  BY <1>1
<1>3. \A a, b \in Nat : a * b \in Nat
  OBVIOUS
<1>4. IterationBound \in Nat
  BY <1>1, <1>2, <1>3 DEF IterationBound
<1> QED
  BY <1>1, <1>4, GrindAssumption DEF CommandLines, Keys

\* More exhausted themes pay for more iterations.
LEMMA ExhaustedThemes ==
    ASSUME NEW S, S \subseteq Themes
    PROVE  /\ Cardinality(S) \in Nat
           /\ Cardinality(S) * IterationBound \in Nat
           /\ Cardinality(S) * IterationBound <= Cardinality(Themes) * IterationBound
           /\ \A t \in Themes \ S :
                 /\ Cardinality(S \cup {t}) * IterationBound
                        = Cardinality(S) * IterationBound + IterationBound
<1>1. IsFiniteSet(Themes)
  BY GrindAssumption
<1>2. /\ Cardinality(S) \in Nat /\ Cardinality(Themes) \in Nat
      /\ Cardinality(S) <= Cardinality(Themes) /\ IsFiniteSet(S)
  BY <1>1, FS_Subset, FS_CardinalityType
<1>3. \A t \in Themes \ S : Cardinality(S \cup {t}) = Cardinality(S) + 1
  BY <1>2, FS_AddElement
<1>4. \A a, b, c \in Nat : a * c \in Nat /\ (a <= b => a * c <= b * c)
                           /\ (a + 1) * c = a * c + c
  BY SMT
<1> QED
  BY <1>2, <1>3, <1>4, Constants

\* What one iteration does to the state of its theme.
LEMMA RecordedStates ==
    ASSUME NEW s \in ThemeStates, HasRoom(s), NEW f \in Files, Measure(f) \in Measures,
           NEW n \in {RecordCommit(s, f), RecordNoChange(s), RecordRepair(s)}
    PROVE  /\ n \in ThemeStates
           /\ Within(n)
           /\ Used(s) \in Nat /\ Used(n) \in Nat
           /\ Used(n) >= Used(s) + 1
           /\ Used(n) <= IterationBound
           /\ ~IsExhausted(n) => HasRoom(n)
<1> DEFINE c == s.commits
<1> DEFINE r == s.repairs
<1> DEFINE z == s.noOps
<1>1. c \in Nat /\ r \in Nat /\ z \in Nat /\ c < MaxCommits /\ r < MaxRepairs /\ z < StopAfter
  BY DEF ThemeStates, HasRoom
<1>2. /\ n \in ThemeStates
      /\ \/ n.commits = c + 1 /\ n.repairs = r /\ n.noOps = 0
         \/ n.commits = c /\ n.repairs = r + 1 /\ n.noOps = 0
         \/ n.commits = c /\ n.repairs = r /\ n.noOps = z + 1
  <2>1. CASE n = RecordCommit(s, f)
    BY <2>1 DEF RecordCommit, ThemeStates
  <2>2. CASE n = RecordNoChange(s)
    BY <2>2 DEF RecordNoChange, ThemeStates
  <2>3. CASE n = RecordRepair(s)
    <3> DEFINE idle == [s EXCEPT !.noOps = 0]
    <3>1. idle \in ThemeStates /\ idle.commits = c /\ idle.repairs = r /\ idle.noOps = 0
      BY DEF ThemeStates
    <3>2. n = [idle EXCEPT !.repairs = r + 1]
      BY <2>3 DEF RecordRepair, ThemeStates
    <3> HIDE DEF idle
    <3> QED
      BY <3>1, <3>2, <1>1 DEF ThemeStates
  <2> QED
    BY <2>1, <2>2, <2>3
<1>3. Within(n) /\ (~IsExhausted(n) => HasRoom(n))
  BY <1>1, <1>2, Constants DEF Within, IsExhausted, HasRoom
<1>4. \A a, b \in Nat : a * b \in Nat /\ (a + 1) * b = a * b + b
  BY SMT
<1>5. Used(s) = (c + r) * StopAfter + z /\ (c + r) * StopAfter \in Nat
  BY <1>1, <1>4, Constants DEF Used
<1>6. \/ Used(n) = (c + r) * StopAfter + StopAfter
      \/ Used(n) = (c + r) * StopAfter + z + 1
  <2>1. CASE n.commits + n.repairs = (c + r) + 1 /\ n.noOps = 0
    <3>1. ((c + r) + 1) * StopAfter = (c + r) * StopAfter + StopAfter
      BY <1>1, <1>4, Constants
    <3> QED
      BY <2>1, <3>1, <1>5, Constants DEF Used
  <2>2. CASE n.commits + n.repairs = c + r /\ n.noOps = z + 1
    BY <2>2, <1>1, <1>5, Constants DEF Used
  <2> QED
    BY <2>1, <2>2, <1>1, <1>2
<1>7. (c + r) * StopAfter + StopAfter <= IterationBound
  <2>1. \A a, b, m \in Nat : a <= b => a * m <= b * m
    BY SMT
  <2>2. c + r + 1 \in Nat /\ MaxCommits + MaxRepairs - 1 \in Nat
        /\ c + r + 1 <= MaxCommits + MaxRepairs - 1
    BY <1>1, Constants
  <2>3. (c + r + 1) * StopAfter <= (MaxCommits + MaxRepairs - 1) * StopAfter
    BY <2>1, <2>2, Constants
  <2>4. (c + r + 1) * StopAfter = (c + r) * StopAfter + StopAfter
    BY <1>1, <1>4, Constants
  <2> QED
    BY <2>3, <2>4 DEF IterationBound
<1> HIDE DEF c, r, z
<1>8. Used(n) \in Nat /\ Used(n) >= Used(s) + 1 /\ Used(n) <= IterationBound
  BY <1>1, <1>5, <1>6, <1>7, Constants
<1> QED
  BY <1>1, <1>2, <1>3, <1>5, <1>8
LEMMA MeasuresAreTyped == \A f \in Files : Measure(f) \in Measures
<1>1. \A S \in SUBSET Cards : Cardinality(S) \in Nat
  BY GrindAssumption, FS_Subset, FS_CardinalityType
<1> QED
  BY <1>1, GrindAssumption DEF Files, Measure, Measures

LEMMA FreshStateIsTyped ==
    FreshState \in ThemeStates /\ Unused(FreshState) /\ HasRoom(FreshState) /\ Within(FreshState)
  BY Constants DEF FreshState, ThemeStates, NoMeasure, Measures, Unused, HasRoom, Within

\* The end of an iteration.
LEMMA RecordStep ==
    ASSUME TypeInv, pc \in {"commit", "repair", "repairGates", "repairCommit"},
           phase = "refactor", NEW f \in Files,
           NEW n \in {RecordCommit(states[current], f), RecordNoChange(states[current]),
                      RecordRepair(states[current])},
           Record(n), head' \in Files, tree' \in Files, stray' \in Strays, logs' \in BOOLEAN
    PROVE  TypeInv'
<1> USE DEF TypeInv, TypeOK
<1>1. PhaseInv /\ Refactoring /\ iteration <= opts.maxIterations
  BY DEF Refactoring, PhaseInv
<1>2. current \in Keys /\ states[current] \in ThemeStates /\ HasRoom(states[current])
  BY <1>1 DEF PhaseInv, Keys
<1> DEFINE s == states[current]
<1>3. /\ n \in ThemeStates /\ Within(n) /\ Used(s) \in Nat /\ Used(n) \in Nat
      /\ Used(n) >= Used(s) + 1 /\ Used(n) <= IterationBound /\ (~IsExhausted(n) => HasRoom(n))
  BY <1>2, MeasuresAreTyped, RecordedStates
<1>4. /\ states' = [states EXCEPT ![current] = n] /\ states' \in [Keys -> ThemeStates]
      /\ states'[current] = n /\ \A k \in Keys \ {current} : states'[k] = states[k]
  BY <1>2, <1>3 DEF Record
<1>5. \A k \in Keys : Within(states'[k])
  BY <1>3, <1>4
<1>6. iteration' \in 1 .. opts.maxIterations + 1 /\ (iteration' = iteration + 1 \/ pc' = "card")
  BY <1>1, Constants DEF Record
<1>7. /\ phase' = "refactor" /\ opts' = opts /\ attempts' = attempts /\ pc' \in {"next", "card"}
      /\ ending' \in {ending, "budget"}
  BY DEF Record
<1>8. current' \in Keys /\ exhausted' \subseteq Themes
  <2>1. ~opts.fixed => current \in Themes
    BY <1>1 DEF PhaseInv
  <2> QED
    BY <2>1 DEF Record, Keys
<1>12. ~opts.fixed => Unused(states'[NoTheme])
  BY <1>1, <1>4, GrindAssumption DEF PhaseInv, Keys
<1>9. pc' = "next" => PhaseInv'
  <2> SUFFICES ASSUME pc' = "next" PROVE PhaseInv'
    OBVIOUS
  <2>0. iteration' = iteration + 1
    BY <1>6
  <2>1. CASE ~IsExhausted(n)
    <3>1. UNCHANGED <<current, exhausted>>
      BY <2>1 DEF Record
    <3>2. iteration' - 1 <= Cardinality(exhausted) * IterationBound + Used(n)
      <4>1. Cardinality(exhausted) * IterationBound \in Nat
        BY ExhaustedThemes
      <4> QED
        BY <4>1, <2>0, <1>1, <1>3, Constants DEF PhaseInv
    <3> QED
      BY <2>1, <3>1, <3>2, <1>1, <1>3, <1>4, <1>7, <1>12 DEF PhaseInv
  <2>2. CASE IsExhausted(n)
    <3>1. ~opts.fixed /\ exhausted' = exhausted \cup {current} /\ current' = NoTheme
      BY <2>2, <1>7 DEF Record
    <3>2. current \in Themes \ exhausted
      BY <3>1, <1>1 DEF PhaseInv
    <3>3. NoTheme \notin exhausted' /\ NoTheme # current /\ NoTheme \in Keys
      BY <3>1, <3>2, GrindAssumption DEF Keys
    <3>4. Unused(states[NoTheme]) /\ states'[NoTheme] = states[NoTheme]
      BY <3>2, <3>3, <1>1, <1>4, GrindAssumption DEF PhaseInv
    <3>5. Used(states'[NoTheme]) = 0
      BY <3>4, Constants DEF Used, Unused
    <3>6. iteration' - 1 <= Cardinality(exhausted') * IterationBound + Used(states'[current'])
      <4>1. Cardinality(exhausted') * IterationBound
              = Cardinality(exhausted) * IterationBound + IterationBound
        BY <3>1, <3>2, ExhaustedThemes
      <4>2. Cardinality(exhausted) * IterationBound \in Nat
        BY ExhaustedThemes
      <4> QED
        BY <4>1, <4>2, <2>0, <3>1, <3>5, <1>1, <1>3, Constants DEF PhaseInv
    <3>7. \A k \in Keys \ exhausted' : HasRoom(states'[k]) /\ Unused(states'[k])
      BY <3>1, <1>1, <1>4 DEF PhaseInv
    <3> QED
      BY <3>1, <3>3, <3>6, <3>7, <1>7, <1>12 DEF PhaseInv
  <2> QED
    BY <2>1, <2>2
<1>10. BudgetsEndThePhase'
  BY <1>7 DEF BudgetsEndThePhase
<1>11. pc' \in Places /\ ending' \in Endings /\ pc' # "down"
  BY <1>7 DEF Places, Endings
<1> QED
  BY <1>4, <1>5, <1>6, <1>7, <1>8, <1>9, <1>10, <1>11 DEF Refactoring

\* The end of a run forgets its locals.
LEMMA EndStep ==
    ASSUME TypeInv, GrindEnds, head' \in Files, tree' \in Files, stray' \in Strays,
           logs' \in BOOLEAN
    PROVE  TypeInv'
<1>1. states' \in [Keys -> ThemeStates] /\ \A k \in Keys : Within(states'[k])
  BY FreshStateIsTyped DEF GrindEnds
<1>2. 1 \in 1 .. opts.maxIterations + 1 /\ opts' = opts
  BY Constants DEF TypeInv, TypeOK, GrindEnds
<1> QED
  BY <1>1, <1>2, Constants DEF GrindEnds, TypeInv, TypeOK, Places, Keys, Endings, Refactoring,
                               BudgetsEndThePhase

\* A step that only moves on within the phase, or into try_repair.
LEMMA GotoStep ==
    ASSUME TypeInv, NEW place \in Places \ {"down", "next"}, Goto(place), pc # "down",
           phase = "refactor" /\ pc # "card" => place # "card",
           Refactoring => iteration <= opts.maxIterations
                          /\ (opts.fixed \/ current \in Themes),
           phase = "card" => place \in {"repairGates", "repairCommit", "card"},
           pc = "card" => place = "card",
           head' \in Files, tree' \in Files, stray' \in Strays, logs' \in BOOLEAN
    PROVE  TypeInv'
<1>1. Refactoring' => Refactoring
  BY DEF Goto, Refactoring, TypeInv, TypeOK
<1>2. Refactoring => PhaseInv'
  BY DEF Goto, themes, PhaseInv, TypeInv, Keys
<1> QED
  BY <1>1, <1>2 DEF Goto, themes, TypeInv, TypeOK, BudgetsEndThePhase
LEMMA TypeInit == Init => TypeInv
<1> SUFFICES ASSUME Init PROVE TypeInv
  OBVIOUS
<1>1. head \in Files /\ tree \in Files
  BY DEF Init, Files, Honest
<1>2. states \in [Keys -> ThemeStates] /\ \A k \in Keys : Within(states[k])
  BY FreshStateIsTyped DEF Init
<1>3. 1 \in 1 .. opts.maxIterations + 1 /\ opts \in Options
  BY Constants DEF Init
<1>0. logs \in BOOLEAN
  BY Zenon DEF Init
<1>4. /\ stray = "none" /\ pc = "down" /\ iteration = 1 /\ current = NoTheme
      /\ exhausted = {} /\ states = [k \in Keys |-> FreshState] /\ attempts = 0
      /\ phase = "refactor" /\ ending = "none"
  BY DEF Init
<1>5. TypeOK
  BY <1>0, <1>1, <1>2, <1>3, <1>4, Constants DEF TypeOK, Strays, Places, Keys, Endings
<1> QED
  BY <1>2, <1>4, <1>5 DEF TypeInv, Refactoring, BudgetsEndThePhase

LEMMA EditsAreTyped ==
    ASSUME tree \in Files, AgentEdits
    PROVE  tree' \in Files /\ stray' \in Strays /\ tree'.status = tree.status
  BY DEF AgentEdits, Files

LEMMA CorpusIsTyped ==
    ASSUME tree \in Files
    PROVE  AfterCorpus \in Files /\ AfterCorpus.status = tree.rt /\ AfterCorpus.rt = tree.rt
           /\ AfterCorpus.sound = tree.sound
  BY DEF AfterCorpus, Files

\* Every step keeps the types and the budgets, one case per action.
LEMMA TypeStep == TypeInv /\ [Next]_vars => TypeInv'
<1> SUFFICES ASSUME TypeInv, [Next]_vars PROVE TypeInv'
  OBVIOUS
<1>typed. TypeOK
  BY DEF TypeInv
<1>files. head \in Files /\ tree \in Files /\ stray \in Strays /\ logs \in BOOLEAN
  BY <1>typed DEF TypeOK
<1>strays. "none" \in Strays
  BY DEF Strays
<1>stutter. CASE UNCHANGED vars
  BY <1>stutter DEF vars, TypeInv, TypeOK, Refactoring, PhaseInv, BudgetsEndThePhase
<1>1. CASE Start
  <2>1. PICK o \in Options : opts' = o /\ current' = o.theme
    BY <1>1 DEF Start
  <2>2. current' \in Keys /\ o.maxIterations \in Nat \ {0}
    BY <2>1, Constants
  <2>3. /\ iteration = 1 /\ exhausted = {} /\ states = [k \in Keys |-> FreshState]
        /\ ending' = ending /\ iteration' = iteration /\ exhausted' = exhausted
        /\ states' = states /\ phase' = phase /\ attempts' = attempts /\ pc' = "next"
    BY <1>1 DEF Start, TypeInv
  <2>4. ending' # "ceiling" /\ phase' = "refactor"
    BY <1>1, <2>3 DEF Start, TypeInv
  <2>5. PhaseInv'
    <3>1. Used(states'[current']) = 0
      BY <2>2, <2>3, FreshStateIsTyped, Constants DEF Used, Unused
    <3>2. Cardinality(exhausted') * IterationBound \in Nat
      BY <2>3, ExhaustedThemes
    <3> QED
      BY <2>2, <2>3, <3>1, <3>2, FreshStateIsTyped DEF PhaseInv, Keys
  <2> QED
    BY <1>1, <1>typed, <2>1, <2>2, <2>3, <2>4, <2>5
       DEF Start, files, TypeInv, TypeOK, Places, Refactoring, BudgetsEndThePhase
<1>2. CASE PhaseIsQuiet \/ DryRun
  BY <1>2, <1>typed DEF PhaseIsQuiet, DryRun, files, themes, TypeInv, TypeOK, Places, Endings,
                        Refactoring, BudgetsEndThePhase
<1>3. CASE SelectTheme
  <2>1. PhaseInv /\ Refactoring /\ iteration \in Nat \ {0}
    BY <1>3, <1>typed, Constants DEF SelectTheme, TypeInv, TypeOK, Refactoring
  <2>2. tree' \in Files /\ stray' \in Strays
    BY <1>3, <1>files, EditsAreTyped DEF SelectTheme
  <2>3. PICK t \in Themes \ exhausted :
             current' = t /\ states' = [states EXCEPT ![t] = Selected(@, tree')]
    BY <1>3, <2>1, FallbackIsOpen DEF SelectTheme, OpenThemes
  <2>4. t \in Keys \ exhausted /\ t # current /\ states[t] \in ThemeStates
        /\ Unused(states[t]) /\ HasRoom(states[t]) /\ current = NoTheme
    BY <1>3, <1>typed, <2>1, GrindAssumption DEF Keys, PhaseInv, SelectTheme, TypeOK
  <2>5. /\ Selected(states[t], tree') \in ThemeStates
        /\ Unused(Selected(states[t], tree')) /\ HasRoom(Selected(states[t], tree'))
    <3>1. Measure(tree') \in Measures
      BY <2>2, MeasuresAreTyped
    <3> QED
      BY <2>4, <3>1, Constants DEF Selected, ThemeStates, Unused, HasRoom
  <2>6. /\ states' \in [Keys -> ThemeStates] /\ states'[t] = Selected(states[t], tree')
        /\ \A k \in Keys \ {t} : states'[k] = states[k]
    BY <1>typed, <2>3, <2>4, <2>5 DEF TypeOK
  <2>7. \A k \in Keys : Within(states'[k])
    BY <2>5, <2>6, Constants DEF TypeInv, Within, Unused
  <2>8. PhaseInv'
    <3>1. Used(states'[t]) = 0 /\ Used(states[current]) = 0
      <4>1. Unused(states[current])
        BY <1>3, <2>1, <2>4 DEF PhaseInv, SelectTheme
      <4> QED
        BY <2>4, <2>5, <2>6, <4>1, Constants DEF Used, Unused
    <3>2. UNCHANGED <<exhausted, iteration, opts>> /\ ~opts.fixed /\ iteration <= opts.maxIterations
      BY <1>3 DEF SelectTheme
    <3>3. \A k \in Keys \ exhausted : HasRoom(states'[k])
      BY <2>1, <2>5, <2>6 DEF PhaseInv
    <3>4. (\A k \in Keys \ exhausted : k # t => Unused(states'[k])) /\ Unused(states'[NoTheme])
      BY <2>1, <2>4, <2>6, <3>2, GrindAssumption DEF PhaseInv, Keys
    <3> QED
      BY <2>1, <2>3, <3>1, <3>2, <3>3, <3>4 DEF PhaseInv
  <2> QED
    BY <1>3, <1>typed, <2>1, <2>2, <2>3, <2>4, <2>6, <2>7, <2>8
       DEF SelectTheme, TypeInv, TypeOK, Places, Refactoring, BudgetsEndThePhase
<1>4. CASE KeepTheme
  <2>1. Refactoring /\ (opts.fixed \/ current \in Themes)
    BY <1>4, <1>typed DEF KeepTheme, TypeInv, TypeOK, Refactoring, Keys
  <2> QED
    BY <1>4, <1>files, <2>1, GotoStep DEF KeepTheme, files, Places, TypeInv
<1>5. CASE ReachCeiling
  <2>1. PhaseInv /\ Refactoring /\ iteration \in Nat \ {0} /\ opts.maxIterations \in Nat \ {0}
    BY <1>5, <1>typed, Constants DEF ReachCeiling, TypeInv, TypeOK, Refactoring
  <2>2. /\ current \in Keys /\ states[current] \in ThemeStates /\ HasRoom(states[current])
        /\ exhausted \subseteq Themes
    BY <1>typed, <2>1 DEF TypeOK, PhaseInv
  <2>3. opts.maxIterations <= Cardinality(exhausted) * IterationBound + Used(states[current])
    <3>1. Used(states[current]) \in Nat
      BY <2>2, MeasuresAreTyped, <1>files, RecordedStates
    <3>2. Cardinality(exhausted) * IterationBound \in Nat
      BY <2>2, ExhaustedThemes
    <3> QED
      BY <1>5, <2>1, <3>1, <3>2, Constants DEF ReachCeiling, PhaseInv
  <2>4. Cardinality(exhausted) * IterationBound + Used(states[current])
           <= Cardinality(Themes) * IterationBound
    <3>1. /\ Used(states[current]) \in Nat /\ Used(states[current]) <= IterationBound
      <4>1. /\ Used(states[current]) \in Nat
            /\ Used(RecordNoChange(states[current])) \in Nat
            /\ Used(RecordNoChange(states[current])) >= Used(states[current]) + 1
            /\ Used(RecordNoChange(states[current])) <= IterationBound
        BY <2>2, MeasuresAreTyped, <1>files, RecordedStates
      <4> QED
        BY <4>1, Constants
    <3>2. /\ Cardinality(exhausted) * IterationBound \in Nat
          /\ Cardinality(Themes) * IterationBound \in Nat
          /\ Cardinality(exhausted) * IterationBound <= Cardinality(Themes) * IterationBound
      BY <2>2, ExhaustedThemes
    <3>3. CASE ~opts.fixed /\ current = NoTheme
      <4>1. Used(states[current]) = 0
        BY <2>1, <3>3, Constants DEF PhaseInv, Used, Unused
      <4> QED
        BY <4>1, <3>2
    <3>4. CASE current \in Themes
      <4>1. current \in Themes \ exhausted
        BY <3>4, <2>1 DEF PhaseInv
      <4>2. /\ Cardinality(exhausted \cup {current}) * IterationBound
                 = Cardinality(exhausted) * IterationBound + IterationBound
            /\ Cardinality(exhausted \cup {current}) * IterationBound
                 <= Cardinality(Themes) * IterationBound
        BY <2>2, <4>1, ExhaustedThemes
      <4> QED
        BY <4>2, <3>1, <3>2, Constants
    <3>5. CASE opts.fixed
      <4>1. AutoThemes[1] \in Themes /\ exhausted = {}
        BY <3>5, <2>1, AutoThemesIsFunction DEF PhaseInv
      <4>2. /\ Cardinality({} \cup {AutoThemes[1]}) * IterationBound
                 = Cardinality({}) * IterationBound + IterationBound
            /\ Cardinality({} \cup {AutoThemes[1]}) * IterationBound
                 <= Cardinality(Themes) * IterationBound
        BY <4>1, ExhaustedThemes
      <4> QED
        BY <4>1, <4>2, <3>1, <3>2, Constants
    <3> QED
      BY <3>3, <3>4, <3>5, <2>2 DEF Keys
  <2>5. ~(opts.maxIterations > Cardinality(Themes) * IterationBound)
    <3>1. /\ Cardinality(exhausted) * IterationBound \in Nat
          /\ Cardinality(Themes) * IterationBound \in Nat
      BY <2>2, ExhaustedThemes
    <3>2. Used(states[current]) \in Nat
      BY <2>2, MeasuresAreTyped, <1>files, RecordedStates
    <3> QED
      BY <2>1, <2>3, <2>4, <3>1, <3>2
  <2> QED
    BY <1>5, <1>typed, <2>5 DEF ReachCeiling, files, themes, TypeInv, TypeOK, Places, Endings,
                                Refactoring, BudgetsEndThePhase
<1>6. CASE AgentStage("cluster", "plan") \/ AgentStage("plan", "implement")
             \/ AgentStage("implement", "gates")
  <2>1. PICK place \in {"plan", "implement", "gates", "repair"} : Goto(place) /\ AgentEdits
           /\ pc \in {"cluster", "plan", "implement"} /\ UNCHANGED <<head, logs>>
    BY <1>6 DEF AgentStage
  <2>2. Refactoring /\ PhaseInv /\ phase = "refactor"
    BY <2>1, <1>typed DEF TypeInv, Refactoring
  <2>3. tree' \in Files /\ stray' \in Strays
    BY <2>1, <1>files, EditsAreTyped
  <2> QED
    BY <1>files, <2>1, <2>2, <2>3, GotoStep DEF PhaseInv, Places
<1>7. CASE GatesPass \/ GatesFail
  <2>1. PICK place \in {"commit", "repair"} : Goto(place) /\ pc = "gates"
           /\ tree' \in {tree, AfterCorpus} /\ UNCHANGED <<head, stray, logs>>
    BY <1>7 DEF GatesPass, GatesFail
  <2>2. Refactoring /\ PhaseInv /\ phase = "refactor"
    BY <2>1, <1>typed DEF TypeInv, Refactoring
  <2> QED
    BY <1>files, <2>1, <2>2, GotoStep, CorpusIsTyped DEF PhaseInv, Places
<1>8. CASE CommitIteration
  <2>1. phase = "refactor"
    BY <1>8 DEF CommitIteration, TypeInv
  <2> QED
    BY <1>8, <1>files, <1>strays, <2>1, RecordStep DEF CommitIteration
<1>9. CASE NoChanges
  <2>1. phase = "refactor"
    BY <1>9 DEF NoChanges, TypeInv
  <2> QED
    BY <1>9, <1>files, <2>1, RecordStep DEF NoChanges, files
<1>10. CASE RepairAgent
  <2>1. tree' \in Files /\ stray' \in Strays /\ pc = "repair" /\ Goto("repairGates")
        /\ logs' \in BOOLEAN /\ head' = head
    BY <1>10, <1>files, EditsAreTyped DEF RepairAgent
  <2>2. Refactoring => PhaseInv
    BY DEF TypeInv
  <2> QED
    BY <1>files, <2>1, <2>2, GotoStep DEF Refactoring, PhaseInv, Places
<1>11. CASE RepairGatesPass
  <2>1. tree' \in Files /\ pc = "repairGates" /\ Goto("repairCommit")
        /\ UNCHANGED <<head, stray, logs>>
    BY <1>11, <1>files, CorpusIsTyped DEF RepairGatesPass
  <2>2. Refactoring => PhaseInv
    BY DEF TypeInv
  <2> QED
    BY <1>files, <2>1, <2>2, GotoStep DEF Refactoring, PhaseInv, Places
<1>12. CASE CommitRepair
  <2>1. CASE phase = "refactor" /\ Record(RecordRepair(states[current]))
    BY <1>12, <2>1, <1>files, <1>strays, RecordStep DEF CommitRepair
  <2>2. CASE phase = "card" /\ Goto("card")
    BY <1>12, <2>2, <1>files, <1>strays, GotoStep DEF CommitRepair, Refactoring, Places
  <2> QED
    BY <1>12, <2>1, <2>2 DEF CommitRepair
<1>13. CASE DiscardIteration
  <2>1. stray' \in Strays
    BY <1>13, <1>files DEF DiscardIteration
  <2> QED
    BY <1>13, <1>files, <2>1, RecordStep DEF DiscardIteration
<1>14. CASE CardPhaseEnds
  <2>1. head' \in Files /\ tree' \in Files /\ stray' \in Strays /\ logs' \in BOOLEAN
    BY <1>14, <1>files DEF CardPhaseEnds, AddCardSession, Honest
  <2> QED
    BY <1>14, <2>1, EndStep DEF CardPhaseEnds
<1>15. CASE CardPhaseFails
  <2>1. head' \in Files /\ tree' \in Files /\ stray' \in Strays /\ logs' \in BOOLEAN
    BY <1>15, <1>files DEF CardPhaseFails, AddCardSession, Honest
  <2>2. attempts' \in 0 .. RepairAttempts
    BY <1>15, <1>typed, Constants DEF CardPhaseFails, TypeOK
  <2> QED
    BY <1>15, <1>typed, <2>1, <2>2 DEF CardPhaseFails, themes, TypeInv, TypeOK, Places,
                                       Refactoring, BudgetsEndThePhase
<1>16. CASE GiveUp
  BY <1>16, <1>files, EndStep DEF GiveUp, files
<1>17. CASE CleanUp
  BY <1>17, <1>typed, <1>strays
     DEF CleanUp, themes, TypeInv, TypeOK, Refactoring, PhaseInv, BudgetsEndThePhase
<1> QED
  BY <1>stutter, <1>1, <1>2, <1>3, <1>4, <1>5, <1>6, <1>7, <1>8, <1>9, <1>10, <1>11, <1>12,
     <1>13, <1>14, <1>15, <1>16, <1>17 DEF Next

\* Every variable keeps its type.
THEOREM GrindTypes == Spec => []TypeOK
<1>1. TypeInv => TypeOK
  BY DEF TypeInv
<1> QED
  BY <1>1, TypeInit, TypeStep, PTL DEF Spec

\* No theme commits, repairs or idles more than its budgets allow.
THEOREM BudgetsAreKept == Spec => []ThemesKeepTheirBudgets
<1>1. TypeInv => ThemesKeepTheirBudgets
  BY DEF TypeInv, ThemesKeepTheirBudgets, Within, Keys
<1> QED
  BY <1>1, TypeInit, TypeStep, PTL DEF Spec

\* With a ceiling above what the budgets allow the phase ends before the ceiling.
THEOREM PhaseEndsByItself == Spec => []BudgetsEndThePhase
<1>1. TypeInv => BudgetsEndThePhase
  BY DEF TypeInv
<1> QED
  BY <1>1, TypeInit, TypeStep, PTL DEF Spec
-----------------------------------------------------------------------------
\* Commits.

\* Only gated trees reach a commit, every commit is honest, and the report of the
\* working tree never falls behind the committed one.
HeadInv ==
    /\ head \in Honest
    /\ head.status \subseteq tree.status
    /\ pc \in {"commit", "repairCommit"} => tree \in Gated /\ stray # "broken"

\* A step that leaves the last commit alone and makes no other tree pending.
LEMMA HeadStays ==
    ASSUME HeadInv, head' = head, tree'.status = tree.status,
           pc' \notin {"commit", "repairCommit"}
    PROVE  HeadInv' /\ head.status \subseteq head'.status
  BY DEF HeadInv

LEMMA GatedAfterCorpus ==
    ASSUME tree \in Files, HeadInv, GatesCanPass, tree' = AfterCorpus, head' = head,
           stray' = stray
    PROVE  HeadInv' /\ head.status \subseteq head'.status
<1>1. AfterCorpus \in Gated /\ tree.status \subseteq AfterCorpus.status
  BY CorpusIsTyped DEF GatesCanPass, Gated, Honest
<1> QED
  BY <1>1 DEF HeadInv, GatesCanPass

LEMMA HeadStep ==
    ASSUME TypeOK, HeadInv, [Next]_vars
    PROVE  HeadInv' /\ head.status \subseteq head'.status
<1>files. tree \in Files
  BY DEF TypeOK
<1>stutter. CASE UNCHANGED vars
  BY <1>stutter DEF vars, HeadInv
<1>1. CASE Start \/ PhaseIsQuiet \/ DryRun \/ KeepTheme \/ ReachCeiling
  BY <1>1, HeadStays DEF Start, PhaseIsQuiet, DryRun, KeepTheme, ReachCeiling, Goto, files
<1>2. CASE SelectTheme \/ AgentStage("cluster", "plan") \/ AgentStage("plan", "implement")
             \/ AgentStage("implement", "gates") \/ RepairAgent
  <2>1. AgentEdits /\ head' = head /\ pc' \notin {"commit", "repairCommit"}
    BY <1>2 DEF SelectTheme, AgentStage, RepairAgent, Goto
  <2> QED
    BY <1>files, <2>1, EditsAreTyped, HeadStays
<1>3. CASE GatesPass \/ RepairGatesPass
  BY <1>3, <1>files, GatedAfterCorpus DEF GatesPass, RepairGatesPass
<1>4. CASE GatesFail
  <2>1. pc' = "repair" /\ head' = head /\ stray' = stray
    BY <1>4 DEF GatesFail, Goto
  <2>2. CASE UNCHANGED tree
    BY <2>1, <2>2, HeadStays
  <2>3. CASE GatesCanPass /\ tree' = AfterCorpus
    BY <2>1, <2>3, <1>files, GatedAfterCorpus
  <2> QED
    BY <1>4, <2>2, <2>3 DEF GatesFail
<1>5. CASE CommitIteration \/ CommitRepair
  <2>1. tree \in Gated /\ head' = tree /\ tree' = tree /\ head.status \subseteq tree.status
    BY <1>5 DEF CommitIteration, CommitRepair, HeadInv
  <2>2. pc' \notin {"commit", "repairCommit"}
    BY <1>5 DEF CommitIteration, CommitRepair, Record, Goto
  <2> QED
    BY <2>1, <2>2 DEF HeadInv, Gated
<1>6. CASE NoChanges
  <2>1. pc' \notin {"commit", "repairCommit"} /\ head' = head /\ tree' = tree
    BY <1>6 DEF NoChanges, Record, files
  <2> QED
    BY <2>1, HeadStays
<1>7. CASE DiscardIteration \/ CleanUp
  <2>1. pc' \notin {"commit", "repairCommit"} /\ head' = head /\ tree' = head
    BY <1>7 DEF DiscardIteration, CleanUp, Record
  <2> QED
    BY <2>1 DEF HeadInv
<1>8. CASE CardPhaseEnds \/ CardPhaseFails
  <2>1. AddCardSession /\ pc' \notin {"commit", "repairCommit"}
    BY <1>8 DEF CardPhaseEnds, CardPhaseFails, GrindEnds
  <2> QED
    BY <2>1 DEF AddCardSession, HeadInv
<1>9. CASE GiveUp
  BY <1>9, HeadStays DEF GiveUp, GrindEnds, files
<1> QED
  BY <1>stutter, <1>1, <1>2, <1>3, <1>4, <1>5, <1>6, <1>7, <1>8, <1>9 DEF Next

LEMMA HeadInit == Init => HeadInv
  BY DEF Init, HeadInv

\* The last commit changes only at the end of an iteration, of a repair or in an
\* add-card session.
LEMMA CommitsHappenAtCommits ==
    ASSUME [Next]_vars, head' # head
    PROVE  pc \in {"commit", "repairCommit", "card"}
  BY DEF Next, vars, files, Start, PhaseIsQuiet, SelectTheme, DryRun, KeepTheme, ReachCeiling,
         AgentStage, GatesPass, GatesFail, CommitIteration, NoChanges, RepairAgent,
         RepairGatesPass, CommitRepair, DiscardIteration, CardPhaseEnds, CardPhaseFails,
         GiveUp, CleanUp

LEMMA CommitsCommitTheTree ==
    ASSUME [Next]_vars, pc \in {"commit", "repairCommit"}, head' # head
    PROVE  head' = tree
  BY DEF Next, vars, files, Start, PhaseIsQuiet, SelectTheme, DryRun, KeepTheme, ReachCeiling,
         AgentStage, GatesPass, GatesFail, CommitIteration, NoChanges, RepairAgent,
         RepairGatesPass, CommitRepair, DiscardIteration, CardPhaseEnds, CardPhaseFails,
         GiveUp, CleanUp

\* What grind itself commits passes its gates, the untracked files included, and its
\* report is the one its code yields.
THEOREM CommitsArePassed == Spec => CommitsPassTheirGates
<1>1. TypeInv => TypeOK
  BY DEF TypeInv
<1>2. ASSUME HeadInv, [Next]_vars
      PROVE  [head' # head /\ pc # "card" => head' \in Gated /\ stray # "broken"]_vars
  BY <1>2, CommitsHappenAtCommits, CommitsCommitTheTree DEF HeadInv
<1> QED
  BY <1>1, <1>2, TypeInit, TypeStep, HeadInit, HeadStep, PTL DEF Spec, CommitsPassTheirGates

\* No commit loses a passing card.
THEOREM PassingIsKept == Spec => PassingNeverDrops
<1>1. TypeInv => TypeOK
  BY DEF TypeInv
<1>2. ASSUME TypeOK, HeadInv, [Next]_vars
      PROVE  [head.status \subseteq head'.status]_vars
  BY <1>2, HeadStep
<1> QED
  BY <1>1, <1>2, TypeInit, TypeStep, HeadInit, HeadStep, PTL DEF Spec, PassingNeverDrops

\* Grind keeps the promise of the mainline, for any themes, budgets and failures.
THEOREM GrindKeepsMainline == Spec => ImplementsMainline
<1>1. TypeInv => TypeOK
  BY DEF TypeInv
<1>2. HeadInv => M!Init
  BY DEF HeadInv, M!Init
<1>3. ASSUME TypeOK, HeadInv, [Next]_vars
      PROVE  [M!Next]_<<head.status, head \in Honest, tree.status>>
  BY <1>3, HeadStep DEF HeadInv, M!Next
<1> QED
  BY <1>1, <1>2, <1>3, TypeInit, TypeStep, HeadInit, HeadStep, PTL
     DEF Spec, ImplementsMainline, M!Spec

\* An add-card session that may commit, taken as one step, may do to the repository
\* just what the mainline allows: add-card keeps that promise in each of its own steps
\* (AddCardProofs, SessionsKeepMainline), and the promise composes.
LEMMA SessionsAreMainlineSteps ==
    ASSUME head' \in Files, tree' \in Files, stray' \in Strays, logs' \in {logs, FALSE},
           ~opts.dryRun
    PROVE  AddCardSession <=> M!Next
  BY DEF AddCardSession, M!Next, Honest

-----------------------------------------------------------------------------
\* Clean hand-over.

LEMMA StartsStep ==
    ASSUME TypeInv, StartsFromHead, [Next]_vars
    PROVE  StartsFromHead'
<1>typed. iteration \in Nat
  BY Constants DEF TypeInv, TypeOK
<1>stutter. CASE UNCHANGED vars
  BY <1>stutter DEF vars, StartsFromHead
<1>1. CASE Start
  BY <1>1 DEF Start, StartsFromHead, TypeInv
<1>2. CASE PhaseIsQuiet \/ ReachCeiling \/ DryRun
  BY <1>2 DEF PhaseIsQuiet, ReachCeiling, DryRun, files, StartsFromHead
<1>3. CASE SelectTheme \/ KeepTheme \/ GatesPass \/ GatesFail \/ RepairAgent \/ RepairGatesPass
             \/ AgentStage("cluster", "plan") \/ AgentStage("plan", "implement")
             \/ AgentStage("implement", "gates") \/ CardPhaseFails
  <2>1. pc' \notin {"next", "card"}
    BY <1>3 DEF SelectTheme, KeepTheme, GatesPass, GatesFail, RepairAgent, RepairGatesPass,
                AgentStage, CardPhaseFails, Goto
  <2> QED
    BY <2>1 DEF StartsFromHead
<1>4. CASE CommitIteration \/ CommitRepair \/ NoChanges \/ DiscardIteration
  <2>1. tree' = head'
    BY <1>4 DEF CommitIteration, CommitRepair, NoChanges, NothingStaged, DiscardIteration, files
  <2> QED
    BY <2>1 DEF StartsFromHead
<1>5. CASE CardPhaseEnds \/ GiveUp \/ CleanUp
  <2>1. pc' \notin {"next", "card"}
    BY <1>5 DEF CardPhaseEnds, GiveUp, CleanUp, GrindEnds
  <2> QED
    BY <2>1 DEF StartsFromHead
<1> QED
  BY <1>stutter, <1>1, <1>2, <1>3, <1>4, <1>5 DEF Next

\* Iterations and add-card sessions start from the tracked files of the last commit.
THEOREM PhasesStartFromHead == Spec => []StartsFromHead
<1>1. Init => StartsFromHead
  BY DEF Init, StartsFromHead
<1> QED
  BY <1>1, TypeInit, TypeStep, StartsStep, PTL DEF Spec
-----------------------------------------------------------------------------
\* The end of a run.

LEMMA RanksOf ==
    /\ PlaceRank["next"] = 8 /\ PlaceRank["cluster"] = 7 /\ PlaceRank["plan"] = 6
    /\ PlaceRank["implement"] = 5 /\ PlaceRank["gates"] = 4 /\ PlaceRank["commit"] = 3
    /\ PlaceRank["repair"] = 3 /\ PlaceRank["repairGates"] = 2 /\ PlaceRank["repairCommit"] = 1
    /\ PlaceRank["card"] = 0 /\ PlaceRank["down"] = 0
  BY DEF PlaceRank

LEMMA RanksAreNumbers == \A p \in Places : PlaceRank[p] \in Nat
  BY RanksOf DEF Places

\* The refactor phase is left for the add-card phase.
EntersCardPhase == phase = "refactor" /\ pc \notin {"card", "down"} /\ pc' = "card"

\* The add-card phase is entered again after a repair.
RepairsCardPhase ==
    /\ pc = "card" /\ phase' = "card" /\ pc' = "repair"
    /\ attempts < RepairAttempts /\ attempts' = attempts + 1

\* The next iteration.
Iterates ==
    /\ pc \notin {"card", "down"} /\ pc' = "next" /\ phase = "refactor" /\ phase' = "refactor"
    /\ iteration' = iteration + 1
    /\ iteration <= opts.maxIterations
    /\ UNCHANGED <<opts, attempts>>

\* The way through an iteration, or through a repair of the add-card phase.
GoesDown ==
    /\ PlaceRank[pc'] < PlaceRank[pc]
    /\ pc' = "card" => phase = "card"
    /\ pc # "card"
    /\ UNCHANGED <<opts, attempts, iteration, phase>>

LEMMA RunSteps ==
    ASSUME TypeInv, Next, pc # "down", pc' # "down"
    PROVE  EntersCardPhase \/ RepairsCardPhase \/ Iterates \/ GoesDown
<1>1. CASE PhaseIsQuiet \/ DryRun \/ ReachCeiling
  BY <1>1 DEF PhaseIsQuiet, DryRun, ReachCeiling, EntersCardPhase, TypeInv
<1>2. CASE SelectTheme \/ KeepTheme
  BY <1>2, RanksOf DEF SelectTheme, KeepTheme, Goto, GoesDown
<1>3. CASE AgentStage("cluster", "plan") \/ AgentStage("plan", "implement")
           \/ AgentStage("implement", "gates")
  BY <1>3, RanksOf DEF AgentStage, Goto, GoesDown
<1>4. CASE GatesPass \/ GatesFail \/ RepairAgent \/ RepairGatesPass
  BY <1>4, RanksOf DEF GatesPass, GatesFail, RepairAgent, RepairGatesPass, Goto, GoesDown
<1>5. ASSUME NEW s, Record(s), phase = "refactor", pc \notin {"next", "card", "down"}
      PROVE  EntersCardPhase \/ Iterates
  <2>1. iteration <= opts.maxIterations
    BY <1>5 DEF TypeInv, Refactoring, PhaseInv
  <2> QED
    BY <1>5, <2>1 DEF Record, EntersCardPhase, Iterates
<1>6. CASE CommitIteration \/ NoChanges
  BY <1>5, <1>6 DEF CommitIteration, NoChanges, TypeInv
<1>7. CASE DiscardIteration
  BY <1>5, <1>7 DEF DiscardIteration
<1>8. CASE CommitRepair
  <2>1. CASE phase = "refactor" /\ Record(RecordRepair(states[current]))
    BY <1>5, <1>8, <2>1 DEF CommitRepair
  <2>2. CASE phase = "card" /\ Goto("card")
    BY <1>8, <2>2, RanksOf DEF CommitRepair, Goto, GoesDown
  <2> QED
    BY <1>8, <2>1, <2>2 DEF CommitRepair
<1>9. CASE CardPhaseFails
  BY <1>9 DEF CardPhaseFails, RepairsCardPhase
<1>10. ~Start /\ ~CardPhaseEnds /\ ~GiveUp /\ ~CleanUp
  BY DEF Start, CardPhaseEnds, GiveUp, CleanUp, GrindEnds
<1> QED
  BY <1>1, <1>2, <1>3, <1>4, <1>6, <1>7, <1>8, <1>9, <1>10 DEF Next

LEMMA BelowInFour ==
    ASSUME NEW a, NEW b,
           DOMAIN b = 1 .. 4,
           \/ a[1] < b[1]
           \/ a[1] = b[1] /\ a[2] < b[2]
           \/ a[1] = b[1] /\ a[2] = b[2] /\ a[3] < b[3]
           \/ a[1] = b[1] /\ a[2] = b[2] /\ a[3] = b[3] /\ a[4] < b[4]
    PROVE  Below(a, b)
<1>1. CASE a[1] < b[1]
  BY <1>1 DEF Below
<1>2. CASE a[1] = b[1] /\ a[2] < b[2]
  BY <1>2 DEF Below
<1>3. CASE a[1] = b[1] /\ a[2] = b[2] /\ a[3] < b[3]
  BY <1>3 DEF Below
<1>4. CASE a[1] = b[1] /\ a[2] = b[2] /\ a[3] = b[3] /\ a[4] < b[4]
  BY <1>4 DEF Below
<1> QED
  BY <1>1, <1>2, <1>3, <1>4

LEMMA RunDescends ==
    ASSUME TypeInv, TypeInv', Next, pc # "down", pc' # "down"
    PROVE  Below(Remaining', Remaining)
<1> DEFINE a == Remaining'
           b == Remaining
<1>1. /\ attempts \in Nat /\ RepairAttempts \in Nat /\ attempts <= RepairAttempts
      /\ iteration \in Nat /\ opts.maxIterations \in Nat /\ opts.maxIterations + 1 \in Nat
      /\ pc \in Places /\ pc' \in Places
  BY Constants DEF TypeInv, TypeOK
<1>2. DOMAIN b = 1 .. 4
  BY DEF Remaining
<1>3. /\ a[1] = IF pc' = "card" \/ phase' = "card" THEN 0 ELSE 1
      /\ a[2] = Left(attempts', RepairAttempts)
      /\ a[3] = Left(iteration', opts'.maxIterations + 1)
      /\ a[4] = PlaceRank[pc']
  BY DEF Remaining, PlaceRank
<1>4. /\ b[1] = IF pc = "card" \/ phase = "card" THEN 0 ELSE 1
      /\ b[2] = Left(attempts, RepairAttempts)
      /\ b[3] = Left(iteration, opts.maxIterations + 1)
      /\ b[4] = PlaceRank[pc]
  BY DEF Remaining
<1> HIDE DEF a, b
<1>5. CASE EntersCardPhase
  BY <1>2, <1>3, <1>4, <1>5, BelowInFour DEF EntersCardPhase, a, b
<1>6. CASE RepairsCardPhase
  <2>1. a[1] = b[1] /\ a[2] < b[2]
    BY <1>1, <1>3, <1>4, <1>6 DEF RepairsCardPhase, Left
  <2> QED
    BY <1>2, <2>1, BelowInFour DEF a, b
<1>7. CASE Iterates
  <2>1. a[1] = b[1] /\ a[2] = b[2]
    BY <1>3, <1>4, <1>7 DEF Iterates
  <2>2. a[3] < b[3]
    BY <1>1, <1>3, <1>4, <1>7 DEF Iterates, Left
  <2> QED
    BY <1>2, <2>1, <2>2, BelowInFour DEF a, b
<1>8. CASE GoesDown
  <2>1. a[1] = b[1] /\ a[2] = b[2] /\ a[3] = b[3] /\ a[4] < b[4]
    BY <1>3, <1>4, <1>8 DEF GoesDown
  <2> QED
    BY <1>2, <2>1, BelowInFour DEF a, b
<1> QED
  BY <1>5, <1>6, <1>7, <1>8, RunSteps

LEMMA RemainingTyped == TypeInv => Remaining \in Tuples(4)
<1> SUFFICES ASSUME TypeInv PROVE Remaining \in Tuples(4)
  OBVIOUS
<1>1. /\ attempts \in Nat /\ RepairAttempts \in Nat
      /\ iteration \in Nat /\ opts.maxIterations + 1 \in Nat
  BY Constants DEF TypeInv, TypeOK
<1>2. PlaceRank[pc] \in Nat
  BY RanksAreNumbers DEF TypeInv, TypeOK
<1>3. Left(attempts, RepairAttempts) \in Nat /\ Left(iteration, opts.maxIterations + 1) \in Nat
  BY <1>1 DEF Left
<1> QED
  BY <1>2, <1>3 DEF Remaining, Tuples

\* Each step of a run uses up something of which there is finitely much: the refactor
\* phase, a repair of the add-card phase, an iteration, or a place on the way through
\* one.  No agent and no gate can keep grind running, whatever they do.
THEOREM GrindRunsDown == Spec => RunsDown /\ [](Remaining \in Tuples(4))
<1>1. TypeInv /\ TypeInv' /\ [Next]_vars
        => [pc # "down" /\ pc' # "down" => Below(Remaining', Remaining)]_vars
  BY RunDescends
<1> QED
  BY <1>1, RemainingTyped, TypeInit, TypeStep, PTL DEF Spec, RunsDown
=============================================================================
