------------------------------ MODULE OpChooser ------------------------------
(***************************************************************************)
(* The weighted operation chooser of one client thread across the run     *)
(* phases of ycsbc's main (src/YCSB-C/ycsbc.cc): for each run workload,   *)
(* CoreWorkload::InitRunWorkload (src/YCSB-C/core/core_workload.cc)        *)
(* registers every operation kind with a positive proportion in           *)
(* op_chooser_ and builds the key and scan-length choosers, the thread    *)
(* draws kinds with DiscreteGenerator::Next                               *)
(* (src/benchmarks/core/discrete_generator.h), and DeinitRunWorkload      *)
(* clears the chooser and frees the choosers.  Each thread owns its       *)
(* CoreWorkload, so one instance stands for all.                          *)
(*                                                                         *)
(* Proportions are integer weights (the chooser divides by their sum).    *)
(* The float drawn from [0, 1) is one of Grid evenly spaced values, and   *)
(* the comparisons chooser < weight / sum_ are exact.                     *)
(***************************************************************************)
EXTENDS Naturals, Sequences, SequencesExt

CONSTANTS
  Workloads,   \* run workload configurations: proportions and distributions
  MaxPhases,   \* number of run workloads on the command line
  Grid,        \* number of values the uniform float draw can take
  Garbage      \* an indeterminate Operation value

\* The kinds in the order InitRunWorkload registers them.
KindOrder == <<"READ", "UPDATE", "INSERT", "SCAN", "READMODIFYWRITE">>
Kinds == ToSet(KindOrder)

\* InitRunWorkload's `if (x_proportion_ > 0) op_chooser_.AddValue(X, x)`.
Registered(w) ==
  [i \in 1..Len(SelectSeq(KindOrder, LAMBDA k : w.p[k] > 0)) |->
     LET k == SelectSeq(KindOrder, LAMBDA k : w.p[k] > 0)[i]
     IN  [value |-> k, weight |-> w.p[k]]]

WeightSum(vals) == FoldSeq(LAMBDA v, s : s + v.weight, 0, vals)

Fallthrough == "assert(false)"

\* Mutant: a draw exactly on a boundary picks the kind below it.
PickInclusive(vals, r) ==
  LET RECURSIVE Loop(_, _)
      Loop(vs, x) ==
        IF vs = <<>> THEN Fallthrough
        ELSE IF x <= Head(vs).weight * Grid THEN Head(vs).value
        ELSE Loop(Tail(vs), x - Head(vs).weight * Grid)
  IN Loop(vals, r)

\* DiscreteGenerator::Next's loop: return the first value with
\* chooser < weight / sum_, else subtract weight / sum_ and go on.  With
\* chooser = c / Grid, r is chooser scaled by Grid * sum_.
Pick(vals, r) ==
  LET RECURSIVE Loop(_, _)
      Loop(vs, x) ==
        IF vs = <<>> THEN Fallthrough
        ELSE IF x < Head(vs).weight * Grid THEN Head(vs).value
        ELSE Loop(Tail(vs), x - Head(vs).weight * Grid)
  IN Loop(vals, r)

VARIABLES
  ndebug,   \* the build: TRUE when assert is compiled out
  values,   \* op_chooser_.values_
  total,    \* op_chooser_.sum_
  last,     \* op_chooser_.last_
  keyGen,   \* the request distribution key_chooser_ was built for, or "none"
  phase,    \* the run workload being run
  config,   \* its configuration
  pc,       \* "init", "run", "done", "abort" (assert), "terminate" (throw)
  drawn,    \* the kind the last Next returned in this phase, or "none"
  chooser,  \* c of that draw
  fell      \* that draw fell through the loop

vars == <<ndebug, values, total, last, keyGen, phase, config, pc, drawn, chooser, fell>>

\* The CoreWorkload array is default-constructed: last_ is uninitialised.
Init ==
  /\ ndebug \in BOOLEAN
  /\ values = <<>>
  /\ total = 0
  /\ last \in Kinds \cup {Garbage}
  /\ keyGen = "none"
  /\ phase = 1
  /\ config \in Workloads
  /\ pc = "init"
  /\ drawn = "none"
  /\ chooser = 0
  /\ fell = FALSE

\* DiscreteGenerator::AddValue, once per registered kind: the first value
\* added to an empty chooser becomes last_.
AddValues(vals) ==
  /\ values' = values \o vals
  /\ total' = total + WeightSum(vals)
  /\ last' = IF values = <<>> /\ vals # <<>> THEN vals[1].value ELSE last

\* InitRunWorkload: register the kinds, then build key_chooser_ for the
\* request distribution and scan_len_chooser_ for the scan-length one; an
\* unknown name throws utils::Exception out of the thread: terminate.
InitRunWorkload ==
  /\ pc = "init"
  /\ AddValues(Registered(config))
  /\ IF config.dist \in {"uniform", "zipfian", "latest"}
       THEN /\ keyGen' = config.dist
            /\ pc' = IF config.scanDist \in {"uniform", "zipfian"} THEN "run" ELSE "terminate"
       ELSE /\ keyGen' = "none"
            /\ pc' = "terminate"
  /\ drawn' = "none"
  /\ UNCHANGED <<ndebug, phase, config, chooser, fell>>

\* op_chooser_.Next(): the loop, then assert(false) and `return last_`.
ChooserNext ==
  /\ pc = "run"
  /\ \E c \in 0..Grid - 1 :
       LET v == Pick(values, c * total)
       IN  /\ chooser' = c
           /\ fell' = (v = Fallthrough)
           /\ IF v # Fallthrough
                THEN /\ last' = v /\ drawn' = v /\ UNCHANGED pc
                ELSE IF ndebug
                       THEN /\ drawn' = last /\ UNCHANGED <<last, pc>>
                       ELSE /\ pc' = "abort" /\ UNCHANGED <<last, drawn>>
  /\ UNCHANGED <<ndebug, values, total, keyGen, phase, config>>

\* Mutant: Clear empties values_ but leaves sum_.
DeinitRunWorkloadKeepSum ==
  /\ pc = "run"
  /\ values' = <<>>
  /\ keyGen' = "none"
  /\ drawn' = "none"
  /\ fell' = FALSE
  /\ IF phase < MaxPhases
       THEN /\ phase' = phase + 1
            /\ config' \in Workloads
            /\ pc' = "init"
       ELSE /\ pc' = "done"
            /\ UNCHANGED <<phase, config>>
  /\ UNCHANGED <<ndebug, total, last, chooser>>

\* Mutant: DeinitRunWorkload does not clear op_chooser_.
DeinitRunWorkloadNoClear ==
  /\ pc = "run"
  /\ keyGen' = "none"
  /\ drawn' = "none"
  /\ fell' = FALSE
  /\ IF phase < MaxPhases
       THEN /\ phase' = phase + 1
            /\ config' \in Workloads
            /\ pc' = "init"
       ELSE /\ pc' = "done"
            /\ UNCHANGED <<phase, config>>
  /\ UNCHANGED <<ndebug, values, total, last, chooser>>

\* DeinitRunWorkload after the run threads joined: op_chooser_.Clear()
\* empties values_ and sum_ (last_ stays), the choosers are deleted; main
\* moves on to the next run workload.
DeinitRunWorkload ==
  /\ pc = "run"
  /\ values' = <<>>
  /\ total' = 0
  /\ keyGen' = "none"
  /\ drawn' = "none"
  /\ fell' = FALSE
  /\ IF phase < MaxPhases
       THEN /\ phase' = phase + 1
            /\ config' \in Workloads
            /\ pc' = "init"
       ELSE /\ pc' = "done"
            /\ UNCHANGED <<phase, config>>
  /\ UNCHANGED <<ndebug, last, chooser>>

\* The program has ended, normally or not.
Stopped ==
  /\ pc \in {"done", "abort", "terminate"}
  /\ UNCHANGED vars

Next == InitRunWorkload \/ ChooserNext \/ DeinitRunWorkload \/ Stopped

Spec == Init /\ [][Next]_vars

-----------------------------------------------------------------------------
TypeOK ==
  /\ ndebug \in BOOLEAN
  /\ values \in Seq([value : Kinds, weight : Nat \ {0}])
  /\ total = WeightSum(values)
  /\ last \in Kinds \cup {Garbage}
  /\ keyGen \in {"none", "uniform", "zipfian", "latest"}
  /\ phase \in 1..MaxPhases
  /\ config \in Workloads
  /\ pc \in {"init", "run", "done", "abort", "terminate"}
  /\ drawn \in Kinds \cup {Garbage, "none"}
  /\ chooser \in 0..Grid - 1
  /\ fell \in BOOLEAN

\* The prefix sums of the weights: value i owns [Prefix(i-1), Prefix(i)).
Prefix(vals, i) == WeightSum(SubSeq(vals, 1, i))

\* Reference: the registered value whose cumulative weight interval holds
\* chooser * sum_.
RefPick(vals, c) ==
  LET x == c * WeightSum(vals)
  IN  vals[CHOOSE i \in 1..Len(vals) :
              Prefix(vals, i - 1) * Grid <= x /\ x < Prefix(vals, i) * Grid].value

\* DiscreteGenerator::Next's subtract-and-compare loop returns exactly the
\* value whose weight interval holds the draw, for every draw on the grid,
\* boundaries included.
DrawMatchesReference ==
  (drawn # "none" /\ ~fell) => drawn = RefPick(values, chooser)

\* Spec section 4.2: in a run phase whose proportions have a positive
\* total, every kind the chooser returns has a positive proportion in that
\* phase: nothing registered by an earlier run workload leaks into it
\* through InitRunWorkload / DeinitRunWorkload.
DrawsCurrentPhaseKind ==
  (drawn # "none" /\ WeightSum(Registered(config)) > 0)
    => drawn \in Kinds /\ config.p[drawn] > 0

=============================================================================
