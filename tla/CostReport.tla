------------------------------ MODULE CostReport ------------------------------
(***************************************************************************)
(* cost.py: the cost report, computed from the audit rows of evaluate.     *)
(*                                                                         *)
(* Money is whole: a rate is in millidollars, and a tick is the 18000th    *)
(* part of a microdollar, so that both ways of pricing a call (by tokens   *)
(* and by GPU time) come out even.  The report rounds to microdollars.     *)
(***************************************************************************)
EXTENDS Integers, FiniteSets, FiniteSetsExt

CONSTANTS
  bedrock_input_price_per_1k,   (* millidollars for 1000 tokens            *)
  bedrock_output_price_per_1k,
  nim_gpu_hourly_rate,          (* millidollars for an hour                *)
  None                          (* a JSON null, or an argument not given   *)

ASSUME PriceAssumption ==
  /\ bedrock_input_price_per_1k \in Nat /\ bedrock_output_price_per_1k \in Nat
  /\ nim_gpu_hourly_rate \in Nat

TicksPerMicrodollar == 18000

price_call(backend, input, output, ms) ==
  CASE backend = "bedrock" -> 18000 * (input * bedrock_input_price_per_1k
                                       + output * bedrock_output_price_per_1k)
    [] backend = "nim"     -> 5 * ms * nim_gpu_hourly_rate
    [] OTHER               -> 0

Rounded(ticks) == (ticks + TicksPerMicrodollar \div 2) \div TicksPerMicrodollar

OrZero(x) == IF x = None THEN 0 ELSE x

(* Mutant: rows of the rule overlay, which called no model, count too. *)
MatchedWithOverlay(rows, since, backend) ==
  {r \in rows : /\ r.event = "node_completed"
                /\ since # None => r.created_at >= since
                /\ backend # None => r.backend = backend}

(* The rows that called a model: a row of the rule overlay has no token    *)
(* fields (one whose backend gave no usage has them, as nulls).            *)
Matched(rows, since, backend) ==
  {r \in rows : /\ r.event = "node_completed"
                /\ r.tokens
                /\ since # None => r.created_at >= since
                /\ backend # None => r.backend = backend}

Group(rows, backend) == {r \in rows : r.backend = backend}

(* The CostRow of a (queue, backend, model): one queue, and one model per  *)
(* backend.                                                                *)
CostRow(rows, backend) ==
  LET group == Group(rows, backend)
      input == SumFunction([r \in group |-> OrZero(r.input)])
      output == SumFunction([r \in group |-> OrZero(r.output)])
      ms == SumFunction([r \in group |-> OrZero(r.latency_ms)])
  IN  [backend |-> backend, calls |-> Cardinality(group),
       input |-> input, output |-> output, latency_ms |-> ms,
       observed |-> Rounded(price_call(backend, input, output, ms))]

(* Mutant: the window starts at the latest row. *)
WindowFromLatest(matched, since) ==
  IF since # None THEN since ELSE Max({r.created_at : r \in matched})

WindowStart(matched, since) ==
  IF since # None THEN since ELSE Min({r.created_at : r \in matched})

(* created_at, since and now in minutes; the window is at least one.       *)
WindowMinutes(matched, since, now) == Max({now - WindowStart(matched, since), 1})

build_cost_report(rows, since, backend, now) ==
  LET matched == Matched(rows, since, backend)
      groups == {CostRow(matched, b) : b \in {r.backend : r \in matched}}
  IN  IF matched = {}
      THEN [rows |-> {}, minutes |-> 0, observed |-> 0]
      ELSE [rows |-> groups,
            minutes |-> WindowMinutes(matched, since, now),
            observed |-> SumFunction([g \in groups |-> g.observed])]

-------------------------------------------------------------------------------
(* What the report must say of a table                                     *)

Backends == {"nim", "bedrock", "fake"}

ExactCost(rows) ==
  SumFunction([r \in rows |-> price_call(r.backend, OrZero(r.input), OrZero(r.output),
                                         OrZero(r.latency_ms))])

(* The reports of the backends add up to the whole report, and no group is *)
(* off by more than half a microdollar of what its calls cost one by one.  *)
AddsUp(rows, since, now) ==
  LET whole == build_cost_report(rows, since, None, now)
      error == TicksPerMicrodollar * whole.observed
               - ExactCost(Matched(rows, since, None))
  IN  /\ whole.observed =
           SumFunction([b \in Backends |-> build_cost_report(rows, since, b, now).observed])
      /\ 2 * error <= TicksPerMicrodollar * Cardinality(whole.rows)
      /\ 2 * (-error) <= TicksPerMicrodollar * Cardinality(whole.rows)

(* A rate is measured over a window that reaches back to every row it      *)
(* counts, and to no time before the first of them or since.               *)
WindowFits(rows, since, now) ==
  LET report == build_cost_report(rows, since, None, now)
      matched == Matched(rows, since, None)
  IN  matched # {} =>
        /\ \A r \in matched : r.created_at >= now - report.minutes
        /\ since = None /\ now > Min({r.created_at : r \in matched}) =>
             \E r \in matched : r.created_at = now - report.minutes

===============================================================================
