----------------------------- MODULE Strategies -----------------------------
(***************************************************************************)
(* What the strategies say of a ticker and what StrategyManager makes of   *)
(* it: strategies/strategy_manager.py, and of the strategies the one with  *)
(* control of its own, strategies/ai_strategy.py over                      *)
(* core/ai_decision_maker.py.  Shares of one are in hundredths.            *)
(***************************************************************************)
EXTENDS Market, Integers, SequencesExt, FiniteSetsExt

CONSTANTS
    Strategy,   \* names in STRATEGY_REGISTRY
    AI,         \* AI_Claude
    MaxRounds   \* answers of the model that decide_trade reads: 6

ASSUME StrategyAssumption == AI \in Strategy /\ MaxRounds \in Nat

Score == [STRONG_BUY |-> 2, BUY |-> 1, HOLD |-> 0, SELL |-> -1, STRONG_SELL |-> -2]

\* No one checks a confidence: it may be above one, and negative.
Signal == [strategy : Strategy, kind : DOMAIN Score, confidence : Int, size : 0..100]

-----------------------------------------------------------------------------
(* The decision maker.                                                     *)

\* An item of trade_decisions; `levels` says that it has the two prices under
\* the names _decision_to_signal reads, `plan` what exit_plan is.
Decision == [asset : Ticker, action : {"buy", "sell", "hold", "open_long", "open_short"},
             confidence : Int, size : 0..100, levels : BOOLEAN, plan : {"none", "text"}]

\* A round of decide_trade: how often the model asks for tools, what its next
\* answer is, and the decisions read from that, or by the sanitizer from prose.
Conversation == [tools : Nat, last : {"error", "empty", "json", "prose"},
                 decisions : Seq(Decision)]

Hold(t) == [asset |-> t, action |-> "hold", confidence |-> 50, size |-> 5,
            levels |-> FALSE, plan |-> "none"]

\* decide_trade gets to decisions: the loop is not used up, the call is answered
\* with text, and the text parses or the sanitizer finds decisions in it.
Decided(c) ==
    /\ c.tools < MaxRounds
    /\ c.last = "json" \/ (c.last = "prose" /\ c.decisions # <<>>)

DecideTrade(t, c) == IF Decided(c) THEN c.decisions ELSE <<Hold(t)>>

\* Nought counts as not given.
Confidence(d) == IF d.confidence = 0 THEN 50 ELSE d.confidence

Kind(d) ==
    CASE d.action = "hold" -> "HOLD"
      [] d.action = "buy" -> IF Confidence(d) >= 80 THEN "STRONG_BUY" ELSE "BUY"
      [] d.action = "sell" -> IF Confidence(d) >= 80 THEN "STRONG_SELL" ELSE "SELL"
      [] d.action = "open_long" -> "STRONG_BUY"
      [] d.action = "open_short" -> "STRONG_SELL"

SignalOf(d) ==
    [strategy |-> AI, kind |-> Kind(d), confidence |-> Confidence(d),
     size |-> Max({1, Min({d.size, 25})})]

\* A plan in words has no .get: the strategy raises unless it need not look there.
Raises(d) == d.plan = "text" /\ ~d.levels

\* generate_signals of the AI strategy with use_api set: what the decisions on
\* this ticker say, in an order that no sum depends on.
Advice(t, c) ==
    LET decisions == DecideTrade(t, c)
        mine == {i \in DOMAIN decisions : decisions[i].asset = t}
        order == SetToSeq(mine)
    IN  IF \E i \in mine : Raises(decisions[i]) THEN <<>>
        ELSE [k \in DOMAIN order |-> SignalOf(decisions[order[k]])]

-----------------------------------------------------------------------------
(* The consensus.                                                          *)

\* What each signal adds to the total weight and to the weighted score.
Weights(signals, weight) == [i \in DOMAIN signals |-> weight[signals[i].strategy]]

Scores(signals, weight) ==
    [i \in DOMAIN signals |->
        Score[signals[i].kind] * signals[i].confidence * weight[signals[i].strategy]]

Total(signals, weight) == SumFunction(Weights(signals, weight))

\* Fault: the sum of the scores leaves the weights out.
Weighted_Flat(signals, weight) == SumFunction(Scores(signals, [s \in Strategy |-> 1]))

Weighted(signals, weight) == SumFunction(Scores(signals, weight))

\* get_consensus_signal's verdict; without signals it has no score.
NoScore == "no score"

Consensus(signals, weight) ==
    LET total == Total(signals, weight)
        twice == IF total > 0 THEN 2 * Weighted(signals, weight) ELSE 0
    IN  CASE signals = <<>> -> NoScore
          [] signals # <<>> /\ total <= 0 -> "HOLD"
          [] total > 0 /\ twice >= 300 * total -> "STRONG_BUY"
          [] total > 0 /\ twice >= 100 * total /\ twice < 300 * total -> "BUY"
          [] total > 0 /\ twice <= -300 * total -> "STRONG_SELL"
          [] total > 0 /\ twice <= -100 * total /\ twice > -300 * total -> "SELL"
          [] total > 0 /\ twice > -100 * total /\ twice < 100 * total -> "HOLD"

\* scan_all_tickers reads the score of every ticker it was given.
ScanSucceeds(signals, weight) ==
    \A t \in DOMAIN signals : Consensus(signals[t], weight) # NoScore
=============================================================================
