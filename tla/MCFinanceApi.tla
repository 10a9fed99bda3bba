---------------------------- MODULE MCFinanceApi ----------------------------
(***************************************************************************)
(* Three requests at a time of one symbol and one page.                    *)
(***************************************************************************)
EXTENDS FinanceApi

CONSTANTS r1, r2, r3, aapl, quoteKey, pageKey

Ask(kind, forced, maxAge, store) ==
  [kind |-> kind, sym |-> aapl, key |-> pageKey, forced |-> forced, maxAge |-> maxAge,
   store |-> store]
Of(kind)   == Ask(kind, FALSE, AnyAge, TRUE)
Forced(kind) == Ask(kind, TRUE, AnyAge, TRUE)

Trio(a, b, c) == [r \in {r1, r2, r3} |-> CASE r = r1 -> a [] r = r2 -> b [] r = r3 -> c]

ThreeRequests == {r1, r2, r3}
OneSymbol     == {aapl}
TwoKeys       == {quoteKey, pageKey}
KeyOfQuote    == [s \in OneSymbol |-> quoteKey]
TtlOfKeys     == [k \in TwoKeys |-> IF k = quoteKey THEN 2 ELSE 1]

Mixes ==
  {Trio(Of("quote"), Forced("quote"), Of("clear")),
   Trio(Of("quote"), Forced("quote"), Of("zenith")),
   Trio(Of("quote"), Of("zenith"), Of("sec")),
   Trio(Of("page"), Ask("firecrawl", FALSE, 0, FALSE), Ask("firecrawl", FALSE, 1, TRUE)),
   Trio(Forced("page"), Of("html"), Of("news")),
   Trio(Forced("html"), Of("news"), Of("clear"))}

Poisoned == {[k \in TwoKeys |-> NoEntry],
             [k \in TwoKeys |-> IF k = quoteKey THEN [value |-> [valid |-> FALSE], at |-> 0]
                                ELSE NoEntry]}
=============================================================================
