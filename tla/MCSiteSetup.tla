----------------------------- MODULE MCSiteSetup -----------------------------
EXTENDS SiteSetup

CallersAlike == Permutations(Callers)

\* Two Google accounts, so that a site can be recorded for the wrong one.
MCProviderOf == [a \in {"google", "google2", "bing", "cloudflare"} |->
                    IF a = "google2" THEN "google" ELSE a]
MCProviderOrder == <<"google", "bing">>
MCDefaultId == [p \in {"google", "bing", "cloudflare"} |-> p]
\* All accounts; Bing's name occupied; two Google accounts; Google alone, with
\* a PageSpeed key.
MCInitialStates ==
    {[accounts |-> [a \in {"google", "bing", "cloudflare"} |-> NewAccount], occupied |-> {}],
     [accounts |-> [a \in {"bing", "cloudflare"} |-> NewAccount], occupied |-> Sites],
     [accounts |-> [a \in {"google", "google2", "bing"} |-> NewAccount], occupied |-> {}],
     [accounts |-> [a \in {"google"} |-> [NewAccount EXCEPT !.keyed = TRUE]], occupied |-> {}]}

=============================================================================
