------------------------------ MODULE BingSites ------------------------------
(***************************************************************************)
(* Bing Webmaster's sites as onboarding and ownership verification see     *)
(* them through GetUserSites, AddSite and VerifySite.                      *)
(***************************************************************************)
EXTENDS Naturals

VARIABLES
    bingSites,      \* <<account, site>>: sites the account's key can see
    bingVerified    \* <<account, site>>: those Bing holds to be verified

bingVars == <<bingSites, bingVerified>>

BingInit == bingSites = {} /\ bingVerified = {}

\* How a call that changes something at a provider can end: applied and
\* answered; refused; applied although the caller sees an error (a lost
\* answer, a timeout, an answer that does not validate).
Outcomes == {"applied", "refused", "lost"}

\* AddSite: adding a site that is there again changes nothing.
AddBingSite(outcome, account, site) ==
    bingSites' = IF outcome = "refused" THEN bingSites ELSE bingSites \cup {<<account, site>>}

\* VerifySite: Bing looks the record up itself, and answers whether it did.
VerifyBingSite(found, account, site) ==
    bingVerified' = IF found THEN bingVerified \cup {<<account, site>>} ELSE bingVerified

=============================================================================
