--------------------------- MODULE SiteOnboarding ---------------------------
(***************************************************************************)
(* Onboarding one site: find its GA4 web stream or create a property and a *)
(* stream for it, add the site to Search Console and to Bing when they do  *)
(* not list it, and record all of it in the boundary file.  Every provider *)
(* call is a step of its own, nothing is rolled back, and a failure after  *)
(* a finished stage is reported with the stages that are done.             *)
(***************************************************************************)
EXTENDS BoundaryFile, BingSites, Sequences

CONSTANT NoSite     \* the stream of a property that has none for a site

VARIABLES
    onboarding,     \* per caller: the request it serves and how far it is
    properties,     \* GA4 properties in order of creation; ids are indices
    lateStreams,    \* streams asked for in vain that Google will still create
    gscSites,       \* <<account, site>>: Search Console sites of an account
    streamsRaced    \* <<account, site>>: two onboardings decided at once

onboardingVars == <<onboarding, properties, lateStreams, gscSites, streamsRaced>>

NotOnboarding == [stage |-> "idle"]

OnboardingActive(c) == onboarding[c].stage \notin {"idle", "ended"}

Ga4Properties == [owner : AccountIds, stream : Sites \cup {NoSite}]

StreamsFor(account, site) ==
    {i \in DOMAIN properties : properties[i] = [owner |-> account, stream |-> site]}

Advance(c, stage) == onboarding' = [onboarding EXCEPT ![c].stage = stage]

Complete(c, name, stage) ==
    onboarding' = [onboarding EXCEPT ![c].done = @ \cup {name}, ![c].stage = stage]

\* The answer of a request: a receipt, or a partial error with the stages that
\* are done.  A plain error tells nothing of what has been done.
EndOnboarding(c, report) ==
    onboarding' = [onboarding EXCEPT ![c] =
        [stage |-> "ended", report |-> report, site |-> @.site, google |-> @.google,
         bing |-> @.bing, done |-> @.done, property |-> @.property]]

PlainError(c) == onboarding' = [onboarding EXCEPT ![c] = NotOnboarding]

\* A provider or configuration error inside the try block of onboard.
FailOnboarding(c) ==
    IF onboarding[c].done = {} THEN PlainError(c) ELSE EndOnboarding(c, "partial")

----------------------------------------------------------------------------

\* The accounts come from the document the process loaded at startup.
BeginOnboarding(c, site, asked) ==
    /\ ~OnboardingActive(c)
    /\ \E google \in Selectable("google", asked),
          bing \in Selectable("bing", "automatic") :
         onboarding' = [onboarding EXCEPT ![c] =
            [stage |-> "inventory", site |-> site, google |-> google, bing |-> bing,
             todo |-> {}, matches |-> {}, property |-> 0, done |-> {}]]
    /\ UNCHANGED <<properties, lateStreams, gscSites, streamsRaced>>

Deciding(c, account, site) ==
    /\ onboarding[c].stage \in {"streams", "createProperty", "createStream"}
    /\ onboarding[c].google = account
    /\ onboarding[c].site = site

\* list_account_summaries: the properties whose streams will be read.  (Without
\* a reachable parent account the request ends here, as in ReadFails.)
ListProperties(c) ==
    /\ onboarding[c].stage = "inventory"
    /\ LET account == onboarding[c].google
           site == onboarding[c].site
           key == <<account, site>>
       IN  /\ onboarding' = [onboarding EXCEPT ![c].stage = "streams",
                   ![c].todo = {i \in DOMAIN properties : properties[i].owner = account}]
           /\ streamsRaced' =
                IF \/ \E o \in Callers : Deciding(o, account, site)
                   \/ \E l \in lateStreams : properties[l.property].owner = account
                                             /\ l.site = site
                  THEN streamsRaced \cup {key} ELSE streamsRaced
    /\ UNCHANGED <<properties, lateStreams, gscSites>>

\* list_data_streams of one more property.
ReadStreams(c) ==
    /\ onboarding[c].stage = "streams"
    /\ \E i \in onboarding[c].todo :
         onboarding' = [onboarding EXCEPT
            ![c].todo = @ \ {i},
            ![c].matches = IF properties[i].stream = onboarding[c].site THEN @ \cup {i} ELSE @]
    /\ UNCHANGED <<properties, lateStreams, gscSites, streamsRaced>>

\* mutant: matching streams are not looked at
AlwaysCreate(c) ==
    /\ onboarding[c].stage = "streams"
    /\ onboarding[c].todo = {}
    /\ Advance(c, "createProperty")
    /\ UNCHANGED <<properties, lateStreams, gscSites, streamsRaced>>

\* All streams are read: reuse the only match, create when there is none.
ResolveGa4Site(c) ==
    /\ onboarding[c].stage = "streams"
    /\ onboarding[c].todo = {}
    /\ CASE Cardinality(onboarding[c].matches) > 1 -> FailOnboarding(c)
         [] onboarding[c].matches = {} -> Advance(c, "createProperty")
         [] OTHER -> onboarding' = [onboarding EXCEPT
                        ![c].property = CHOOSE i \in onboarding[c].matches : TRUE,
                        ![c].done = {"google_analytics"},
                        ![c].stage = "gscList"]
    /\ UNCHANGED <<properties, lateStreams, gscSites, streamsRaced>>

\* The first POST of create_site_property; a property whose answer is lost
\* stays behind without a stream.
CreateProperty(c) ==
    /\ onboarding[c].stage = "createProperty"
    /\ \E outcome \in Outcomes :
         /\ properties' = IF outcome = "refused" THEN properties
                          ELSE Append(properties,
                                      [owner |-> onboarding[c].google, stream |-> NoSite])
         /\ IF outcome = "applied"
              THEN onboarding' = [onboarding EXCEPT ![c].stage = "createStream",
                                                    ![c].property = Len(properties) + 1]
              ELSE FailOnboarding(c)
    /\ UNCHANGED <<lateStreams, gscSites, streamsRaced>>

\* The second POST, which may also be applied after its caller has given up.
CreateStream(c) ==
    /\ onboarding[c].stage = "createStream"
    /\ LET site == onboarding[c].site
           id == onboarding[c].property
       IN  \E outcome \in Outcomes \cup {"late"} :
             /\ properties' = IF outcome \in {"refused", "late"} THEN properties
                              ELSE [properties EXCEPT ![id].stream = site]
             /\ lateStreams' = IF outcome = "late"
                                 THEN lateStreams \cup {[property |-> id, site |-> site]}
                                 ELSE lateStreams
             /\ IF outcome = "applied" THEN Complete(c, "google_analytics", "gscList")
                                       ELSE FailOnboarding(c)
    /\ UNCHANGED <<gscSites, streamsRaced>>

StreamArrives(l) ==
    /\ l \in lateStreams
    /\ lateStreams' = lateStreams \ {l}
    /\ properties' = [properties EXCEPT ![l.property].stream = l.site]
    /\ UNCHANGED <<onboarding, gscSites, streamsRaced>>

ListSearchConsole(c) ==
    /\ onboarding[c].stage = "gscList"
    /\ IF <<onboarding[c].google, onboarding[c].site>> \in gscSites
         THEN Complete(c, "google_search_console", "bingList")
         ELSE Advance(c, "gscAdd")
    /\ UNCHANGED <<properties, lateStreams, gscSites, streamsRaced>>

AddSearchConsole(c) ==
    /\ onboarding[c].stage = "gscAdd"
    /\ \E outcome \in Outcomes :
         /\ gscSites' = IF outcome = "refused" THEN gscSites
                        ELSE gscSites \cup {<<onboarding[c].google, onboarding[c].site>>}
         /\ IF outcome = "applied" THEN Complete(c, "google_search_console", "bingList")
                                   ELSE FailOnboarding(c)
    /\ UNCHANGED <<properties, lateStreams, streamsRaced>>

ListBing(c) ==
    /\ onboarding[c].stage = "bingList"
    /\ IF <<onboarding[c].bing, onboarding[c].site>> \in bingSites
         THEN Complete(c, "bing", "readFile")
         ELSE Advance(c, "bingAdd")
    /\ UNCHANGED <<properties, lateStreams, gscSites, streamsRaced, bingVars>>

\* mutant: a refused AddSite is taken for an accepted one
IgnoreBingAnswer(c) ==
    /\ onboarding[c].stage = "bingAdd"
    /\ \E outcome \in Outcomes : AddBingSite(outcome, onboarding[c].bing, onboarding[c].site)
    /\ Complete(c, "bing", "readFile")
    /\ UNCHANGED <<properties, lateStreams, gscSites, streamsRaced, bingVerified>>

AddToBing(c) ==
    /\ onboarding[c].stage = "bingAdd"
    /\ \E outcome \in Outcomes :
         /\ AddBingSite(outcome, onboarding[c].bing, onboarding[c].site)
         /\ IF outcome = "applied" THEN Complete(c, "bing", "readFile") ELSE FailOnboarding(c)
    /\ UNCHANGED <<properties, lateStreams, gscSites, streamsRaced, bingVerified>>

\* Any read, and any call before it is sent, can fail.
ReadFails(c) ==
    /\ onboarding[c].stage \in {"inventory", "streams", "gscList", "bingList"}
    /\ FailOnboarding(c)
    /\ UNCHANGED <<properties, lateStreams, gscSites, streamsRaced>>

----------------------------------------------------------------------------

\* The file is read again after the last provider call; an invalid one is a
\* plain error although every stage is done.
ReadBoundaryFile(c) ==
    /\ onboarding[c].stage = "readFile"
    /\ IF ValidDocument(document)
         THEN onboarding' = [onboarding EXCEPT ![c] =
                 [stage |-> "writeFile", site |-> @.site, google |-> @.google,
                  bing |-> @.bing, done |-> @.done, property |-> @.property,
                  copy |-> document, seen |-> replacements]]
         ELSE PlainError(c)
    /\ UNCHANGED <<properties, lateStreams, gscSites, streamsRaced>>

\* _updated_account: accounts the file no longer has are passed over.
UpdatedAccount(account, id, call) ==
    CASE id = call.google ->
            [account EXCEPT !.sites = @ \cup {call.site},
                            !.properties = @ \cup {call.property},
                            !.pages = IF account.keyed THEN @ \cup {call.site} ELSE @]
      [] id = call.bing -> [account EXCEPT !.sites = @ \cup {call.site}]
      [] OTHER -> account

UpdatedAccounts(call) ==
    [a \in DOMAIN call.copy.accounts |-> UpdatedAccount(call.copy.accounts[a], a, call)]

\* The new document validates and replaces the file, or is not written.  The
\* error of the directory fsync comes after the file has been replaced.
WriteBoundaryFile(c) ==
    /\ onboarding[c].stage = "writeFile"
    /\ LET new == [onboarding[c].copy EXCEPT !.accounts = UpdatedAccounts(onboarding[c])]
       IN  \/ /\ ValidDocument(new)
              /\ ReplaceFile(new)
              /\ EndOnboarding(c, "receipt") \/ PlainError(c)
           \/ /\ UNCHANGED <<document, replacements>>
              /\ PlainError(c)
    /\ UNCHANGED <<policy, properties, lateStreams, gscSites, streamsRaced>>

OnboardingInit ==
    /\ onboarding = [c \in Callers |-> NotOnboarding]
    /\ lateStreams = {}
    /\ gscSites = {}
    /\ streamsRaced = {}

=============================================================================
