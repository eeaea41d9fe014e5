------------------------------ MODULE SiteSetup ------------------------------
(***************************************************************************)
(* Guided setup, IndexNow initialisation, onboarding and ownership         *)
(* verification side by side.  They meet in the boundary file, in Bing's   *)
(* sites and in the accounts a server loaded at startup.  Every caller is  *)
(* a command or a request; it may die at any point, and be tried again.    *)
(***************************************************************************)
EXTENDS LocalSetup, SiteOnboarding, SiteOwnership

CONSTANTS
    InitialStates,      \* accounts of the file and occupied names to start with
    MaxStarts           \* bound: commands and requests of a behaviour

\* Nothing is onboarded at the start: the accounts have no resources yet.
ASSUME InitialStatesAssumption ==
    \A initial \in InitialStates :
        /\ AreAccounts(initial.accounts)
        /\ \A a \in DOMAIN initial.accounts :
              /\ initial.accounts[a].sites = {}
              /\ initial.accounts[a].properties = {}
              /\ initial.accounts[a].pages = {}
ASSUME NoSiteAssumption == NoSite \notin Sites

VARIABLE starts         \* commands and requests started so far

vars == <<fileVars, setupVars, bingVars, onboardingVars, ownershipVars, starts>>

Init ==
    /\ \E initial \in InitialStates :
          /\ document = [accounts |-> initial.accounts, targets |-> {}]
          /\ policy = DOMAIN initial.accounts
          /\ OwnershipInit(initial.occupied)
    /\ replacements = 0
    /\ starts = 0
    /\ properties = <<>>
    /\ SetupInit /\ BingInit /\ OnboardingInit

----------------------------------------------------------------------------

Idle(c) == ~Editing(c) /\ ~OnboardingActive(c) /\ ~OwnershipActive(c)

\* A caller that is tried again starts over; only its last report is kept.
Start(c) ==
    /\ Idle(c)
    /\ starts < MaxStarts
    /\ starts' = starts + 1

StartEdit(c) ==
    /\ Start(c)
    /\ \/ \E selected \in SUBSET AskedProviders : GuidedRead(c, selected)
       \/ \E id \in TargetIds, host \in Sites : InitializeIndexNow(c, id, host)
    /\ UNCHANGED <<fileVars, bingVars, onboardingVars, ownershipVars>>

StartOnboarding(c) ==
    /\ Start(c)
    /\ \E site \in Sites, asked \in {"automatic"} \cup AccountIds : BeginOnboarding(c, site, asked)
    /\ UNCHANGED <<fileVars, setupVars, bingVars, ownershipVars>>

StartOwnership(c) ==
    /\ Start(c)
    /\ \E verify \in BOOLEAN, site \in Sites, google, bing \in AccountIds \cup {None} :
          BeginOwnership(c, verify, site, google, bing)
    /\ UNCHANGED <<fileVars, setupVars, bingVars, onboardingVars>>

EditStep(c) ==
    /\ \/ StoreCredential(c) /\ UNCHANGED fileVars
       \/ LookForKey(c) /\ UNCHANGED fileVars
       \/ CreateKey(c) /\ UNCHANGED fileVars
       \/ GuidedWrite(c)
       \/ ConfigureTarget(c)
    /\ UNCHANGED <<bingVars, onboardingVars, ownershipVars, starts>>

OnboardingStep(c) ==
    /\ \/ /\ \/ ListProperties(c)
             \/ ReadStreams(c)
             \/ ResolveGa4Site(c)
             \/ CreateProperty(c)
             \/ CreateStream(c)
             \/ ListSearchConsole(c)
             \/ AddSearchConsole(c)
             \/ ListBing(c)
             \/ ReadFails(c)
             \/ ReadBoundaryFile(c)
          /\ UNCHANGED <<fileVars, bingVars>>
       \/ AddToBing(c) /\ UNCHANGED fileVars
       \/ WriteBoundaryFile(c) /\ UNCHANGED bingVars
    /\ UNCHANGED <<setupVars, ownershipVars, starts>>

OwnershipStep(c) ==
    /\ \/ /\ \/ ReadMaterial(c)
             \/ EnsureTxt(c)
             \/ EnsureCname(c)
             \/ CreateTxt(c)
             \/ CreateCname(c)
             \/ GoogleStatus(c)
             \/ RedeemGoogle(c)
             \/ BingStatus(c)
             \/ OwnershipReadFails(c)
          /\ UNCHANGED bingVars
       \/ AddVerificationSite(c)
       \/ RedeemBing(c)
    /\ UNCHANGED <<fileVars, setupVars, onboardingVars, starts>>

\* A command is interrupted, a server is killed, a client goes away: what the
\* caller had in hand is gone and nothing is reported.
Dies(c) ==
    /\ ~Idle(c)
    /\ edit' = [edit EXCEPT ![c] = NoEdit]
    /\ onboarding' = [onboarding EXCEPT ![c] = IF OnboardingActive(c) THEN NotOnboarding ELSE @]
    /\ ownership' = [ownership EXCEPT ![c] =
                        IF OwnershipActive(c) THEN NoOwnership ELSE @]
    /\ UNCHANGED <<fileVars, secrets, pagespeedKey, keyFile, keysMade, keysRaced, bingVars,
                   properties, lateStreams, gscSites, streamsRaced, dnsVars, googleVerified,
                   starts>>

\* What the providers do on their own: late creations and DNS propagation.
ProviderStep ==
    \/ /\ \E l \in lateStreams : StreamArrives(l)
       /\ UNCHANGED <<fileVars, setupVars, bingVars, ownershipVars, starts>>
    \/ /\ \E r \in Record : RecordArrives(r) \/ Publish(r)
       /\ UNCHANGED <<fileVars, setupVars, bingVars, onboardingVars, starts>>

Restart ==
    /\ LoadPolicy
    /\ \A c \in Callers : ~OnboardingActive(c) /\ ~OwnershipActive(c)
    /\ UNCHANGED <<setupVars, bingVars, onboardingVars, ownershipVars, starts>>

Next ==
    \/ \E c \in Callers :
          \/ StartEdit(c) \/ StartOnboarding(c) \/ StartOwnership(c)
          \/ EditStep(c) \/ OnboardingStep(c) \/ OwnershipStep(c)
          \/ Dies(c)
    \/ ProviderStep
    \/ Restart

Spec == Init /\ [][Next]_vars

----------------------------------------------------------------------------
(* Properties *)

TypeOK ==
    /\ IsDocument(document)
    /\ replacements \in Nat
    /\ policy \subseteq AccountIds
    /\ secrets \subseteq Providers
    /\ keyFile \in Nat /\ keysMade \in Nat
    /\ properties \in Seq(Ga4Properties)
    /\ gscSites \subseteq AccountIds \X Sites
    /\ bingSites \subseteq AccountIds \X Sites
    /\ records \in [Record -> Nat]
    /\ published \subseteq Record

\* However often an onboarding fails, loses an answer, dies and is tried again,
\* a site has one GA4 web stream in an account (_resolve_ga4_site), unless two
\* onboardings of it decided at once or one decided while a creation was still
\* on its way.  Two streams stop every later onboarding of the site.
OneStreamPerSite ==
    \A a \in AccountIds, s \in Sites :
        Cardinality(StreamsFor(a, s)) > 1 => <<a, s>> \in streamsRaced

\* docs/ownership-and-onboarding.md: "Retry the exact same request. Rankrat
\* matches an existing GA4 stream by site URL [...] it won't duplicate them."
\* It may: create_site_property can time out and be carried out after the
\* retry has listed the streams and found none.
RetriesReuseTheStream ==
    \A a \in AccountIds, s \in Sites : Cardinality(StreamsFor(a, s)) <= 1

\* The file never names what the providers do not have: a recorded site is in
\* Search Console or Bing, and a recorded property has a stream.
FileNamesWhatExists ==
    \A a \in DOMAIN document.accounts : LET account == document.accounts[a] IN
        /\ account.sites \subseteq
              {s \in Sites : <<a, s>> \in IF ProviderOf[a] = "google" THEN gscSites ELSE bingSites}
        /\ \A i \in account.properties : i \in DOMAIN properties /\ properties[i].stream # NoSite

\* A copy of the file is stale once another replace has happened.
Stale(c) ==
    \/ edit[c].stage \in {"prompts", "look", "create", "configure"} /\ edit[c].seen # replacements
    \/ onboarding[c].stage = "writeFile" /\ onboarding[c].seen # replacements

\* A replace drops something of the file only while somebody holds a stale
\* copy of it: each of the three writers keeps what it does not edit.
UpdatesSurvive ==
    [][(\A c \in Callers : ~Stale(c)) => Keeps(document', document)]_vars

\* What a caller is told is true at the providers.  The stages named by a
\* partial failure or a receipt are done, and a complete ownership receipt
\* means that every selected provider holds the site to be verified.
OnboardingReportTrue(call) ==
    /\ "google_analytics" \in call.done =>
          /\ call.property \in DOMAIN properties
          /\ properties[call.property] = [owner |-> call.google, stream |-> call.site]
    /\ "google_search_console" \in call.done => <<call.google, call.site>> \in gscSites
    /\ "bing" \in call.done => <<call.bing, call.site>> \in bingSites
    /\ call.report = "receipt" =>
          call.done = {"google_analytics", "google_search_console", "bing"}

OwnershipReportTrue(call) ==
    /\ CompleteReceipt(call) =>
          /\ call.google # None => <<call.google, call.site>> \in googleVerified
          /\ call.bing # None => <<call.bing, call.site>> \in bingVerified
    /\ call.googleStatus.created => records[GoogleRecord(call)] > 0
    /\ call.bingStatus.created => records[BingRecord(call)] > 0

ReportsAreTrue ==
    \A c \in Callers :
        /\ onboarding[c].stage = "ended" => OnboardingReportTrue(onboarding[c])
        /\ ownership[c].stage = "ended" => OwnershipReportTrue(ownership[c])

\* A zone never holds a proof twice, unless two verifications were about to
\* create it at once or a creation was applied after its caller had given up.
RecordsUnique == \A r \in Record : records[r] > 1 => r \in recordsRaced

\* Every target's location carries the key that the key file holds, so its
\* ownership file can be published and verified; two initialisations that
\* both find no key leave the targets of one of them with a lost key.
TargetsUseTheKey == keysRaced \/ \A t \in document.targets : t.key = keyFile

\* The file can be loaded at the next startup.  The one writer that can break
\* it is the IndexNow initialisation, with a target named like an account.
FileLoads ==
    \/ ValidDocument(document)
    \/ \E t \in document.targets : t.id \in DOMAIN document.accounts

=============================================================================
