---------------------------- MODULE SiteOwnership ----------------------------
(***************************************************************************)
(* Ownership of one site through DNS: take the proof each selected search  *)
(* provider issues (adding the site to Bing when it is not there), make    *)
(* sure the DNS zone holds its record, look whether the record is public,  *)
(* and redeem the proofs that are.  A check does the same reads only.      *)
(***************************************************************************)
EXTENDS BoundaryFile, BingSites

CONSTANT None

VARIABLES
    ownership,          \* per caller: the request it serves and how far it is
    records,            \* DNS zone: how many records of each kind it holds
    published,          \* records the public resolvers may answer with
    lateRecords,        \* records asked for in vain that will still be created
    recordsRaced,       \* records two verifications were about to create at once
    googleVerified      \* <<account, site>>: sites Google holds to be verified

dnsVars == <<records, published, lateRecords, recordsRaced>>
ownershipVars == <<ownership, dnsVars, googleVerified>>

\* A record is told by its type, the site whose zone it is in, and the account
\* whose proof it carries; an owner's own CNAME under Bing's name carries none.
Record ==
    LET of(provider) == {a \in AccountIds : ProviderOf[a] = provider}
    IN  [type : {"TXT"}, site : Sites, proof : of("google")]
        \cup [type : {"CNAME"}, site : Sites, proof : of("bing") \cup {None}]

GoogleRecord(call) == [type |-> "TXT", site |-> call.site, proof |-> call.google]
BingRecord(call) == [type |-> "CNAME", site |-> call.site, proof |-> call.bing]
OccupiedName(call) == [type |-> "CNAME", site |-> call.site, proof |-> None]

Unselected == [created |-> FALSE, propagated |-> FALSE, verified |-> FALSE]

NoOwnership == [stage |-> "idle"]

OwnershipActive(c) == ownership[c].stage \notin {"idle", "ended"}

At(c, stage) == ownership[c].stage = stage
Go(c, stage) == ownership' = [ownership EXCEPT ![c].stage = stage]

\* An error tells nothing of what has been done.
FailOwnership(c) == ownership' = [ownership EXCEPT ![c] = NoOwnership]

----------------------------------------------------------------------------
(* Requests and the proofs the providers issue *)

BeginOwnership(c, verify, site, google, bing) ==
    /\ ~OwnershipActive(c)
    /\ {google, bing} # {None}
    /\ google # None => google \in policy /\ ProviderOf[google] = "google"
    /\ bing # None => bing \in policy /\ ProviderOf[bing] = "bing"
    /\ verify => \E a \in policy : ProviderOf[a] = "cloudflare"
    /\ ownership' = [ownership EXCEPT ![c] =
          [stage |-> "material", verify |-> verify, site |-> site, google |-> google,
           bing |-> bing, known |-> FALSE, verified |-> FALSE,
           googleStatus |-> Unselected, bingStatus |-> Unselected]]
    /\ UNCHANGED <<dnsVars, googleVerified>>

AfterMaterial(call) ==
    IF ~call.verify THEN "googleStatus"
    ELSE IF call.google # None THEN "txtList" ELSE "cnameList"

\* Google issues the same token for a domain each time.  Bing's entry carries
\* the code and whether the site is verified, as of this read.
ReadMaterial(c) ==
    /\ At(c, "material") \/ At(c, "reread")
    /\ LET call == ownership[c]
           listed == call.bing # None /\ <<call.bing, call.site>> \in bingSites
           verified == <<call.bing, call.site>> \in bingVerified
       IN  IF listed \/ call.bing = None
             THEN ownership' = [ownership EXCEPT ![c].known = listed,
                                                 ![c].verified = listed /\ verified,
                                                 ![c].stage = AfterMaterial(call)]
             ELSE \/ call.verify /\ At(c, "material") /\ Go(c, "bingAdd")
                  \/ call.verify /\ At(c, "reread") /\ FailOwnership(c)
                  \/ ~call.verify /\ Go(c, "googleStatus")
    /\ UNCHANGED <<dnsVars, googleVerified>>

AddVerificationSite(c) ==
    /\ At(c, "bingAdd")
    /\ \E outcome \in Outcomes :
         /\ AddBingSite(outcome, ownership[c].bing, ownership[c].site)
         /\ IF outcome = "applied" THEN Go(c, "reread") ELSE FailOwnership(c)
    /\ UNCHANGED <<dnsVars, googleVerified, bingVerified>>

----------------------------------------------------------------------------
(* ensure_verification_record *)

Creating(c, record) ==
    \/ At(c, "txtCreate") /\ GoogleRecord(ownership[c]) = record
    \/ At(c, "cnameCreate") /\ BingRecord(ownership[c]) = record

AfterTxt(call) == IF call.bing = None THEN "googleStatus" ELSE "cnameList"

\* The zone is resolved and its records of the type and name are listed; the
\* record is created in a later call when the list does not hold it.
ListRecords(c, record, create, after) ==
    /\ Go(c, IF records[record] > 0 THEN after ELSE create)
    /\ recordsRaced' =
         IF records[record] = 0 /\ (\/ record \in lateRecords
                                    \/ \E o \in Callers : Creating(o, record))
           THEN recordsRaced \cup {record} ELSE recordsRaced
    /\ UNCHANGED <<records, published, lateRecords, googleVerified>>

\* mutant: the list is not compared with the record
AlwaysCreateTxt(c) ==
    /\ At(c, "txtList")
    /\ Go(c, "txtCreate")
    /\ UNCHANGED <<records, published, lateRecords, recordsRaced, googleVerified>>

EnsureTxt(c) ==
    /\ At(c, "txtList")
    /\ ListRecords(c, GoogleRecord(ownership[c]), "txtCreate", AfterTxt(ownership[c]))

\* An occupied name is refused.
EnsureCname(c) ==
    /\ At(c, "cnameList")
    /\ LET call == ownership[c]
       IN  IF records[OccupiedName(call)] > 0 /\ records[BingRecord(call)] = 0
             THEN /\ FailOwnership(c)
                  /\ UNCHANGED <<dnsVars, googleVerified>>
             ELSE ListRecords(c, BingRecord(call), "cnameCreate", "googleStatus")

\* A zone accepts a second TXT record, and one CNAME for a name.
ZoneAccepts(record) ==
    record.type = "CNAME" =>
        \A r \in Record : r.type = "CNAME" /\ r.site = record.site => records[r] = 0

AddRecord(record) ==
    records' = [records EXCEPT ![record] = IF ZoneAccepts(record) THEN @ + 1 ELSE @]

CreateTxt(c) ==
    /\ At(c, "txtCreate")
    /\ LET call == ownership[c]
           record == GoogleRecord(call)
       IN  \/ /\ AddRecord(record)
              /\ \/ ownership' = [ownership EXCEPT ![c].googleStatus.created = TRUE,
                                                   ![c].stage = AfterTxt(call)]
                 \/ FailOwnership(c)
              /\ UNCHANGED lateRecords
           \/ /\ FailOwnership(c)
              /\ lateRecords' \in {lateRecords, lateRecords \cup {record}}
              /\ UNCHANGED records
    /\ UNCHANGED <<published, recordsRaced, googleVerified>>

CreateCname(c) ==
    /\ At(c, "cnameCreate")
    /\ LET record == BingRecord(ownership[c])
       IN  \/ /\ ZoneAccepts(record)
              /\ AddRecord(record)
              /\ \/ ownership' = [ownership EXCEPT ![c].bingStatus.created = TRUE,
                                                   ![c].stage = "googleStatus"]
                 \/ FailOwnership(c)
              /\ UNCHANGED lateRecords
           \/ /\ FailOwnership(c)
              /\ lateRecords' \in {lateRecords, lateRecords \cup {record}}
              /\ UNCHANGED records
    /\ UNCHANGED <<published, recordsRaced, googleVerified>>

RecordArrives(record) ==
    /\ record \in lateRecords
    /\ lateRecords' = lateRecords \ {record}
    /\ AddRecord(record)
    /\ UNCHANGED <<ownership, published, recordsRaced, googleVerified>>

\* A record of the zone becomes visible to the public resolvers.
Publish(record) ==
    /\ records[record] > 0
    /\ record \notin published
    /\ published' = published \cup {record}
    /\ UNCHANGED <<ownership, records, lateRecords, recordsRaced, googleVerified>>

----------------------------------------------------------------------------
(* Public propagation, verification and the receipt *)

\* A resolver may still answer from before the record was published.
Seen(record) == IF record \in published THEN BOOLEAN ELSE {FALSE}

\* mutant: a verified proof is not asked for, a visible record is enough
TrustsDns(c) ==
    /\ At(c, "googleStatus")
    /\ \E seen \in Seen(GoogleRecord(ownership[c])) :
         ownership' = [ownership EXCEPT
            ![c].googleStatus.propagated = seen,
            ![c].googleStatus.verified = seen,
            ![c].stage = "bingStatus"]
    /\ UNCHANGED <<dnsVars, googleVerified>>

\* has_record and is_verified; a visible proof of an unverified site is redeemed.
GoogleStatus(c) ==
    /\ At(c, "googleStatus")
    /\ LET call == ownership[c]
           verified == <<call.google, call.site>> \in googleVerified
       IN  IF call.google = None THEN Go(c, "bingStatus")
           ELSE \E seen \in Seen(GoogleRecord(call)) :
                  ownership' = [ownership EXCEPT
                     ![c].googleStatus.propagated = seen,
                     ![c].googleStatus.verified = verified,
                     ![c].stage = IF call.verify /\ seen /\ ~verified
                                    THEN "googleRedeem" ELSE "bingStatus"]
    /\ UNCHANGED <<dnsVars, googleVerified>>

\* Google verifies a site whose record it can look up, or refuses.
RedeemGoogle(c) ==
    /\ At(c, "googleRedeem")
    /\ \/ /\ GoogleRecord(ownership[c]) \in published
          /\ googleVerified' = googleVerified \cup {<<ownership[c].google, ownership[c].site>>}
          /\ \/ ownership' = [ownership EXCEPT ![c].googleStatus.verified = TRUE,
                                               ![c].stage = "bingStatus"]
             \/ FailOwnership(c)
       \/ /\ FailOwnership(c)
          /\ UNCHANGED googleVerified
    /\ UNCHANGED dnsVars

Receipt(c, status) ==
    ownership' = [ownership EXCEPT ![c] =
        [stage |-> "ended", site |-> @.site, google |-> @.google,
         bing |-> @.bing, googleStatus |-> @.googleStatus, bingStatus |-> status]]

\* A site Bing did not list has nothing created, visible or verified.
BingStatus(c) ==
    /\ At(c, "bingStatus")
    /\ LET call == ownership[c]
       IN  IF ~call.known THEN Receipt(c, Unselected)
           ELSE \E seen \in Seen(BingRecord(call)) :
                  IF call.verify /\ seen /\ ~call.verified
                    THEN Go(c, "bingRedeem")
                    ELSE Receipt(c, [call.bingStatus EXCEPT !.propagated = seen,
                                                            !.verified = call.verified])
    /\ UNCHANGED <<dnsVars, googleVerified>>

\* VerifySite answers whether Bing found the record; the answer may be lost.
RedeemBing(c) ==
    /\ At(c, "bingRedeem")
    /\ \E found \in Seen(BingRecord(ownership[c])) :
         /\ VerifyBingSite(found, ownership[c].bing, ownership[c].site)
         /\ \/ Receipt(c, [ownership[c].bingStatus EXCEPT !.propagated = TRUE,
                                                          !.verified = found])
            \/ FailOwnership(c)
    /\ UNCHANGED <<dnsVars, googleVerified, bingSites>>

\* "complete" of the receipt: every selected provider is verified.
CompleteReceipt(call) ==
    /\ call.google # None => call.googleStatus.verified
    /\ call.bing # None => call.bingStatus.verified

\* Any read can fail.
OwnershipReadFails(c) ==
    /\ ownership[c].stage \in
          {"material", "reread", "txtList", "cnameList", "googleStatus", "bingStatus"}
    /\ FailOwnership(c)
    /\ UNCHANGED <<dnsVars, googleVerified>>

\* In the zones of some sites an own record of the owner occupies Bing's name.
OwnershipInit(occupied) ==
    /\ ownership = [c \in Callers |-> NoOwnership]
    /\ records = [r \in Record |->
          IF r.type = "CNAME" /\ r.proof = None /\ r.site \in occupied THEN 1 ELSE 0]
    /\ published = {}
    /\ lateRecords = {}
    /\ recordsRaced = {}
    /\ googleVerified = {}

=============================================================================
