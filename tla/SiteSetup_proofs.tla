-------------------------- MODULE SiteSetup_proofs --------------------------
(***************************************************************************)
(* Machine-checked proofs about SiteSetup, for every set of callers, sites *)
(* and accounts and any number of commands and requests.  Ownership: no    *)
(* proof is in a DNS zone twice.  The boundary file: its three writers     *)
(* keep what it said, write only what is true and loadable, and use one    *)
(* IndexNow key.  An account gets one web stream for a site; and what      *)
(* onboarding and verification report is so.                               *)
(***************************************************************************)
EXTENDS SiteSetup, FiniteSetTheorems, SequenceTheorems, TLAPS

----------------------------------------------------------------------------
(* DNS records. *)

OwnershipStage ==
    {"material", "reread", "bingAdd", "txtList", "txtCreate", "cnameList", "cnameCreate",
     "googleStatus", "googleRedeem", "bingStatus", "bingRedeem"}

OwnershipStatus == [created : BOOLEAN, propagated : BOOLEAN, verified : BOOLEAN]

OwnershipRequest ==
    [stage : OwnershipStage, verify : BOOLEAN, site : Sites, google : AccountIds \cup {None},
     bing : AccountIds \cup {None}, known : BOOLEAN, verified : BOOLEAN,
     googleStatus : OwnershipStatus, bingStatus : OwnershipStatus]

OwnershipTyped ==
    /\ ownership = [c \in Callers |-> ownership[c]]
    /\ \A c \in Callers : OwnershipActive(c) => ownership[c] \in OwnershipRequest

(* A step of c leaves the requests of all others as they are. *)
Others(c) == \A d \in Callers : d # c => ownership'[d] = ownership[d]

LEMMA OwnershipAt ==
    ASSUME OwnershipTyped, NEW c \in Callers, NEW value,
           ownership' = [ownership EXCEPT ![c] = value]
    PROVE  /\ ownership'[c] = value
           /\ Others(c)
           /\ ownership' = [d \in Callers |-> ownership'[d]]
BY DEF OwnershipTyped, Others

LEMMA BecomesTyped ==
    ASSUME OwnershipTyped, NEW c \in Callers, NEW value \in OwnershipRequest,
           ownership' = [ownership EXCEPT ![c] = value]
    PROVE  OwnershipTyped' /\ ownership'[c] = value /\ Others(c)
BY OwnershipAt DEF OwnershipTyped, Others, OwnershipActive

LEMMA GoTyped ==
    ASSUME OwnershipTyped, NEW c \in Callers, OwnershipActive(c),
           NEW stage \in OwnershipStage, Go(c, stage)
    PROVE  OwnershipTyped' /\ ownership'[c].stage = stage /\ Others(c)
<1>1. ownership' = [ownership EXCEPT ![c] = [ownership[c] EXCEPT !.stage = stage]]
  BY DEF Go
<1>2. ownership[c] \in OwnershipRequest
  BY DEF OwnershipTyped
<1>3. [ownership[c] EXCEPT !.stage = stage] \in OwnershipRequest
  BY <1>2 DEF OwnershipRequest
<1>4. [ownership[c] EXCEPT !.stage = stage].stage = stage
  BY <1>2 DEF OwnershipRequest
<1>5. QED
  BY <1>1, <1>3, <1>4, BecomesTyped

LEMMA FailTyped ==
    ASSUME OwnershipTyped, NEW c \in Callers, FailOwnership(c)
    PROVE  OwnershipTyped' /\ ownership'[c].stage = "idle" /\ Others(c)
<1>1. /\ ownership'[c] = NoOwnership
      /\ Others(c)
      /\ ownership' = [d \in Callers |-> ownership'[d]]
  BY OwnershipAt DEF FailOwnership
<1>2. ownership'[c].stage = "idle"
  BY <1>1 DEF NoOwnership
<1>3. QED
  BY <1>1, <1>2 DEF OwnershipTyped, Others, OwnershipActive

(* Every step of a caller keeps its request well typed. *)
LEMMA BeginTyped ==
    ASSUME OwnershipTyped, NEW c \in Callers,
           NEW verify \in BOOLEAN, NEW site \in Sites,
           NEW google \in AccountIds \cup {None}, NEW bing \in AccountIds \cup {None},
           BeginOwnership(c, verify, site, google, bing)
    PROVE  OwnershipTyped' /\ ownership'[c].stage = "material" /\ Others(c)
<1> DEFINE request == [stage |-> "material", verify |-> verify, site |-> site,
                       google |-> google, bing |-> bing, known |-> FALSE, verified |-> FALSE,
                       googleStatus |-> Unselected, bingStatus |-> Unselected]
<1>1. ownership' = [ownership EXCEPT ![c] = request]
  BY DEF BeginOwnership
<1>2. request \in OwnershipRequest /\ request.stage = "material"
  BY DEF OwnershipRequest, OwnershipStage, OwnershipStatus, Unselected
<1>3. QED
  BY <1>1, <1>2, BecomesTyped

LEMMA ReadMaterialTyped ==
    ASSUME OwnershipTyped, NEW c \in Callers, ReadMaterial(c)
    PROVE  /\ OwnershipTyped' /\ Others(c)
           /\ ownership'[c].stage \notin {"txtCreate", "cnameCreate"}
<1> DEFINE call == ownership[c]
           listed == call.bing # None /\ <<call.bing, call.site>> \in bingSites
           verified == <<call.bing, call.site>> \in bingVerified
<1>1. call \in OwnershipRequest /\ OwnershipActive(c)
  BY DEF ReadMaterial, At, OwnershipTyped, OwnershipActive
<1>2. AfterMaterial(call) \in {"googleStatus", "txtList", "cnameList"}
  BY DEF AfterMaterial
<1>3. CASE listed \/ call.bing = None
  <2>0. ownership' = [ownership EXCEPT ![c].known = listed,
                                       ![c].verified = listed /\ verified,
                                       ![c].stage = AfterMaterial(call)]
    BY <1>3 DEF ReadMaterial
  <2>1. PICK k \in BOOLEAN, v \in BOOLEAN :
           ownership' = [ownership EXCEPT ![c].known = k, ![c].verified = v,
                                          ![c].stage = AfterMaterial(call)]
    BY <2>0, Zenon
  <2> DEFINE new == [call EXCEPT !.known = k, !.verified = v, !.stage = AfterMaterial(call)]
  <2>2. new \in OwnershipRequest /\ new.stage = AfterMaterial(call)
    BY <1>1, <1>2 DEF OwnershipRequest, OwnershipStage
  <2>3. ownership' = [ownership EXCEPT ![c] = new]
    BY <1>1, <2>1 DEF OwnershipTyped, OwnershipRequest
  <2>4. QED
    BY <1>2, <2>2, <2>3, BecomesTyped
<1>4. CASE ~(listed \/ call.bing = None)
  <2>1. Go(c, "bingAdd") \/ FailOwnership(c) \/ Go(c, "googleStatus")
    BY <1>4 DEF ReadMaterial
  <2>2. "bingAdd" \in OwnershipStage /\ "googleStatus" \in OwnershipStage
    BY DEF OwnershipStage
  <2>3. QED
    BY <1>1, <2>1, <2>2, GoTyped, FailTyped
<1>5. QED
  BY <1>3, <1>4

LEMMA StatusTyped ==
    ASSUME OwnershipTyped, NEW c \in Callers, GoogleStatus(c) \/ RedeemGoogle(c)
    PROVE  /\ OwnershipTyped' /\ Others(c)
           /\ ownership'[c].stage \notin {"txtCreate", "cnameCreate"}
<1> DEFINE call == ownership[c]
<1>1. call \in OwnershipRequest /\ OwnershipActive(c)
  BY DEF GoogleStatus, RedeemGoogle, At, OwnershipTyped, OwnershipActive
<1>2. ASSUME NEW status \in OwnershipStatus, NEW stage \in {"googleRedeem", "bingStatus"},
             ownership' = [ownership EXCEPT
                ![c] = [call EXCEPT !.googleStatus = status, !.stage = stage]]
      PROVE  /\ OwnershipTyped' /\ Others(c)
             /\ ownership'[c].stage \notin {"txtCreate", "cnameCreate"}
  <2> DEFINE new == [call EXCEPT !.googleStatus = status, !.stage = stage]
  <2>1. new \in OwnershipRequest /\ new.stage = stage
    BY <1>1 DEF OwnershipRequest, OwnershipStage
  <2>2. QED
    BY <1>2, <2>1, BecomesTyped
<1>3. CASE GoogleStatus(c)
  <2>1. CASE Go(c, "bingStatus")
    BY <1>1, <2>1, GoTyped DEF OwnershipStage
  <2>2. ASSUME NEW seen \in BOOLEAN, NEW verified \in BOOLEAN,
               NEW stage \in {"googleRedeem", "bingStatus"},
               ownership' = [ownership EXCEPT ![c].googleStatus.propagated = seen,
                                              ![c].googleStatus.verified = verified,
                                              ![c].stage = stage]
        PROVE  /\ OwnershipTyped' /\ Others(c)
               /\ ownership'[c].stage \notin {"txtCreate", "cnameCreate"}
    <3> DEFINE status == [call.googleStatus EXCEPT !.propagated = seen, !.verified = verified]
    <3>1. status \in OwnershipStatus
      BY <1>1 DEF OwnershipRequest, OwnershipStatus
    <3>2. ownership' = [ownership EXCEPT
             ![c] = [call EXCEPT !.googleStatus = status, !.stage = stage]]
      BY <1>1, <2>2 DEF OwnershipRequest, OwnershipTyped
    <3>3. QED
      BY <1>2, <3>1, <3>2
  <2>3. CASE call.google # None
    <3> DEFINE verified == <<call.google, call.site>> \in googleVerified
    <3>1. PICK seen \in BOOLEAN :
             ownership' = [ownership EXCEPT
                     ![c].googleStatus.propagated = seen,
                     ![c].googleStatus.verified = verified,
                     ![c].stage = IF call.verify /\ seen /\ ~verified
                                    THEN "googleRedeem" ELSE "bingStatus"]
      BY <1>3, <2>3 DEF GoogleStatus, Seen
    <3> DEFINE stage == IF call.verify /\ seen /\ ~verified
                          THEN "googleRedeem" ELSE "bingStatus"
    <3>2. verified \in BOOLEAN /\ stage \in {"googleRedeem", "bingStatus"}
      OBVIOUS
    <3>3. ownership' = [ownership EXCEPT ![c].googleStatus.propagated = seen,
                                         ![c].googleStatus.verified = verified,
                                         ![c].stage = stage]
      BY <3>1
    <3> HIDE DEF stage, verified
    <3>4. QED
      BY <2>2, <3>2, <3>3
  <2>4. QED
    BY <1>3, <2>1, <2>3 DEF GoogleStatus
<1>4. CASE RedeemGoogle(c)
  <2>1. CASE FailOwnership(c)
    BY <2>1, FailTyped
  <2>2. CASE ownership' = [ownership EXCEPT ![c].googleStatus.verified = TRUE,
                                            ![c].stage = "bingStatus"]
    <3> DEFINE status == [call.googleStatus EXCEPT !.verified = TRUE]
    <3>1. status \in OwnershipStatus
      BY <1>1 DEF OwnershipRequest, OwnershipStatus
    <3>2. ownership' = [ownership EXCEPT
             ![c] = [call EXCEPT !.googleStatus = status, !.stage = "bingStatus"]]
      BY <1>1, <2>2 DEF OwnershipRequest, OwnershipTyped
    <3>3. QED
      BY <1>2, <3>1, <3>2
  <2>3. QED
    BY <1>4, <2>1, <2>2 DEF RedeemGoogle
<1>5. QED
  BY <1>3, <1>4

(* The end of a request: whatever becomes of it, it creates nothing more. *)
LEMMA ReceiptTyped ==
    ASSUME OwnershipTyped, NEW c \in Callers, NEW status, Receipt(c, status)
    PROVE  OwnershipTyped' /\ ownership'[c].stage = "ended" /\ Others(c)
<1> DEFINE value == [stage |-> "ended", site |-> ownership[c].site,
                     google |-> ownership[c].google, bing |-> ownership[c].bing,
                     googleStatus |-> ownership[c].googleStatus, bingStatus |-> status]
<1>1. ownership' = [ownership EXCEPT ![c] = value] /\ value.stage = "ended"
  BY DEF Receipt
<1>2. /\ ownership'[c] = value
      /\ Others(c)
      /\ ownership' = [d \in Callers |-> ownership'[d]]
  BY <1>1, OwnershipAt
<1> HIDE DEF value
<1>3. QED
  BY <1>1, <1>2 DEF OwnershipTyped, Others, OwnershipActive

(* The steps of a request that neither list nor create a record. *)
Resting(c) ==
    /\ OwnershipTyped' /\ Others(c)
    /\ ownership'[c].stage \notin {"txtCreate", "cnameCreate"}

LEMMA RestingSteps ==
    ASSUME OwnershipTyped, NEW c \in Callers,
           \/ ReadMaterial(c) \/ AddVerificationSite(c)
           \/ GoogleStatus(c) \/ RedeemGoogle(c)
           \/ BingStatus(c) \/ RedeemBing(c)
           \/ OwnershipReadFails(c)
    PROVE  Resting(c)
<1>1. "reread" \in OwnershipStage /\ "bingRedeem" \in OwnershipStage
  BY DEF OwnershipStage
<1>2. CASE AddVerificationSite(c)
  <2>1. OwnershipActive(c) /\ (Go(c, "reread") \/ FailOwnership(c))
    BY <1>2 DEF AddVerificationSite, At, OwnershipActive
  <2>2. QED
    BY <1>1, <2>1, GoTyped, FailTyped DEF Resting
<1>3. CASE BingStatus(c)
  <2>1. OwnershipActive(c)
    BY <1>3 DEF BingStatus, At, OwnershipActive
  <2>2. Go(c, "bingRedeem") \/ \E status : Receipt(c, status)
    BY <1>3 DEF BingStatus
  <2>3. QED
    BY <1>1, <2>1, <2>2, GoTyped, ReceiptTyped DEF Resting
<1>4. CASE RedeemBing(c)
  <2>1. FailOwnership(c) \/ \E status : Receipt(c, status)
    BY <1>4 DEF RedeemBing
  <2>2. QED
    BY <2>1, FailTyped, ReceiptTyped DEF Resting
<1>5. CASE OwnershipReadFails(c)
  BY <1>5, FailTyped DEF OwnershipReadFails, Resting
<1>6. QED
  BY <1>2, <1>3, <1>4, <1>5, ReadMaterialTyped, StatusTyped DEF Resting

(* The inductive invariant: until two creations of a record overlap, it is *)
(* in the zone, or on its way there after its caller has given up, or      *)
(* about to be created by one request, and only one of these.              *)
RecordInv ==
    /\ records \in [Record -> Nat]
    /\ \A r \in Record \ recordsRaced :
          /\ records[r] <= 1
          /\ r \in lateRecords => records[r] = 0
          /\ \A c \in Callers : Creating(c, r) => records[r] = 0 /\ r \notin lateRecords
          /\ \A c, d \in Callers : Creating(c, r) /\ Creating(d, r) => c = d

(* A request that rests, or is another's, creates no new record. *)
LEMMA SameCreating ==
    ASSUME NEW c \in Callers, NEW d \in Callers, NEW r,
           d # c => ownership'[d] = ownership[d],
           d = c => ownership'[c].stage \notin {"txtCreate", "cnameCreate"},
           Creating(d, r)'
    PROVE  d # c /\ Creating(d, r)
<1>1. d # c
  BY DEF Creating, At
<1>2. QED
  BY <1>1 DEF Creating, At, GoogleRecord, BingRecord

LEMMA RestingKeepsRecords ==
    ASSUME RecordInv, NEW c \in Callers, Resting(c),
           UNCHANGED <<records, lateRecords, recordsRaced>>
    PROVE  RecordInv'
<1>1. \A d \in Callers, r \in Record : Creating(d, r)' => Creating(d, r)
  BY SameCreating DEF Resting, Others
<1>2. Record' = Record
  BY DEF Record
<1>3. QED
  BY <1>1, <1>2 DEF RecordInv

(* The listing of a zone. *)
LEMMA ListingKeepsRecords ==
    ASSUME OwnershipTyped, RecordInv, NEW c \in Callers, OwnershipActive(c),
           EnsureTxt(c) \/ EnsureCname(c)
    PROVE  OwnershipTyped' /\ RecordInv'
<1>1. ownership[c] \in OwnershipRequest
  BY DEF OwnershipTyped
<1>2. AfterTxt(ownership[c]) \in {"googleStatus", "cnameList"}
  BY DEF AfterTxt
<1>3. CASE FailOwnership(c) /\ UNCHANGED dnsVars
  BY <1>3, FailTyped, RestingKeepsRecords DEF Resting, dnsVars
<1>4. ASSUME NEW record, NEW create \in {"txtCreate", "cnameCreate"},
             NEW after \in {"googleStatus", "cnameList"},
             create = "txtCreate" => record = GoogleRecord(ownership[c]),
             create = "cnameCreate" => record = BingRecord(ownership[c]),
             ListRecords(c, record, create, after)
      PROVE  OwnershipTyped' /\ RecordInv'
  <2>1. create \in OwnershipStage /\ after \in OwnershipStage
    BY DEF OwnershipStage
  <2>2. UNCHANGED <<records, lateRecords>>
    BY <1>4 DEF ListRecords
  <2>3. CASE records[record] > 0
    <3>1. Go(c, after) /\ recordsRaced' = recordsRaced
      BY <1>4, <2>3 DEF ListRecords
    <3>2. QED
      BY <2>1, <2>2, <3>1, GoTyped, RestingKeepsRecords DEF Resting
  <2>4. CASE ~(records[record] > 0)
    <3>1. Go(c, create)
      BY <1>4, <2>4 DEF ListRecords
    <3>2. OwnershipTyped' /\ Others(c) /\ ownership'[c].stage = create
      BY <2>1, <3>1, GoTyped
    <3>3. ownership'[c] = [ownership[c] EXCEPT !.stage = create]
      BY <3>1 DEF Go, OwnershipTyped
    <3>4. /\ GoogleRecord(ownership'[c]) = GoogleRecord(ownership[c])
          /\ BingRecord(ownership'[c]) = BingRecord(ownership[c])
      BY <1>1, <3>3 DEF GoogleRecord, BingRecord, OwnershipRequest
    <3>5. \A r : Creating(c, r)' => r = record
      BY <1>4, <3>2, <3>4 DEF Creating, At
    <3>6. \A r : \A d \in Callers : d # c => (Creating(d, r)' <=> Creating(d, r))
      BY <3>2 DEF Creating, At, Others, GoogleRecord, BingRecord
    <3>7. recordsRaced \subseteq recordsRaced'
      BY <1>4 DEF ListRecords
    <3>8. ASSUME record \in Record, record \notin recordsRaced'
          PROVE  /\ records[record] = 0 /\ record \notin lateRecords
                 /\ \A o \in Callers : ~Creating(o, record)
      BY <1>4, <2>4, <3>8 DEF ListRecords, RecordInv
    <3>9. QED
      BY <2>2, <3>2, <3>5, <3>6, <3>7, <3>8 DEF RecordInv
  <2>5. QED
    BY <2>3, <2>4
<1>5. CASE EnsureTxt(c)
  BY <1>2, <1>4, <1>5 DEF EnsureTxt
<1>6. CASE EnsureCname(c)
  BY <1>3, <1>4, <1>6 DEF EnsureCname
<1>7. QED
  BY <1>5, <1>6

(* The creation of a record, and its late creation. *)
LEMMA CreationKeepsRecords ==
    ASSUME OwnershipTyped, RecordInv, NEW c \in Callers, NEW record, Creating(c, record),
           Resting(c), recordsRaced' = recordsRaced,
           \/ AddRecord(record) /\ lateRecords' = lateRecords
           \/ records' = records /\ lateRecords' \in {lateRecords, lateRecords \cup {record}}
    PROVE  RecordInv'
<1>1. \A d \in Callers, r \in Record : Creating(d, r)' => d # c /\ Creating(d, r)
  BY SameCreating DEF Resting, Others
<1>2. ASSUME record \in Record \ recordsRaced
      PROVE  /\ records[record] = 0 /\ record \notin lateRecords
             /\ \A d \in Callers : ~Creating(d, record)'
  BY <1>1, <1>2 DEF RecordInv
<1>3. /\ records' \in [Record -> Nat]
      /\ \A r \in Record : r # record => records'[r] = records[r]
      /\ record \in Record => records'[record] \in {records[record], records[record] + 1}
      /\ lateRecords' = lateRecords \/ records' = records
  BY DEF RecordInv, AddRecord
<1>4. ASSUME NEW r \in Record \ recordsRaced'
      PROVE  /\ records'[r] <= 1
             /\ r \in lateRecords' => records'[r] = 0
             /\ \A d \in Callers : Creating(d, r)' => records'[r] = 0 /\ r \notin lateRecords'
             /\ \A d, e \in Callers : Creating(d, r)' /\ Creating(e, r)' => d = e
  <2>1. CASE r = record
    BY <1>2, <1>3, <1>4, <2>1
  <2>2. CASE r # record
    BY <1>1, <1>3, <1>4, <2>2 DEF RecordInv
  <2>3. QED
    BY <2>1, <2>2
<1>5. QED
  BY <1>3, <1>4 DEF RecordInv

LEMMA CreateSteps ==
    ASSUME OwnershipTyped, RecordInv, NEW c \in Callers, CreateTxt(c) \/ CreateCname(c)
    PROVE  OwnershipTyped' /\ RecordInv'
<1> DEFINE call == ownership[c]
<1>1. call \in OwnershipRequest
  BY DEF CreateTxt, CreateCname, At, OwnershipTyped, OwnershipActive
<1>2. CASE FailOwnership(c)
  <2>1. Resting(c)
    BY <1>2, FailTyped DEF Resting
  <2>2. PICK record : /\ Creating(c, record)
                      /\ recordsRaced' = recordsRaced
                      /\ \/ AddRecord(record) /\ lateRecords' = lateRecords
                         \/ /\ records' = records
                            /\ lateRecords' \in {lateRecords, lateRecords \cup {record}}
    BY DEF CreateTxt, CreateCname, Creating
  <2>3. QED
    BY <2>1, <2>2, CreationKeepsRecords DEF Resting
<1>3. CASE CreateTxt(c) /\ ~FailOwnership(c)
  <2> DEFINE new == [call EXCEPT !.googleStatus = [call.googleStatus EXCEPT !.created = TRUE],
                                 !.stage = AfterTxt(call)]
  <2>1. AfterTxt(call) \in {"googleStatus", "cnameList"}
    BY DEF AfterTxt
  <2>2. new \in OwnershipRequest /\ new.stage = AfterTxt(call)
    BY <1>1, <2>1 DEF OwnershipRequest, OwnershipStage, OwnershipStatus
  <2>3. ownership' = [ownership EXCEPT ![c] = new]
    BY <1>1, <1>3 DEF CreateTxt, OwnershipTyped, OwnershipRequest
  <2>4. Resting(c)
    BY <2>1, <2>2, <2>3, BecomesTyped DEF Resting
  <2>5. /\ Creating(c, GoogleRecord(call)) /\ AddRecord(GoogleRecord(call))
        /\ lateRecords' = lateRecords /\ recordsRaced' = recordsRaced
    BY <1>3 DEF CreateTxt, Creating
  <2>6. QED
    BY <2>4, <2>5, CreationKeepsRecords DEF Resting
<1>4. CASE CreateCname(c) /\ ~FailOwnership(c)
  <2> DEFINE new == [call EXCEPT !.bingStatus = [call.bingStatus EXCEPT !.created = TRUE],
                                 !.stage = "googleStatus"]
  <2>1. new \in OwnershipRequest /\ new.stage = "googleStatus"
    BY <1>1 DEF OwnershipRequest, OwnershipStage, OwnershipStatus
  <2>2. ownership' = [ownership EXCEPT ![c] = new]
    BY <1>1, <1>4 DEF CreateCname, OwnershipTyped, OwnershipRequest
  <2>3. Resting(c)
    BY <2>1, <2>2, BecomesTyped DEF Resting
  <2>4. /\ Creating(c, BingRecord(call)) /\ AddRecord(BingRecord(call))
        /\ lateRecords' = lateRecords /\ recordsRaced' = recordsRaced
    BY <1>4 DEF CreateCname, Creating
  <2>5. QED
    BY <2>3, <2>4, CreationKeepsRecords DEF Resting
<1>5. QED
  BY <1>2, <1>3, <1>4

LEMMA ArrivalKeepsRecords ==
    ASSUME RecordInv, NEW record \in Record, RecordArrives(record)
    PROVE  RecordInv'
<1>1. /\ record \in lateRecords /\ lateRecords' = lateRecords \ {record}
      /\ recordsRaced' = recordsRaced
      /\ \A r : \A d \in Callers : Creating(d, r)' <=> Creating(d, r)
  BY DEF RecordArrives, Creating, At, GoogleRecord, BingRecord
<1>2. /\ records' \in [Record -> Nat]
      /\ \A r \in Record : r # record => records'[r] = records[r]
      /\ records'[record] \in {records[record], records[record] + 1}
  BY DEF RecordInv, AddRecord, RecordArrives
<1>3. QED
  BY <1>1, <1>2 DEF RecordInv

(* The initial states and every step. *)
LEMMA InitRecords == Init => OwnershipTyped /\ RecordInv
<1>1. Init => /\ ownership = [c \in Callers |-> NoOwnership]
              /\ lateRecords = {} /\ recordsRaced = {}
              /\ records \in [Record -> {0, 1}]
  BY DEF Init, OwnershipInit
<1>2. NoOwnership.stage = "idle"
  BY DEF NoOwnership
<1>3. QED
  BY <1>1, <1>2 DEF OwnershipTyped, OwnershipActive, RecordInv, Creating, At

LEMMA NextRecords ==
    ASSUME OwnershipTyped, RecordInv, [Next]_vars
    PROVE  OwnershipTyped' /\ RecordInv'
<1>1. CASE UNCHANGED <<ownership, records, lateRecords, recordsRaced>>
  BY <1>1 DEF OwnershipTyped, OwnershipActive, RecordInv, Creating, At, GoogleRecord,
              BingRecord, Record
<1>2. ASSUME NEW c \in Callers, StartOwnership(c)
      PROVE  OwnershipTyped' /\ RecordInv'
  <2>1. PICK verify \in BOOLEAN, site \in Sites, google \in AccountIds \cup {None},
             bing \in AccountIds \cup {None} : BeginOwnership(c, verify, site, google, bing)
    BY <1>2 DEF StartOwnership
  <2>2. OwnershipTyped' /\ ownership'[c].stage = "material" /\ Others(c)
    BY <2>1, BeginTyped
  <2>3. UNCHANGED dnsVars
    BY <2>1 DEF BeginOwnership
  <2>4. QED
    BY <2>2, <2>3, RestingKeepsRecords DEF Resting, dnsVars
<1>3. ASSUME NEW c \in Callers, OwnershipStep(c)
      PROVE  OwnershipTyped' /\ RecordInv'
  <2>1. CASE EnsureTxt(c) \/ EnsureCname(c)
    BY <2>1, ListingKeepsRecords DEF EnsureTxt, EnsureCname, At, OwnershipActive
  <2>2. CASE CreateTxt(c) \/ CreateCname(c)
    BY <2>2, CreateSteps
  <2>3. CASE \/ ReadMaterial(c) \/ AddVerificationSite(c)
             \/ GoogleStatus(c) \/ RedeemGoogle(c)
             \/ BingStatus(c) \/ RedeemBing(c) \/ OwnershipReadFails(c)
    <3>1. UNCHANGED dnsVars
      BY <2>3 DEF ReadMaterial, AddVerificationSite, GoogleStatus, RedeemGoogle, BingStatus,
                  RedeemBing, OwnershipReadFails
    <3>2. QED
      BY <2>3, <3>1, RestingSteps, RestingKeepsRecords DEF Resting, dnsVars
  <2>4. QED
    BY <1>3, <2>1, <2>2, <2>3 DEF OwnershipStep
<1>4. ASSUME NEW c \in Callers, Dies(c)
      PROVE  OwnershipTyped' /\ RecordInv'
  <2>1. UNCHANGED <<records, lateRecords, recordsRaced>>
    BY <1>4 DEF Dies, dnsVars
  <2>2. CASE OwnershipActive(c)
    BY <1>4, <2>1, <2>2, FailTyped, RestingKeepsRecords DEF Dies, FailOwnership, Resting
  <2>3. CASE ~OwnershipActive(c)
    BY <1>1, <1>4, <2>1, <2>3 DEF Dies, OwnershipTyped
  <2>4. QED
    BY <2>2, <2>3
<1>5. CASE ProviderStep
  <2>1. ASSUME NEW record \in Record, RecordArrives(record)
        PROVE  OwnershipTyped' /\ RecordInv'
    BY <2>1, ArrivalKeepsRecords DEF RecordArrives, OwnershipTyped, OwnershipActive
  <2>2. QED
    BY <1>1, <1>5, <2>1 DEF ProviderStep, Publish, ownershipVars, dnsVars
<1>6. QED
  BY <1>1, <1>2, <1>3, <1>4, <1>5
  DEF Next, vars, ownershipVars, dnsVars, StartEdit, StartOnboarding, EditStep, OnboardingStep,
      Restart

(* Whatever the callers, the resolvers and the lost answers do, a proof is *)
(* in a zone at most once, unless two creations of it overlapped.          *)
THEOREM RecordsStayUnique == Spec => []RecordsUnique
<1>1. RecordInv => RecordsUnique
  BY DEF RecordInv, RecordsUnique
<1>2. QED
  BY <1>1, InitRecords, NextRecords, PTL DEF Spec

----------------------------------------------------------------------------
(* What a receipt says. *)

OwnershipReport ==
    [stage : {"ended"}, site : Sites, google : AccountIds \cup {None},
     bing : AccountIds \cup {None}, googleStatus : OwnershipStatus,
     bingStatus : OwnershipStatus]

(* The providers a request is for, and the steps it takes for each. *)
SelectedTrue(o) ==
    /\ ~(o.google = None /\ o.bing = None)
    /\ o.google # None => ProviderOf[o.google] = "google"
    /\ o.bing # None => ProviderOf[o.bing] = "bing"
    /\ o.stage \in {"txtList", "txtCreate"} => o.google # None
    /\ o.stage \in {"cnameList", "cnameCreate"} => o.bing # None

(* What a request has noted down holds at Google, at Bing and in the zone. *)
ToldIn(o, google, bing, zone) ==
    /\ o.googleStatus.verified => <<o.google, o.site>> \in google
    /\ o.googleStatus.created => GoogleRecord(o) \in Record /\ zone[GoogleRecord(o)] > 0
    /\ o.bingStatus.verified => <<o.bing, o.site>> \in bing
    /\ o.bingStatus.created => BingRecord(o) \in Record /\ zone[BingRecord(o)] > 0
    /\ o.stage # "ended" => (o.verified => <<o.bing, o.site>> \in bing)

ToldTrue(o, google, bing, zone) ==
    /\ o \in OwnershipRequest \cup OwnershipReport
    /\ SelectedTrue(o)
    /\ ToldIn(o, google, bing, zone)

TruthInv ==
    \A c \in Callers : ownership[c].stage # "idle" =>
        ToldTrue(ownership[c], googleVerified, bingVerified, records)

(* Nothing is taken back. *)
VerifiedGrow ==
    /\ googleVerified \subseteq googleVerified' /\ bingVerified \subseteq bingVerified'
    /\ \A r \in Record : records[r] > 0 => records'[r] > 0

LEMMA ToldStays ==
    ASSUME VerifiedGrow, NEW o, ToldTrue(o, googleVerified, bingVerified, records)
    PROVE  ToldTrue(o, googleVerified', bingVerified', records')
BY DEF VerifiedGrow, ToldTrue, ToldIn

LEMMA TellsTrue ==
    ASSUME OwnershipTyped, TruthInv, VerifiedGrow, NEW c \in Callers, NEW value,
           ownership' = [ownership EXCEPT ![c] = value],
           value.stage # "idle" => ToldTrue(value, googleVerified', bingVerified', records')
    PROVE  TruthInv'
<1>1. ownership'[c] = value /\ \A d \in Callers : d # c => ownership'[d] = ownership[d]
  BY OwnershipAt DEF Others
<1>2. ASSUME NEW d \in Callers, ownership'[d].stage # "idle"
      PROVE  ToldTrue(ownership'[d], googleVerified', bingVerified', records')
  <2>1. CASE d = c
    BY <1>1, <1>2, <2>1
  <2>2. CASE d # c
    BY <1>1, <1>2, <2>2, ToldStays DEF TruthInv
  <2>3. QED
    BY <2>1, <2>2
<1>3. QED
  BY <1>2 DEF TruthInv

LEMMA SilenceIsTrue ==
    ASSUME OwnershipTyped, TruthInv, VerifiedGrow, NEW c \in Callers, FailOwnership(c)
    PROVE  TruthInv'
BY TellsTrue DEF FailOwnership, NoOwnership

(* A request that goes on with new notes, and one that ends with them. *)
GoogleNoteTrue(o, google) ==
    /\ google.verified => <<o.google, o.site>> \in googleVerified'
    /\ google.created => GoogleRecord(o) \in Record /\ records'[GoogleRecord(o)] > 0

BingNoteTrue(o, bing) ==
    /\ bing.verified => <<o.bing, o.site>> \in bingVerified'
    /\ bing.created => BingRecord(o) \in Record /\ records'[BingRecord(o)] > 0

LEMMA RequestAt ==
    ASSUME OwnershipTyped, TruthInv, VerifiedGrow, NEW c \in Callers, OwnershipActive(c)
    PROVE  /\ ownership[c] \in OwnershipRequest /\ SelectedTrue(ownership[c])
           /\ GoogleNoteTrue(ownership[c], ownership[c].googleStatus)
           /\ BingNoteTrue(ownership[c], ownership[c].bingStatus)
           /\ ownership[c].verified =>
                 <<ownership[c].bing, ownership[c].site>> \in bingVerified
<1>1. /\ ownership[c] \in OwnershipRequest /\ ownership[c].stage # "ended"
      /\ ToldTrue(ownership[c], googleVerified, bingVerified, records)
  BY DEF OwnershipTyped, OwnershipActive, TruthInv
<1>2. ToldTrue(ownership[c], googleVerified', bingVerified', records')
  BY <1>1, ToldStays
<1>3. QED
  BY <1>1, <1>2 DEF ToldTrue, ToldIn, GoogleNoteTrue, BingNoteTrue

LEMMA NotesTrue ==
    ASSUME OwnershipTyped, TruthInv, VerifiedGrow, NEW c \in Callers, OwnershipActive(c),
           NEW value \in OwnershipRequest, ownership' = [ownership EXCEPT ![c] = value],
           /\ value.site = ownership[c].site /\ value.google = ownership[c].google
           /\ value.bing = ownership[c].bing,
           value.stage \in {"txtList", "txtCreate"} => ownership[c].google # None,
           value.stage \in {"cnameList", "cnameCreate"} => ownership[c].bing # None,
           GoogleNoteTrue(ownership[c], value.googleStatus),
           BingNoteTrue(ownership[c], value.bingStatus),
           value.verified => <<ownership[c].bing, ownership[c].site>> \in bingVerified'
    PROVE  TruthInv'
<1> DEFINE o == ownership[c]
<1>1. SelectedTrue(o)
  BY RequestAt
<1>2. GoogleRecord(value) = GoogleRecord(o) /\ BingRecord(value) = BingRecord(o)
  BY DEF GoogleRecord, BingRecord
<1>3. SelectedTrue(value)
  BY <1>1 DEF SelectedTrue
<1>4. ToldIn(value, googleVerified', bingVerified', records')
  BY <1>2 DEF ToldIn, GoogleNoteTrue, BingNoteTrue
<1>5. ToldTrue(value, googleVerified', bingVerified', records')
  BY <1>3, <1>4 DEF ToldTrue
<1>6. QED
  BY <1>5, TellsTrue

LEMMA ReceiptTrue ==
    ASSUME OwnershipTyped, TruthInv, VerifiedGrow, NEW c \in Callers, OwnershipActive(c),
           NEW status \in OwnershipStatus, Receipt(c, status), BingNoteTrue(ownership[c], status)
    PROVE  TruthInv'
<1> DEFINE o == ownership[c]
           value == [stage |-> "ended", site |-> o.site, google |-> o.google, bing |-> o.bing,
                     googleStatus |-> o.googleStatus, bingStatus |-> status]
<1>1. ownership' = [ownership EXCEPT ![c] = value]
  BY DEF Receipt
<1>2. o \in OwnershipRequest /\ SelectedTrue(o) /\ GoogleNoteTrue(o, o.googleStatus)
  BY RequestAt
<1>3. value \in OwnershipReport
  BY <1>2 DEF OwnershipReport, OwnershipRequest
<1>4. /\ value.stage = "ended" /\ value.site = o.site /\ value.google = o.google
      /\ value.bing = o.bing /\ value.googleStatus = o.googleStatus
      /\ value.bingStatus = status
      /\ GoogleRecord(value) = GoogleRecord(o) /\ BingRecord(value) = BingRecord(o)
  BY DEF GoogleRecord, BingRecord
<1> HIDE DEF value
<1>5. SelectedTrue(value)
  BY <1>2, <1>4 DEF SelectedTrue
<1>6. ToldIn(value, googleVerified', bingVerified', records')
  BY <1>2, <1>4 DEF ToldIn, GoogleNoteTrue, BingNoteTrue
<1>7. ToldTrue(value, googleVerified', bingVerified', records')
  BY <1>3, <1>5, <1>6 DEF ToldTrue
<1>8. QED
  BY <1>1, <1>7, TellsTrue

LEMMA GoTrue ==
    ASSUME OwnershipTyped, TruthInv, VerifiedGrow, NEW c \in Callers, OwnershipActive(c),
           NEW stage \in OwnershipStage, Go(c, stage),
           stage \in {"txtList", "txtCreate"} => ownership[c].google # None,
           stage \in {"cnameList", "cnameCreate"} => ownership[c].bing # None
    PROVE  TruthInv'
<1> DEFINE o == ownership[c]
           value == [o EXCEPT !.stage = stage]
<1>1. /\ o \in OwnershipRequest
      /\ GoogleNoteTrue(o, o.googleStatus) /\ BingNoteTrue(o, o.bingStatus)
      /\ o.verified => <<o.bing, o.site>> \in bingVerified'
  BY RequestAt DEF VerifiedGrow
<1>2. ownership' = [ownership EXCEPT ![c] = value]
  BY DEF Go
<1>3. /\ value \in OwnershipRequest /\ value.stage = stage /\ value.site = o.site
      /\ value.google = o.google /\ value.bing = o.bing /\ value.verified = o.verified
      /\ value.googleStatus = o.googleStatus /\ value.bingStatus = o.bingStatus
  BY <1>1 DEF OwnershipRequest
<1> HIDE DEF value
<1>4. QED
  BY <1>1, <1>2, <1>3, NotesTrue

(* The steps of a request. *)
LEMMA QuietVerifiedGrow ==
    ASSUME googleVerified \subseteq googleVerified', bingVerified \subseteq bingVerified',
           UNCHANGED records
    PROVE  VerifiedGrow
BY DEF VerifiedGrow

LEMMA BeginTrue ==
    ASSUME OwnershipTyped, TruthInv, NEW c \in Callers,
           NEW verify \in BOOLEAN, NEW site \in Sites,
           NEW google \in AccountIds \cup {None}, NEW bing \in AccountIds \cup {None},
           BeginOwnership(c, verify, site, google, bing), UNCHANGED bingVerified
    PROVE  TruthInv'
<1> DEFINE value == [stage |-> "material", verify |-> verify, site |-> site,
                     google |-> google, bing |-> bing, known |-> FALSE, verified |-> FALSE,
                     googleStatus |-> Unselected, bingStatus |-> Unselected]
<1>1. /\ ownership' = [ownership EXCEPT ![c] = value]
      /\ ~(google = None /\ bing = None)
      /\ google # None => ProviderOf[google] = "google"
      /\ bing # None => ProviderOf[bing] = "bing"
      /\ UNCHANGED <<records, googleVerified>>
  BY DEF BeginOwnership, dnsVars
<1>2. value \in OwnershipRequest
  BY DEF OwnershipRequest, OwnershipStage, OwnershipStatus, Unselected
<1>3. /\ value.stage = "material" /\ value.google = google /\ value.bing = bing
      /\ ~value.verified /\ ~value.googleStatus.verified /\ ~value.googleStatus.created
      /\ ~value.bingStatus.verified /\ ~value.bingStatus.created
  BY DEF Unselected
<1> HIDE DEF value
<1>4. ToldTrue(value, googleVerified', bingVerified', records')
  BY <1>1, <1>2, <1>3 DEF ToldTrue, SelectedTrue, ToldIn
<1>5. QED
  BY <1>1, <1>4, QuietVerifiedGrow, TellsTrue

LEMMA ReadMaterialTrue ==
    ASSUME OwnershipTyped, TruthInv, NEW c \in Callers, ReadMaterial(c), UNCHANGED bingVerified
    PROVE  TruthInv'
<1> DEFINE o == ownership[c]
           listed == o.bing # None /\ <<o.bing, o.site>> \in bingSites
           verified == <<o.bing, o.site>> \in bingVerified
<1>1. VerifiedGrow /\ OwnershipActive(c)
  BY QuietVerifiedGrow DEF ReadMaterial, dnsVars, At, OwnershipActive
<1>2. /\ o \in OwnershipRequest /\ SelectedTrue(o)
      /\ GoogleNoteTrue(o, o.googleStatus) /\ BingNoteTrue(o, o.bingStatus)
  BY <1>1, RequestAt
<1>3. /\ AfterMaterial(o) \in {"googleStatus", "txtList", "cnameList"}
      /\ AfterMaterial(o) = "txtList" => o.google # None
      /\ AfterMaterial(o) = "cnameList" => o.bing # None
  BY <1>2 DEF AfterMaterial, SelectedTrue
<1>4. CASE listed \/ o.bing = None
  <2>1. ownership' = [ownership EXCEPT ![c].known = listed,
                                       ![c].verified = listed /\ verified,
                                       ![c].stage = AfterMaterial(o)]
    BY <1>4 DEF ReadMaterial
  <2>2. PICK k \in BOOLEAN, v \in BOOLEAN :
           /\ v => verified
           /\ ownership' = [ownership EXCEPT ![c].known = k, ![c].verified = v,
                                             ![c].stage = AfterMaterial(o)]
    BY <2>1, Zenon
  <2> DEFINE value == [o EXCEPT !.known = k, !.verified = v, !.stage = AfterMaterial(o)]
  <2>3. ownership' = [ownership EXCEPT ![c] = value]
    BY <1>2, <2>2 DEF OwnershipTyped, OwnershipRequest
  <2>4. /\ value \in OwnershipRequest /\ value.stage = AfterMaterial(o) /\ value.site = o.site
        /\ value.google = o.google /\ value.bing = o.bing /\ value.verified = v
        /\ value.googleStatus = o.googleStatus /\ value.bingStatus = o.bingStatus
    BY <1>2, <1>3 DEF OwnershipRequest, OwnershipStage
  <2>5. v => <<o.bing, o.site>> \in bingVerified'
    BY <2>2
  <2> HIDE DEF value
  <2>6. QED
    BY <1>1, <1>2, <1>3, <2>3, <2>4, <2>5, NotesTrue
<1>5. CASE ~(listed \/ o.bing = None)
  <2>1. Go(c, "bingAdd") \/ FailOwnership(c) \/ Go(c, "googleStatus")
    BY <1>5 DEF ReadMaterial
  <2>2. "bingAdd" \in OwnershipStage /\ "googleStatus" \in OwnershipStage
    BY DEF OwnershipStage
  <2>3. QED
    BY <1>1, <2>1, <2>2, GoTrue, SilenceIsTrue
<1>6. QED
  BY <1>4, <1>5

LEMMA ListingTrue ==
    ASSUME OwnershipTyped, TruthInv, NEW c \in Callers, EnsureTxt(c) \/ EnsureCname(c),
           UNCHANGED bingVerified
    PROVE  TruthInv'
<1> DEFINE o == ownership[c]
<1>1. VerifiedGrow /\ OwnershipActive(c)
  BY QuietVerifiedGrow DEF EnsureTxt, EnsureCname, ListRecords, dnsVars, At, OwnershipActive
<1>2. SelectedTrue(o)
  BY <1>1, RequestAt
<1>3. \/ FailOwnership(c)
      \/ \E stage \in OwnershipStage :
            /\ Go(c, stage)
            /\ stage \in {"txtList", "txtCreate"} => o.google # None
            /\ stage \in {"cnameList", "cnameCreate"} => o.bing # None
  <2>1. CASE EnsureTxt(c)
    <3>1. o.google # None /\ (Go(c, AfterTxt(o)) \/ Go(c, "txtCreate"))
      BY <1>2, <2>1 DEF EnsureTxt, ListRecords, At, SelectedTrue
    <3>2. QED
      BY <3>1 DEF AfterTxt, OwnershipStage
  <2>2. CASE EnsureCname(c)
    <3>1. o.bing # None
          /\ (FailOwnership(c) \/ Go(c, "googleStatus") \/ Go(c, "cnameCreate"))
      BY <1>2, <2>2 DEF EnsureCname, ListRecords, At, SelectedTrue
    <3>2. QED
      BY <3>1 DEF OwnershipStage
  <2>3. QED
    BY <2>1, <2>2
<1>4. QED
  BY <1>1, <1>3, GoTrue, SilenceIsTrue

LEMMA AddRecordGrows ==
    ASSUME records \in [Record -> Nat], NEW record, AddRecord(record)
    PROVE  /\ \A r \in Record : records[r] > 0 => records'[r] > 0
           /\ record \in Record /\ ZoneAccepts(record) => records'[record] > 0
BY DEF AddRecord

LEMMA CreationTrue ==
    ASSUME OwnershipTyped, RecordInv, TruthInv, NEW c \in Callers,
           CreateTxt(c) \/ CreateCname(c), UNCHANGED bingVerified
    PROVE  TruthInv'
<1> DEFINE o == ownership[c]
           txt == GoogleRecord(o)
           cname == BingRecord(o)
<1>1. /\ OwnershipActive(c) /\ UNCHANGED googleVerified
      /\ UNCHANGED records \/ AddRecord(txt) \/ AddRecord(cname)
  BY DEF CreateTxt, CreateCname, At, OwnershipActive
<1>2. VerifiedGrow
  BY <1>1, AddRecordGrows DEF VerifiedGrow, RecordInv
<1>3. /\ o \in OwnershipRequest /\ SelectedTrue(o)
      /\ GoogleNoteTrue(o, o.googleStatus) /\ BingNoteTrue(o, o.bingStatus)
      /\ o.verified => <<o.bing, o.site>> \in bingVerified'
  BY <1>1, <1>2, RequestAt
<1>4. CASE FailOwnership(c)
  BY <1>2, <1>4, SilenceIsTrue
<1>5. CASE CreateTxt(c) /\ ~FailOwnership(c)
  <2> DEFINE status == [o.googleStatus EXCEPT !.created = TRUE]
             value == [o EXCEPT !.googleStatus = status, !.stage = AfterTxt(o)]
  <2>1. /\ o.stage = "txtCreate" /\ AddRecord(txt)
        /\ ownership' = [ownership EXCEPT ![c].googleStatus.created = TRUE,
                                          ![c].stage = AfterTxt(o)]
    BY <1>5 DEF CreateTxt, At
  <2>2. status \in OwnershipStatus /\ status.verified = o.googleStatus.verified
    BY <1>3 DEF OwnershipRequest, OwnershipStatus
  <2>3. ownership' = [ownership EXCEPT ![c] = value]
    BY <1>3, <2>1 DEF OwnershipTyped, OwnershipRequest
  <2> HIDE DEF status
  <2>4. /\ AfterTxt(o) \in OwnershipStage
        /\ AfterTxt(o) \in {"txtList", "txtCreate"} => o.google # None
        /\ AfterTxt(o) \in {"cnameList", "cnameCreate"} => o.bing # None
    BY DEF AfterTxt, OwnershipStage
  <2>5. /\ value \in OwnershipRequest /\ value.stage = AfterTxt(o) /\ value.site = o.site
        /\ value.google = o.google /\ value.bing = o.bing /\ value.verified = o.verified
        /\ value.googleStatus = status /\ value.bingStatus = o.bingStatus
    BY <1>3, <2>2, <2>4 DEF OwnershipRequest
  <2> HIDE DEF value
  <2>6. /\ o.google \in AccountIds /\ ProviderOf[o.google] = "google" /\ o.site \in Sites
    BY <1>3, <2>1 DEF SelectedTrue, OwnershipRequest
  <2>7. txt \in Record /\ ZoneAccepts(txt)
    BY <2>6 DEF Record, GoogleRecord, ZoneAccepts
  <2>8. records'[txt] > 0
    BY <2>1, <2>7, AddRecordGrows DEF RecordInv
  <2>9. GoogleNoteTrue(o, value.googleStatus)
    BY <1>3, <2>2, <2>5, <2>7, <2>8 DEF GoogleNoteTrue
  <2>10. QED
    BY <1>1, <1>2, <1>3, <2>3, <2>4, <2>5, <2>9, NotesTrue
<1>6. CASE CreateCname(c) /\ ~FailOwnership(c)
  <2> DEFINE status == [o.bingStatus EXCEPT !.created = TRUE]
             value == [o EXCEPT !.bingStatus = status, !.stage = "googleStatus"]
  <2>1. /\ o.stage = "cnameCreate" /\ ZoneAccepts(cname) /\ AddRecord(cname)
        /\ ownership' = [ownership EXCEPT ![c].bingStatus.created = TRUE,
                                          ![c].stage = "googleStatus"]
    BY <1>6 DEF CreateCname, At
  <2>2. status \in OwnershipStatus /\ status.verified = o.bingStatus.verified
    BY <1>3 DEF OwnershipRequest, OwnershipStatus
  <2>3. ownership' = [ownership EXCEPT ![c] = value]
    BY <1>3, <2>1 DEF OwnershipTyped, OwnershipRequest
  <2> HIDE DEF status
  <2>4. /\ value \in OwnershipRequest /\ value.stage = "googleStatus" /\ value.site = o.site
        /\ value.google = o.google /\ value.bing = o.bing /\ value.verified = o.verified
        /\ value.googleStatus = o.googleStatus /\ value.bingStatus = status
    BY <1>3, <2>2 DEF OwnershipRequest, OwnershipStage
  <2> HIDE DEF value
  <2>5. /\ o.bing \in AccountIds /\ ProviderOf[o.bing] = "bing" /\ o.site \in Sites
    BY <1>3, <2>1 DEF SelectedTrue, OwnershipRequest
  <2>6. cname \in Record
    BY <2>5 DEF Record, BingRecord
  <2>7. records'[cname] > 0
    BY <2>1, <2>6, AddRecordGrows DEF RecordInv
  <2>8. BingNoteTrue(o, value.bingStatus)
    BY <1>3, <2>2, <2>4, <2>6, <2>7 DEF BingNoteTrue
  <2>9. QED
    BY <1>1, <1>2, <1>3, <2>3, <2>4, <2>8, NotesTrue
<1>7. QED
  BY <1>4, <1>5, <1>6

LEMMA GoogleStatusTrue ==
    ASSUME OwnershipTyped, TruthInv, NEW c \in Callers, GoogleStatus(c), UNCHANGED bingVerified
    PROVE  TruthInv'
<1> DEFINE o == ownership[c]
           verified == <<o.google, o.site>> \in googleVerified
<1>1. VerifiedGrow /\ OwnershipActive(c)
  BY QuietVerifiedGrow DEF GoogleStatus, dnsVars, At, OwnershipActive
<1>2. /\ o \in OwnershipRequest /\ BingNoteTrue(o, o.bingStatus)
      /\ GoogleNoteTrue(o, o.googleStatus)
      /\ o.verified => <<o.bing, o.site>> \in bingVerified'
  BY <1>1, RequestAt DEF VerifiedGrow
<1>3. CASE o.google = None
  <2>1. Go(c, "bingStatus")
    BY <1>3 DEF GoogleStatus
  <2>2. QED
    BY <1>1, <2>1, GoTrue DEF OwnershipStage
<1>4. CASE o.google # None
  <2>1. PICK seen \in BOOLEAN :
           ownership' = [ownership EXCEPT
              ![c].googleStatus.propagated = seen,
              ![c].googleStatus.verified = verified,
              ![c].stage = IF o.verify /\ seen /\ ~verified
                             THEN "googleRedeem" ELSE "bingStatus"]
    BY <1>4 DEF GoogleStatus, Seen
  <2> DEFINE stage == IF o.verify /\ seen /\ ~verified THEN "googleRedeem" ELSE "bingStatus"
  <2>2. stage \in {"googleRedeem", "bingStatus"}
    OBVIOUS
  <2>3. ownership' = [ownership EXCEPT ![c].googleStatus.propagated = seen,
                                       ![c].googleStatus.verified = verified,
                                       ![c].stage = stage]
    BY <2>1
  <2> HIDE DEF stage
  <2>4. PICK v \in BOOLEAN :
           /\ v => <<o.google, o.site>> \in googleVerified
           /\ ownership' = [ownership EXCEPT ![c].googleStatus.propagated = seen,
                                             ![c].googleStatus.verified = v,
                                             ![c].stage = stage]
    <3>1. verified \in BOOLEAN /\ (verified => <<o.google, o.site>> \in googleVerified)
      OBVIOUS
    <3> HIDE DEF verified
    <3>2. QED
      BY <2>3, <3>1
  <2> DEFINE status == [o.googleStatus EXCEPT !.propagated = seen, !.verified = v]
             value == [o EXCEPT !.googleStatus = status, !.stage = stage]
  <2>5. /\ status \in OwnershipStatus /\ status.verified = v
        /\ status.created = o.googleStatus.created
    BY <1>2 DEF OwnershipRequest, OwnershipStatus
  <2>6. ownership' = [ownership EXCEPT ![c] = value]
    BY <1>2, <2>4 DEF OwnershipTyped, OwnershipRequest
  <2> HIDE DEF status
  <2>7. /\ value \in OwnershipRequest /\ value.stage = stage /\ value.site = o.site
        /\ value.google = o.google /\ value.bing = o.bing /\ value.verified = o.verified
        /\ value.googleStatus = status /\ value.bingStatus = o.bingStatus
    BY <1>2, <2>2, <2>5 DEF OwnershipRequest, OwnershipStage
  <2> HIDE DEF value
  <2>8. GoogleNoteTrue(o, value.googleStatus)
    BY <1>1, <1>2, <2>4, <2>5, <2>7 DEF GoogleNoteTrue, VerifiedGrow
  <2>9. QED
    BY <1>1, <1>2, <2>2, <2>6, <2>7, <2>8, NotesTrue
<1>5. QED
  BY <1>3, <1>4

LEMMA RedeemGoogleTrue ==
    ASSUME OwnershipTyped, TruthInv, NEW c \in Callers, RedeemGoogle(c), UNCHANGED bingVerified
    PROVE  TruthInv'
<1> DEFINE o == ownership[c]
<1>1. VerifiedGrow /\ OwnershipActive(c)
  BY DEF RedeemGoogle, dnsVars, At, OwnershipActive, VerifiedGrow
<1>2. /\ o \in OwnershipRequest /\ BingNoteTrue(o, o.bingStatus)
      /\ GoogleNoteTrue(o, o.googleStatus)
      /\ o.verified => <<o.bing, o.site>> \in bingVerified'
  BY <1>1, RequestAt DEF VerifiedGrow
<1>3. CASE FailOwnership(c)
  BY <1>1, <1>3, SilenceIsTrue
<1>4. CASE ~FailOwnership(c)
  <2>1. /\ <<o.google, o.site>> \in googleVerified'
        /\ ownership' = [ownership EXCEPT ![c].googleStatus.verified = TRUE,
                                          ![c].stage = "bingStatus"]
    BY <1>4 DEF RedeemGoogle
  <2> DEFINE status == [o.googleStatus EXCEPT !.verified = TRUE]
             value == [o EXCEPT !.googleStatus = status, !.stage = "bingStatus"]
  <2>2. status \in OwnershipStatus /\ status.created = o.googleStatus.created
    BY <1>2 DEF OwnershipRequest, OwnershipStatus
  <2>3. ownership' = [ownership EXCEPT ![c] = value]
    BY <1>2, <2>1 DEF OwnershipTyped, OwnershipRequest
  <2> HIDE DEF status
  <2>4. /\ value \in OwnershipRequest /\ value.stage = "bingStatus" /\ value.site = o.site
        /\ value.google = o.google /\ value.bing = o.bing /\ value.verified = o.verified
        /\ value.googleStatus = status /\ value.bingStatus = o.bingStatus
    BY <1>2, <2>2 DEF OwnershipRequest, OwnershipStage
  <2> HIDE DEF value
  <2>5. GoogleNoteTrue(o, value.googleStatus)
    BY <1>2, <2>1, <2>2, <2>4 DEF GoogleNoteTrue
  <2>6. QED
    BY <1>1, <1>2, <2>3, <2>4, <2>5, NotesTrue
<1>5. QED
  BY <1>3, <1>4

LEMMA BingStatusTrue ==
    ASSUME OwnershipTyped, TruthInv, NEW c \in Callers, BingStatus(c), UNCHANGED bingVerified
    PROVE  TruthInv'
<1> DEFINE o == ownership[c]
<1>1. VerifiedGrow /\ OwnershipActive(c)
  BY QuietVerifiedGrow DEF BingStatus, dnsVars, At, OwnershipActive
<1>2. /\ o \in OwnershipRequest /\ BingNoteTrue(o, o.bingStatus)
      /\ o.verified => <<o.bing, o.site>> \in bingVerified'
  BY <1>1, RequestAt DEF VerifiedGrow
<1>3. Unselected \in OwnershipStatus /\ BingNoteTrue(o, Unselected)
  BY DEF Unselected, OwnershipStatus, BingNoteTrue
<1>4. ASSUME NEW seen \in BOOLEAN
      PROVE  LET status == [o.bingStatus EXCEPT !.propagated = seen, !.verified = o.verified]
             IN  status \in OwnershipStatus /\ BingNoteTrue(o, status)
  <2> DEFINE status == [o.bingStatus EXCEPT !.propagated = seen, !.verified = o.verified]
  <2>1. /\ status \in OwnershipStatus /\ status.verified = o.verified
        /\ status.created = o.bingStatus.created
    BY <1>2 DEF OwnershipRequest, OwnershipStatus
  <2> HIDE DEF status
  <2>2. BingNoteTrue(o, status)
    BY <1>2, <2>1 DEF BingNoteTrue
  <2>3. QED
    BY <2>1, <2>2 DEF status
<1>5. \/ Go(c, "bingRedeem") \/ Receipt(c, Unselected)
      \/ \E seen \in BOOLEAN :
            Receipt(c, [o.bingStatus EXCEPT !.propagated = seen, !.verified = o.verified])
  BY DEF BingStatus, Seen
<1>6. QED
  BY <1>1, <1>3, <1>4, <1>5, GoTrue, ReceiptTrue DEF OwnershipStage

LEMMA RedeemBingTrue ==
    ASSUME OwnershipTyped, TruthInv, NEW c \in Callers, RedeemBing(c)
    PROVE  TruthInv'
<1> DEFINE o == ownership[c]
<1>1. VerifiedGrow /\ OwnershipActive(c)
  BY DEF RedeemBing, VerifyBingSite, dnsVars, At, OwnershipActive, VerifiedGrow
<1>2. o \in OwnershipRequest /\ BingNoteTrue(o, o.bingStatus)
  BY <1>1, RequestAt
<1>3. PICK found \in BOOLEAN :
         /\ found => <<o.bing, o.site>> \in bingVerified'
         /\ \/ Receipt(c, [o.bingStatus EXCEPT !.propagated = TRUE, !.verified = found])
            \/ FailOwnership(c)
  BY DEF RedeemBing, Seen, VerifyBingSite
<1> DEFINE status == [o.bingStatus EXCEPT !.propagated = TRUE, !.verified = found]
<1>4. /\ status \in OwnershipStatus /\ status.verified = found
      /\ status.created = o.bingStatus.created
  BY <1>2 DEF OwnershipRequest, OwnershipStatus
<1>5. Receipt(c, status) \/ FailOwnership(c)
  BY <1>3
<1> HIDE DEF status
<1>6. BingNoteTrue(o, status)
  BY <1>2, <1>3, <1>4 DEF BingNoteTrue
<1>7. QED
  BY <1>1, <1>4, <1>5, <1>6, ReceiptTrue, SilenceIsTrue

LEMMA NextTruth ==
    ASSUME OwnershipTyped, RecordInv, TruthInv, [Next]_vars
    PROVE  TruthInv'
<1>1. CASE UNCHANGED <<ownership, records, googleVerified, bingVerified>>
  BY <1>1 DEF TruthInv
<1>2. ASSUME NEW c \in Callers, StartOwnership(c)
      PROVE  TruthInv'
  BY <1>2, BeginTrue DEF StartOwnership, bingVars
<1>3. ASSUME NEW c \in Callers, OwnershipStep(c)
      PROVE  TruthInv'
  <2>1. CASE AddVerificationSite(c)
    <3>1. VerifiedGrow /\ OwnershipActive(c)
      BY <2>1, QuietVerifiedGrow DEF AddVerificationSite, dnsVars, At, OwnershipActive
    <3>2. Go(c, "reread") \/ FailOwnership(c)
      BY <2>1 DEF AddVerificationSite
    <3>3. QED
      BY <3>1, <3>2, GoTrue, SilenceIsTrue DEF OwnershipStage
  <2>2. CASE OwnershipReadFails(c) /\ UNCHANGED bingVerified
    BY <2>2, QuietVerifiedGrow, SilenceIsTrue DEF OwnershipReadFails, dnsVars
  <2>3. QED
    BY <1>3, <2>1, <2>2, ReadMaterialTrue, ListingTrue, CreationTrue, GoogleStatusTrue,
       RedeemGoogleTrue, BingStatusTrue, RedeemBingTrue DEF OwnershipStep, bingVars
<1>4. ASSUME NEW c \in Callers, Dies(c)
      PROVE  TruthInv'
  <2>1. UNCHANGED <<records, googleVerified, bingVerified>>
    BY <1>4 DEF Dies, dnsVars, bingVars
  <2>2. CASE OwnershipActive(c)
    BY <1>4, <2>1, <2>2, QuietVerifiedGrow, SilenceIsTrue DEF Dies, FailOwnership
  <2>3. CASE ~OwnershipActive(c)
    BY <1>1, <1>4, <2>1, <2>3 DEF Dies, OwnershipTyped
  <2>4. QED
    BY <2>2, <2>3
<1>5. CASE ProviderStep
  <2>1. ASSUME NEW record \in Record, RecordArrives(record), UNCHANGED bingVerified
        PROVE  TruthInv'
    <3>1. VerifiedGrow /\ UNCHANGED ownership
      BY <2>1, AddRecordGrows DEF RecordArrives, VerifiedGrow, RecordInv
    <3>2. QED
      BY <3>1, ToldStays DEF TruthInv
  <2>2. QED
    BY <1>1, <1>5, <2>1 DEF ProviderStep, Publish, ownershipVars, dnsVars, bingVars
<1>6. ASSUME NEW c \in Callers, OnboardingStep(c)
      PROVE  TruthInv'
  BY <1>1, <1>6 DEF OnboardingStep, AddToBing, ownershipVars, dnsVars, bingVars
<1>7. QED
  BY <1>1, <1>2, <1>3, <1>4, <1>5, <1>6
  DEF Next, vars, ownershipVars, dnsVars, bingVars, StartEdit, StartOnboarding, EditStep,
      Restart

(* What a receipt of a verification says is so. *)
LEMMA InitTruth == Init => TruthInv
BY DEF Init, OwnershipInit, NoOwnership, TruthInv

LEMMA ReceiptsAreTrue ==
    ASSUME TruthInv, NEW c \in Callers, ownership[c].stage = "ended"
    PROVE  OwnershipReportTrue(ownership[c])
BY DEF TruthInv, ToldTrue, ToldIn, OwnershipReportTrue, CompleteReceipt

----------------------------------------------------------------------------
(* Documents and the shape of what a caller has in hand. *)

(* What a loadable document needs, up to the ids of its targets. *)
Unbroken(d) ==
    /\ ResourcesUnshared(d.accounts)
    /\ \A s, t \in d.targets : s # t => s.id # t.id /\ s.host # t.host

(* What FileNamesWhatExists says of a document when the providers hold the *)
(* sites gsc and bing and the properties ps.                               *)
Named(d, gsc, bing, ps) ==
    \A a \in DOMAIN d.accounts : LET account == d.accounts[a] IN
        /\ account.sites \subseteq
              {s \in Sites : <<a, s>> \in IF ProviderOf[a] = "google" THEN gsc ELSE bing}
        /\ \A i \in account.properties : i \in DOMAIN ps /\ ps[i].stream # NoSite

GoodIn(d, gsc, bing, ps) == IsDocument(d) /\ Unbroken(d) /\ Named(d, gsc, bing, ps)

Good(d) == GoodIn(d, gscSites, bingSites, properties)

IsGuided(e) ==
    e \in [stage : {"prompts"}, copy : {e.copy}, seen : {e.seen}, todo : {e.todo},
           configured : SUBSET Providers, keyed : {e.keyed}]

IsInitialization(e) ==
    e \in [stage : {"look", "create", "configure"}, copy : {e.copy}, seen : {e.seen},
           id : TargetIds, host : Sites, key : Nat]

EditTyped ==
    /\ edit = [c \in Callers |-> edit[c]]
    /\ \A c \in Callers : Editing(c) => IsGuided(edit[c]) \/ IsInitialization(edit[c])
    /\ keyFile \in Nat /\ keysMade \in Nat

(* A copy of the file is as good as the file, and is the file itself while *)
(* nobody has replaced it.                                                 *)
FaithfulCopy(copy, seen) ==
    /\ Good(copy)
    /\ seen \in Nat /\ seen <= replacements
    /\ seen = replacements => copy = document

FileInv ==
    /\ Good(document)
    /\ replacements \in Nat /\ policy \subseteq AccountIds
    /\ \A c \in Callers : Editing(c) => FaithfulCopy(edit[c].copy, edit[c].seen)
    /\ \A c \in Callers : onboarding[c].stage = "writeFile" =>
          FaithfulCopy(onboarding[c].copy, onboarding[c].seen)

----------------------------------------------------------------------------
(* What the commands of the owner have in hand. *)

LEMMA EditAt ==
    ASSUME EditTyped, NEW c \in Callers, NEW value, edit' = [edit EXCEPT ![c] = value]
    PROVE  /\ edit'[c] = value
           /\ \A d \in Callers : d # c => edit'[d] = edit[d]
           /\ edit' = [d \in Callers |-> edit'[d]]
BY DEF EditTyped

(* A command of c keeps its copy, takes a fresh one, or ends. *)
KeepsCopy(c) ==
    /\ EditTyped'
    /\ \A d \in Callers : d # c => edit'[d] = edit[d]
    /\ Editing(c)' =>
          \/ /\ Editing(c)
             /\ edit'[c].copy = edit[c].copy /\ edit'[c].seen = edit[c].seen
          \/ edit'[c].copy = document /\ edit'[c].seen = replacements

LEMMA StopKeeps ==
    ASSUME EditTyped, NEW c \in Callers, Stop(c), keyFile' \in Nat, keysMade' \in Nat
    PROVE  KeepsCopy(c) /\ ~Editing(c)'
<1>1. /\ edit'[c] = NoEdit
      /\ \A d \in Callers : d # c => edit'[d] = edit[d]
      /\ edit' = [d \in Callers |-> edit'[d]]
  BY EditAt DEF Stop
<1>2. ~Editing(c)'
  BY <1>1 DEF Editing, NoEdit
<1>3. QED
  BY <1>1, <1>2 DEF KeepsCopy, EditTyped, Editing

LEMMA BecomesEdit ==
    ASSUME EditTyped, NEW c \in Callers, NEW value, edit' = [edit EXCEPT ![c] = value],
           IsGuided(value) \/ IsInitialization(value),
           \/ Editing(c) /\ value.copy = edit[c].copy /\ value.seen = edit[c].seen
           \/ value.copy = document /\ value.seen = replacements,
           keyFile' \in Nat, keysMade' \in Nat
    PROVE  KeepsCopy(c)
<1>1. /\ edit'[c] = value
      /\ \A d \in Callers : d # c => edit'[d] = edit[d]
      /\ edit' = [d \in Callers |-> edit'[d]]
  BY EditAt
<1>2. QED
  BY <1>1 DEF KeepsCopy, EditTyped, Editing

LEMMA EditsKeep ==
    ASSUME EditTyped, NEW c \in Callers,
           \/ \E selected \in SUBSET AskedProviders : GuidedRead(c, selected)
           \/ \E id \in TargetIds, host \in Sites : InitializeIndexNow(c, id, host)
           \/ StoreCredential(c) \/ LookForKey(c) \/ CreateKey(c)
    PROVE  KeepsCopy(c)
<1>1. keyFile \in Nat /\ keysMade \in Nat
  BY DEF EditTyped
<1>2. ASSUME NEW selected \in SUBSET AskedProviders, GuidedRead(c, selected)
      PROVE  KeepsCopy(c)
  <2> DEFINE todo == SelectSeq(ProviderOrder, LAMBDA p : p \in selected)
             value == [stage |-> "prompts", copy |-> document, seen |-> replacements,
                       todo |-> todo, configured |-> selected, keyed |-> FALSE]
  <2>1. edit' = [edit EXCEPT ![c] = value] /\ keyFile' = keyFile /\ keysMade' = keysMade
    BY <1>2 DEF GuidedRead
  <2>2. selected \subseteq Providers
    BY OrderNamesProviders DEF AskedProviders
  <2> HIDE DEF todo
  <2>3. IsGuided(value) /\ value.copy = document /\ value.seen = replacements
    BY <2>2 DEF IsGuided
  <2> HIDE DEF value
  <2>4. QED
    BY <1>1, <2>1, <2>3, BecomesEdit
<1>3. ASSUME NEW id \in TargetIds, NEW host \in Sites, InitializeIndexNow(c, id, host)
      PROVE  KeepsCopy(c)
  <2> DEFINE value == [stage |-> "look", copy |-> document, seen |-> replacements,
                       id |-> id, host |-> host, key |-> NoKey]
  <2>1. edit' = [edit EXCEPT ![c] = value] /\ keyFile' = keyFile /\ keysMade' = keysMade
    BY <1>3 DEF InitializeIndexNow
  <2>2. IsInitialization(value) /\ value.copy = document /\ value.seen = replacements
    BY DEF IsInitialization, NoKey
  <2> HIDE DEF value
  <2>3. QED
    BY <1>1, <2>1, <2>2, BecomesEdit
<1>4. CASE StoreCredential(c)
  <2>1. IsGuided(edit[c]) /\ Editing(c)
    BY <1>4 DEF StoreCredential, EditTyped, Editing, IsInitialization
  <2>2. CASE Stop(c)
    BY <1>1, <1>4, <2>2, StopKeeps DEF StoreCredential
  <2>3. CASE ~Stop(c)
    <3>1. PICK keyed : edit' = [edit EXCEPT ![c].todo = Tail(@), ![c].keyed = keyed]
      BY <1>4, <2>3 DEF StoreCredential
    <3> DEFINE value == [edit[c] EXCEPT !.todo = Tail(edit[c].todo), !.keyed = keyed]
    <3>2. edit' = [edit EXCEPT ![c] = value]
      BY <2>1, <3>1 DEF EditTyped, IsGuided
    <3>3. /\ IsGuided(value)
          /\ value.copy = edit[c].copy /\ value.seen = edit[c].seen
      BY <2>1 DEF IsGuided
    <3> HIDE DEF value
    <3>4. keyFile' = keyFile /\ keysMade' = keysMade
      BY <1>4 DEF StoreCredential
    <3>5. QED
      BY <1>1, <2>1, <3>2, <3>3, <3>4, BecomesEdit
  <2>4. QED
    BY <2>2, <2>3
<1>5. CASE LookForKey(c) \/ CreateKey(c)
  <2>1. IsInitialization(edit[c]) /\ Editing(c)
    BY <1>5 DEF LookForKey, CreateKey, EditTyped, Editing, IsGuided
  <2>2. keyFile' \in Nat /\ keysMade' \in Nat
    BY <1>1, <1>5 DEF LookForKey, CreateKey
  <2>3. PICK stage \in {"create", "configure"}, key \in Nat :
           edit' = [edit EXCEPT ![c].stage = stage, ![c].key = key]
    <3>1. CASE LookForKey(c)
      BY <1>1, <3>1 DEF LookForKey
    <3>2. CASE CreateKey(c)
      BY <1>1, <2>2, <3>2 DEF CreateKey
    <3>3. QED
      BY <1>5, <3>1, <3>2
  <2> DEFINE value == [edit[c] EXCEPT !.stage = stage, !.key = key]
  <2>4. edit' = [edit EXCEPT ![c] = value]
    BY <2>1, <2>3 DEF EditTyped, IsInitialization
  <2>5. /\ IsInitialization(value)
        /\ value.copy = edit[c].copy /\ value.seen = edit[c].seen
    BY <2>1, <2>3 DEF IsInitialization
  <2> HIDE DEF value
  <2>6. QED
    BY <2>1, <2>2, <2>4, <2>5, BecomesEdit
<1>6. QED
  BY <1>2, <1>3, <1>4, <1>5

----------------------------------------------------------------------------
(* What is true of the file stays true while the providers change. *)

(* The providers lose no site, no property and no stream. *)
ProvidersGrow ==
    /\ gscSites \subseteq gscSites' /\ bingSites \subseteq bingSites'
    /\ \A i \in DOMAIN properties :
          i \in DOMAIN properties' /\ (properties[i].stream # NoSite =>
                                        properties'[i].stream # NoSite)

LEMMA GoodStays ==
    ASSUME ProvidersGrow, NEW d, Good(d)
    PROVE  GoodIn(d, gscSites', bingSites', properties')
<1>1. Named(d, gscSites, bingSites, properties) => Named(d, gscSites', bingSites', properties')
  BY DEF Named, ProvidersGrow
<1>2. QED
  BY <1>1 DEF Good, GoodIn

(* A step that replaces nothing: copies stay, or are taken from the file.  *)
KeepsFile ==
    /\ UNCHANGED <<document, replacements>>
    /\ policy' \subseteq AccountIds
    /\ \A d \in Callers : Editing(d)' =>
          \/ Editing(d) /\ edit'[d].copy = edit[d].copy /\ edit'[d].seen = edit[d].seen
          \/ edit'[d].copy = document /\ edit'[d].seen = replacements
    /\ \A d \in Callers : onboarding'[d].stage = "writeFile" =>
          \/ /\ onboarding[d].stage = "writeFile"
             /\ onboarding'[d].copy = onboarding[d].copy
             /\ onboarding'[d].seen = onboarding[d].seen
          \/ onboarding'[d].copy = document /\ onboarding'[d].seen = replacements

LEMMA KeptFile ==
    ASSUME FileInv, ProvidersGrow, KeepsFile
    PROVE  FileInv'
<1> DEFINE GoodNext(d) == GoodIn(d, gscSites', bingSites', properties')
<1>1. \A d : Good(d) => GoodNext(d)
  BY GoodStays
<1>2. Good(document) /\ GoodNext(document') /\ replacements \in Nat
  BY <1>1 DEF FileInv, KeepsFile
<1>3. ASSUME NEW d \in Callers, Editing(d)'
      PROVE  /\ GoodNext(edit'[d].copy)
             /\ edit'[d].seen \in Nat /\ edit'[d].seen <= replacements'
             /\ edit'[d].seen = replacements' => edit'[d].copy = document'
  BY <1>1, <1>2, <1>3 DEF FileInv, KeepsFile, FaithfulCopy
<1>4. ASSUME NEW d \in Callers, onboarding'[d].stage = "writeFile"
      PROVE  /\ GoodNext(onboarding'[d].copy)
             /\ onboarding'[d].seen \in Nat /\ onboarding'[d].seen <= replacements'
             /\ onboarding'[d].seen = replacements' => onboarding'[d].copy = document'
  BY <1>1, <1>2, <1>4 DEF FileInv, KeepsFile, FaithfulCopy
<1>5. QED
  BY <1>2, <1>3, <1>4 DEF FileInv, FaithfulCopy, Good, KeepsFile

(* A step that replaces the file with a good document and lets the copy it *)
(* was made from go: all other copies are stale from now on.               *)
Replaces(new) ==
    /\ ReplaceFile(new)
    /\ policy' = policy
    /\ UNCHANGED <<gscSites, bingSites, properties>>
    /\ \A d \in Callers : Editing(d)' =>
          Editing(d) /\ edit'[d].copy = edit[d].copy /\ edit'[d].seen = edit[d].seen
    /\ \A d \in Callers : onboarding'[d].stage = "writeFile" =>
          /\ onboarding[d].stage = "writeFile"
          /\ onboarding'[d].copy = onboarding[d].copy
          /\ onboarding'[d].seen = onboarding[d].seen

LEMMA ReplacedFile ==
    ASSUME FileInv, NEW new, Good(new), Replaces(new)
    PROVE  FileInv'
<1>1. /\ document' = new /\ replacements' = replacements + 1
      /\ replacements \in Nat /\ replacements' \in Nat
  BY DEF FileInv, Replaces, ReplaceFile
<1>2. ASSUME NEW d \in Callers, Editing(d)'
      PROVE  /\ Good(edit'[d].copy)
             /\ edit'[d].seen \in Nat /\ edit'[d].seen < replacements'
  BY <1>1, <1>2 DEF FileInv, Replaces, FaithfulCopy
<1>3. ASSUME NEW d \in Callers, onboarding'[d].stage = "writeFile"
      PROVE  /\ Good(onboarding'[d].copy)
             /\ onboarding'[d].seen \in Nat /\ onboarding'[d].seen < replacements'
  BY <1>1, <1>3 DEF FileInv, Replaces, FaithfulCopy
<1>4. policy' \subseteq AccountIds
  BY DEF FileInv, Replaces
<1>5. QED
  BY <1>1, <1>2, <1>3, <1>4 DEF FileInv, FaithfulCopy, Good, Replaces

----------------------------------------------------------------------------
(* The documents the three writers make of their copies. *)

LEMMA KeepsItself ==
    ASSUME NEW d
    PROVE  Keeps(d, d)
BY DEF Keeps

LEMMA ValidIsUnbroken ==
    ASSUME NEW d, ValidDocument(d)
    PROVE  Unbroken(d)
BY DEF ValidDocument, Unbroken

LEMMA ConfiguredIdProperties ==
    ASSUME NEW d, IsDocument(d), NEW p \in Providers
    PROVE  ConfiguredId(d, p) \in AccountIds /\ ProviderOf[ConfiguredId(d, p)] = p
<1>1. CASE AccountsOf(d, p) = {}
  BY <1>1, DefaultIdNamesItsProvider DEF ConfiguredId
<1>2. CASE AccountsOf(d, p) # {}
  <2>1. ConfiguredId(d, p) \in AccountsOf(d, p)
    BY <1>2 DEF ConfiguredId
  <2>2. QED
    BY <2>1 DEF AccountsOf, IsDocument, AreAccounts
<1>3. QED
  BY <1>1, <1>2

LEMMA ConfiguredAccount ==
    ASSUME NEW account \in Account, NEW keyed \in BOOLEAN
    PROVE  LET new == [account EXCEPT !.keyed = keyed]
           IN  /\ new \in Account
               /\ new.sites = account.sites /\ new.properties = account.properties
               /\ new.pages = account.pages
BY DEF Account

(* Guided setup. *)
LEMMA MergedDocument ==
    ASSUME NEW d, Good(d), NEW configured \in SUBSET Providers, NEW keyed,
           NEW new, new = [accounts |-> MergeAccounts(d, configured, keyed),
                           targets |-> d.targets],
           ValidDocument(new)
    PROVE  Good(new) /\ Keeps(new, d)
<1> DEFINE ids == {ConfiguredId(d, p) : p \in configured}
           merged == MergeAccounts(d, configured, keyed)
<1>1. /\ IsDocument(d) /\ Named(d, gscSites, bingSites, properties)
      /\ DOMAIN d.accounts \subseteq AccountIds
      /\ \A a \in DOMAIN d.accounts : d.accounts[a] \in Account
      /\ d.targets \subseteq IndexNowTarget
  BY DEF Good, GoodIn, IsDocument, AreAccounts
<1>2. ids \subseteq AccountIds
  BY <1>1, ConfiguredIdProperties
<1>3. /\ merged = [a \in DOMAIN d.accounts \cup ids |-> merged[a]]
      /\ DOMAIN merged = DOMAIN d.accounts \cup ids
      /\ \A a \in DOMAIN merged : merged[a] = IF a \in ids
                    THEN ConfigureAccount(d, ProviderOf[a], keyed) ELSE d.accounts[a]
  BY DEF MergeAccounts
<1>4. ASSUME NEW a \in ids
      PROVE  LET current == IF a \in DOMAIN d.accounts THEN d.accounts[a] ELSE NewAccount
             IN  /\ merged[a] \in Account
                 /\ merged[a].sites = current.sites
                 /\ merged[a].properties = current.properties
                 /\ merged[a].pages = current.pages
  <2> DEFINE current == IF a \in DOMAIN d.accounts THEN d.accounts[a] ELSE NewAccount
  <2>1. PICK p \in configured : a = ConfiguredId(d, p)
    OBVIOUS
  <2>2. ProviderOf[a] = p
    BY <1>1, <2>1, ConfiguredIdProperties
  <2>3. merged[a] = ConfigureAccount(d, p, keyed)
    BY <1>3, <2>2
  <2>4. current \in Account
    BY <1>1 DEF NewAccount, Account
  <2>5. PICK k \in BOOLEAN : merged[a] = [current EXCEPT !.keyed = k]
    BY <2>1, <2>3 DEF ConfigureAccount
  <2> HIDE DEF current, merged
  <2>6. /\ merged[a] \in Account
        /\ merged[a].sites = current.sites
        /\ merged[a].properties = current.properties
        /\ merged[a].pages = current.pages
    BY <2>4, <2>5, ConfiguredAccount
  <2>7. QED
    BY <2>6 DEF current
<1>5. new.accounts = merged /\ new.targets = d.targets
      /\ new = [accounts |-> new.accounts, targets |-> new.targets]
  OBVIOUS
<1> HIDE DEF merged, ids
<1>6. AreAccounts(merged)
  BY <1>1, <1>2, <1>3, <1>4 DEF AreAccounts
<1>7. IsDocument(new)
  BY <1>1, <1>5, <1>6 DEF IsDocument
<1>8. ASSUME NEW a \in DOMAIN merged
      PROVE  \/ /\ a \in DOMAIN d.accounts
                /\ merged[a].sites = d.accounts[a].sites
                /\ merged[a].properties = d.accounts[a].properties
                /\ merged[a].pages = d.accounts[a].pages
             \/ a \notin DOMAIN d.accounts /\ merged[a].sites = {} /\ merged[a].properties = {}
  BY <1>3, <1>4 DEF NewAccount
<1>9. Named(new, gscSites, bingSites, properties)
  BY <1>1, <1>5, <1>8 DEF Named
<1>10. Keeps(new, d)
  BY <1>3, <1>5, <1>8 DEF Keeps
<1>11. QED
  BY <1>7, <1>9, <1>10, ValidIsUnbroken DEF Good, GoodIn

(* The IndexNow initialisation, which does not validate what it writes. *)
LEMMA TargetedDocument ==
    ASSUME NEW d, Good(d), NEW target \in IndexNowTarget,
           {t \in d.targets : t.id = target.id \/ t.host = target.host} \subseteq {target},
           NEW new, new = [d EXCEPT !.targets = d.targets \cup {target}]
    PROVE  Good(new) /\ Keeps(new, d)
<1>1. /\ d = [accounts |-> d.accounts, targets |-> d.targets] /\ AreAccounts(d.accounts)
      /\ d.targets \subseteq IndexNowTarget
  BY DEF Good, GoodIn, IsDocument
<1>2. /\ new.accounts = d.accounts /\ new.targets = d.targets \cup {target}
      /\ new = [accounts |-> new.accounts, targets |-> new.targets]
  BY <1>1
<1>3. IsDocument(new)
  BY <1>1, <1>2 DEF IsDocument
<1>4. Unbroken(new)
  BY <1>2 DEF Good, GoodIn, Unbroken
<1>5. Named(new, gscSites, bingSites, properties)
  BY <1>2 DEF Good, GoodIn, Named
<1>6. Keeps(new, d)
  BY <1>2 DEF Keeps
<1>7. QED
  BY <1>3, <1>4, <1>5, <1>6 DEF Good, GoodIn

(* Onboarding: the accounts get a site that both consoles hold and a       *)
(* property that has a stream.                                             *)
LEMMA OnboardedDocument ==
    ASSUME NEW d, Good(d), NEW call, call.copy = d,
           call.site \in Sites, call.property \in Nat,
           ProviderOf[call.google] = "google", ProviderOf[call.bing] = "bing",
           <<call.google, call.site>> \in gscSites, <<call.bing, call.site>> \in bingSites,
           call.property \in DOMAIN properties, properties[call.property].stream # NoSite,
           NEW new, new = [d EXCEPT !.accounts = UpdatedAccounts(call)],
           ValidDocument(new)
    PROVE  Good(new) /\ Keeps(new, d)
<1> DEFINE updated == UpdatedAccounts(call)
<1>1. /\ d = [accounts |-> d.accounts, targets |-> d.targets]
      /\ DOMAIN d.accounts \subseteq AccountIds
      /\ \A a \in DOMAIN d.accounts : d.accounts[a] \in Account
      /\ d.targets \subseteq IndexNowTarget
      /\ Named(d, gscSites, bingSites, properties)
  BY DEF Good, GoodIn, IsDocument, AreAccounts
<1>2. /\ updated = [a \in DOMAIN d.accounts |-> updated[a]]
      /\ DOMAIN updated = DOMAIN d.accounts
      /\ \A a \in DOMAIN d.accounts : updated[a] = UpdatedAccount(d.accounts[a], a, call)
  BY DEF UpdatedAccounts
<1>3. ASSUME NEW a \in DOMAIN d.accounts
      PROVE  LET old == d.accounts[a]
                 new1 == updated[a]
             IN  /\ new1 \in Account
                 /\ old.sites \subseteq new1.sites /\ old.properties \subseteq new1.properties
                 /\ old.pages \subseteq new1.pages
                 /\ new1.sites \subseteq old.sites \cup
                       (IF a \in {call.google, call.bing} THEN {call.site} ELSE {})
                 /\ new1.properties \subseteq old.properties \cup {call.property}
  <2> DEFINE old == d.accounts[a]
  <2>1. old \in Account
    BY <1>1
  <2>2. updated[a] = UpdatedAccount(old, a, call)
    BY <1>2
  <2>3. call.google # call.bing
    OBVIOUS
  <2> HIDE DEF old, updated
  <2>4. CASE a = call.google
    <3>1. PICK pages \in SUBSET Sites :
             /\ old.pages \subseteq pages
             /\ updated[a] = [old EXCEPT !.sites = old.sites \cup {call.site},
                                         !.properties = old.properties \cup {call.property},
                                         !.pages = pages]
      BY <2>1, <2>2, <2>3, <2>4 DEF UpdatedAccount, Account
    <3>2. /\ updated[a].sites = old.sites \cup {call.site}
          /\ updated[a].properties = old.properties \cup {call.property}
          /\ updated[a].pages = pages
      BY <2>1, <3>1 DEF Account
    <3>3. updated[a] \in Account
      <4>1. /\ old.sites \cup {call.site} \in SUBSET Sites
            /\ old.properties \cup {call.property} \in SUBSET Nat
        BY <2>1 DEF Account
      <4>2. QED
        BY <2>1, <3>1, <4>1 DEF Account
    <3>4. QED
      BY <2>4, <3>1, <3>2, <3>3 DEF old
  <2>5. CASE a = call.bing
    <3>1. updated[a] = [old EXCEPT !.sites = old.sites \cup {call.site}]
      BY <2>2, <2>3, <2>5 DEF UpdatedAccount
    <3>2. QED
      BY <2>1, <2>5, <3>1 DEF Account, old
  <2>6. CASE a \notin {call.google, call.bing}
    BY <2>1, <2>2, <2>6 DEF UpdatedAccount, old
  <2>7. QED
    BY <2>4, <2>5, <2>6
<1>4. /\ new.accounts = updated /\ new.targets = d.targets
      /\ new = [accounts |-> new.accounts, targets |-> new.targets]
  BY <1>1
<1> HIDE DEF updated
<1>5. IsDocument(new)
  BY <1>1, <1>2, <1>3, <1>4 DEF IsDocument, AreAccounts
<1>6. Named(new, gscSites, bingSites, properties)
  BY <1>1, <1>2, <1>3, <1>4 DEF Named
<1>7. Keeps(new, d)
  BY <1>2, <1>3, <1>4 DEF Keeps
<1>8. QED
  BY <1>5, <1>6, <1>7, ValidIsUnbroken DEF Good, GoodIn

----------------------------------------------------------------------------
(* Onboarding. *)

OnboardingStages == {"google_analytics", "google_search_console", "bing"}

OnboardingSteps ==
    {"inventory", "streams", "createProperty", "createStream", "gscList", "gscAdd",
     "bingList", "bingAdd", "readFile"}

AccountsAt(provider) == {a \in AccountIds : ProviderOf[a] = provider}

OnboardingRequest ==
    [stage : OnboardingSteps, site : Sites, google : AccountsAt("google"),
     bing : AccountsAt("bing"), todo : SUBSET Nat, matches : SUBSET Nat, property : Nat,
     done : SUBSET OnboardingStages]

IsFileUpdate(o) ==
    o \in [stage : {"writeFile"}, site : Sites, google : AccountsAt("google"),
           bing : AccountsAt("bing"), property : Nat, done : SUBSET OnboardingStages,
           copy : {o.copy}, seen : {o.seen}]

OnboardingReport ==
    [stage : {"ended"}, report : {"receipt", "partial"}, site : Sites,
     google : AccountsAt("google"), bing : AccountsAt("bing"), property : Nat,
     done : SUBSET OnboardingStages]

IsOnboarding(o) ==
    o = NotOnboarding \/ o \in OnboardingRequest \/ IsFileUpdate(o) \/ o \in OnboardingReport

OnboardingTyped ==
    /\ onboarding = [c \in Callers |-> onboarding[c]]
    /\ \A c \in Callers : IsOnboarding(onboarding[c])

(* The stages a request calls done are done at the providers. *)
DoneIn(o, gsc, bing, ps) ==
    o.stage # "idle" =>
        /\ "google_analytics" \in o.done =>
              /\ o.property \in DOMAIN ps
              /\ ps[o.property] = [owner |-> o.google, stream |-> o.site]
        /\ "google_search_console" \in o.done => <<o.google, o.site>> \in gsc
        /\ "bing" \in o.done => <<o.bing, o.site>> \in bing

(* Exactly the stages that are behind a request are done. *)
StagesBehind(o) ==
    /\ o.stage \in {"inventory", "streams", "createProperty", "createStream"} => o.done = {}
    /\ o.stage \in {"gscList", "gscAdd"} => "google_analytics" \in o.done
    /\ o.stage \in {"bingList", "bingAdd"} =>
          {"google_analytics", "google_search_console"} \subseteq o.done
    /\ o.stage \in {"readFile", "writeFile"} => o.done = OnboardingStages
    /\ o.stage = "ended" => (o.report = "receipt" => o.done = OnboardingStages)

(* The properties a request looks at are its account's, and those it takes *)
(* for the site's are.                                                     *)
MatchesIn(o, ps) ==
    o.stage \in {"inventory", "streams"} =>
        /\ \A i \in o.todo : i \in DOMAIN ps /\ ps[i].owner = o.google
        /\ \A i \in o.matches :
              i \in DOMAIN ps /\ ps[i] = [owner |-> o.google, stream |-> o.site]

RequestsTrue ==
    \A c \in Callers :
        /\ DoneIn(onboarding[c], gscSites, bingSites, properties)
        /\ StagesBehind(onboarding[c])
        /\ MatchesIn(onboarding[c], properties)

(* A property without a stream is waiting for at most one: from the        *)
(* request that created it, or from a creation whose caller has given up.  *)
StreamsAwaited ==
    /\ \A c \in Callers : onboarding[c].stage = "createStream" =>
          LET i == onboarding[c].property IN
          /\ i \in DOMAIN properties
          /\ properties[i] = [owner |-> onboarding[c].google, stream |-> NoSite]
          /\ \A d \in Callers :
                onboarding[d].stage = "createStream" /\ onboarding[d].property = i => d = c
          /\ \A l \in lateStreams : l.property # i
    /\ \A l \in lateStreams :
          /\ l.property \in DOMAIN properties /\ l.site \in Sites
          /\ properties[l.property].stream = NoSite
          /\ \A m \in lateStreams : m.property = l.property => m = l

OnboardingInv ==
    /\ OnboardingTyped
    /\ properties \in Seq(Ga4Properties)
    /\ RequestsTrue
    /\ StreamsAwaited

(* What providers never take back. *)
PropertiesGrow ==
    \A i \in DOMAIN properties :
        /\ i \in DOMAIN properties'
        /\ properties'[i].owner = properties[i].owner
        /\ properties[i].stream # NoSite => properties'[i] = properties[i]

Grow ==
    /\ gscSites \subseteq gscSites' /\ bingSites \subseteq bingSites'
    /\ PropertiesGrow

LEMMA OnboardingAt ==
    ASSUME OnboardingTyped, NEW c \in Callers, NEW value, IsOnboarding(value),
           onboarding' = [onboarding EXCEPT ![c] = value]
    PROVE  /\ onboarding'[c] = value
           /\ \A d \in Callers : d # c => onboarding'[d] = onboarding[d]
           /\ OnboardingTyped'
<1>1. /\ onboarding'[c] = value
      /\ \A d \in Callers : d # c => onboarding'[d] = onboarding[d]
      /\ onboarding' = [d \in Callers |-> onboarding'[d]]
  BY DEF OnboardingTyped
<1>2. QED
  BY <1>1 DEF OnboardingTyped

LEMMA DoneStays ==
    ASSUME Grow, NoSite \notin Sites, NEW o, IsOnboarding(o),
           DoneIn(o, gscSites, bingSites, properties)
    PROVE  DoneIn(o, gscSites', bingSites', properties')
<1>1. ASSUME o.stage # "idle", "google_analytics" \in o.done
      PROVE  /\ o.property \in DOMAIN properties'
             /\ properties'[o.property] = [owner |-> o.google, stream |-> o.site]
  <2>1. o.site \in Sites
    BY <1>1 DEF IsOnboarding, NotOnboarding, OnboardingRequest, IsFileUpdate, OnboardingReport
  <2>2. /\ o.property \in DOMAIN properties
        /\ properties[o.property] = [owner |-> o.google, stream |-> o.site]
    BY <1>1 DEF DoneIn
  <2>3. properties[o.property].stream # NoSite
    BY <2>1, <2>2
  <2>4. QED
    BY <2>2, <2>3 DEF Grow, PropertiesGrow
<1>2. QED
  BY <1>1 DEF DoneIn, Grow

LEMMA MatchesStay ==
    ASSUME Grow, NoSite \notin Sites, NEW o, IsOnboarding(o), MatchesIn(o, properties)
    PROVE  MatchesIn(o, properties')
<1> SUFFICES ASSUME o.stage \in {"inventory", "streams"}
             PROVE  /\ \A i \in o.todo : i \in DOMAIN properties'
                                        /\ properties'[i].owner = o.google
                    /\ \A i \in o.matches :
                         /\ i \in DOMAIN properties'
                         /\ properties'[i] = [owner |-> o.google, stream |-> o.site]
  BY DEF MatchesIn
<1>1. o.site \in Sites
  BY DEF IsOnboarding, NotOnboarding, OnboardingRequest, IsFileUpdate, OnboardingReport
<1>2. \A i \in o.matches : properties[i].stream # NoSite
  BY <1>1 DEF MatchesIn
<1>3. QED
  BY <1>2 DEF MatchesIn, Grow, PropertiesGrow

(* The step of a request that leads to value, as far as it is concerned. *)
LeadsTo(c, value) ==
    /\ onboarding' = [onboarding EXCEPT ![c] = value]
    /\ IsOnboarding(value)
    /\ DoneIn(value, gscSites', bingSites', properties')
    /\ StagesBehind(value)
    /\ MatchesIn(value, properties')

LEMMA LeadsToTrue ==
    ASSUME OnboardingInv, Grow, NEW c \in Callers, NEW value, LeadsTo(c, value)
    PROVE  /\ OnboardingTyped' /\ RequestsTrue'
           /\ onboarding'[c] = value
           /\ \A d \in Callers : d # c => onboarding'[d] = onboarding[d]
<1>1. /\ onboarding'[c] = value
      /\ \A d \in Callers : d # c => onboarding'[d] = onboarding[d]
      /\ OnboardingTyped'
  BY OnboardingAt DEF OnboardingInv, LeadsTo
<1>2. ASSUME NEW d \in Callers
      PROVE  /\ DoneIn(onboarding'[d], gscSites', bingSites', properties')
             /\ StagesBehind(onboarding'[d])
             /\ MatchesIn(onboarding'[d], properties')
  <2>1. CASE d = c
    BY <1>1, <2>1 DEF LeadsTo
  <2>2. CASE d # c
    BY <1>1, <2>2, DoneStays, MatchesStay, NoSiteAssumption
    DEF OnboardingInv, OnboardingTyped, RequestsTrue
  <2>3. QED
    BY <2>1, <2>2
<1>3. QED
  BY <1>1, <1>2 DEF RequestsTrue

(* A step that does not touch the properties and begins no stream. *)
Quiet(c, value) ==
    /\ LeadsTo(c, value)
    /\ value.stage # "createStream"
    /\ UNCHANGED <<properties, lateStreams>>
    /\ gscSites \subseteq gscSites' /\ bingSites \subseteq bingSites'
    /\ value.stage = "writeFile" => value.copy = document /\ value.seen = replacements

(* What a step of onboarding does to the file's side of the state. *)
OnboardingFrame ==
    \A d \in Callers : onboarding'[d].stage = "writeFile" =>
        \/ /\ onboarding[d].stage = "writeFile"
           /\ onboarding'[d].copy = onboarding[d].copy
           /\ onboarding'[d].seen = onboarding[d].seen
        \/ onboarding'[d].copy = document /\ onboarding'[d].seen = replacements

LEMMA QuietKeeps ==
    ASSUME OnboardingInv, NEW c \in Callers, NEW value, Quiet(c, value)
    PROVE  OnboardingInv' /\ Grow /\ OnboardingFrame
<1>1. Grow
  BY DEF Quiet, Grow, PropertiesGrow
<1>2. /\ OnboardingTyped' /\ RequestsTrue'
      /\ onboarding'[c] = value
      /\ \A d \in Callers : d # c => onboarding'[d] = onboarding[d]
  BY <1>1, LeadsToTrue DEF Quiet
<1>3. StreamsAwaited'
  <2>1. properties' = properties /\ lateStreams' = lateStreams
    BY DEF Quiet
  <2>2. \A d \in Callers : onboarding'[d].stage = "createStream" =>
           onboarding'[d] = onboarding[d]
    BY <1>2 DEF Quiet
  <2>3. ASSUME NEW d \in Callers, onboarding'[d].stage = "createStream"
        PROVE  LET i == onboarding'[d].property IN
               /\ i \in DOMAIN properties'
               /\ properties'[i] = [owner |-> onboarding'[d].google, stream |-> NoSite]
               /\ \A e \in Callers : onboarding'[e].stage = "createStream"
                                     /\ onboarding'[e].property = i => e = d
               /\ \A l \in lateStreams' : l.property # i
    <3>1. onboarding'[d] = onboarding[d]
      BY <2>2, <2>3
    <3>2. QED
      BY <2>1, <2>2, <2>3, <3>1 DEF OnboardingInv, StreamsAwaited
  <2>4. \A l \in lateStreams' :
          /\ l.property \in DOMAIN properties' /\ l.site \in Sites
          /\ properties'[l.property].stream = NoSite
          /\ \A m \in lateStreams' : m.property = l.property => m = l
    BY <2>1 DEF OnboardingInv, StreamsAwaited
  <2>5. QED
    BY <2>3, <2>4 DEF StreamsAwaited
<1>4. OnboardingFrame
  BY <1>2 DEF OnboardingFrame, Quiet
<1>5. QED
  BY <1>1, <1>2, <1>3, <1>4 DEF OnboardingInv, Quiet

(* How a request ends. *)
Over(c) == \E value : LeadsTo(c, value) /\ value.stage \in {"idle", "ended"}

LEMMA PlainErrorEnds ==
    ASSUME NEW c, PlainError(c)
    PROVE  Over(c)
<1>1. LeadsTo(c, NotOnboarding) /\ NotOnboarding.stage = "idle"
  BY DEF PlainError, LeadsTo, IsOnboarding, NotOnboarding, DoneIn, StagesBehind, MatchesIn
<1>2. QED
  BY <1>1 DEF Over

LEMMA EndOnboardingEnds ==
    ASSUME OnboardingInv, Grow, NEW c \in Callers,
           onboarding[c] \in OnboardingRequest \/ IsFileUpdate(onboarding[c]),
           NEW report \in {"receipt", "partial"},
           report = "receipt" => onboarding[c].done = OnboardingStages,
           EndOnboarding(c, report)
    PROVE  Over(c)
<1> DEFINE o == onboarding[c]
           value == [stage |-> "ended", report |-> report, site |-> o.site,
                     google |-> o.google, bing |-> o.bing, done |-> o.done,
                     property |-> o.property]
<1>1. onboarding' = [onboarding EXCEPT ![c] = value]
  BY DEF EndOnboarding
<1>2. value \in OnboardingReport
  BY DEF OnboardingReport, OnboardingRequest, IsFileUpdate
<1>3. DoneIn(o, gscSites', bingSites', properties') /\ o.stage # "idle"
  BY DoneStays, NoSiteAssumption
  DEF OnboardingInv, OnboardingTyped, RequestsTrue, OnboardingRequest, IsFileUpdate,
      OnboardingSteps
<1>4. /\ value.stage = "ended" /\ value.report = report /\ value.done = o.done
      /\ value.google = o.google /\ value.bing = o.bing /\ value.site = o.site
      /\ value.property = o.property
  OBVIOUS
<1> HIDE DEF value
<1>5. DoneIn(value, gscSites', bingSites', properties')
  BY <1>3, <1>4 DEF DoneIn
<1>6. LeadsTo(c, value)
  BY <1>1, <1>2, <1>4, <1>5 DEF LeadsTo, IsOnboarding, StagesBehind, MatchesIn
<1>7. QED
  BY <1>4, <1>6 DEF Over

LEMMA FailureEnds ==
    ASSUME OnboardingInv, Grow, NEW c \in Callers,
           onboarding[c] \in OnboardingRequest \/ IsFileUpdate(onboarding[c]),
           FailOnboarding(c)
    PROVE  Over(c)
BY PlainErrorEnds, EndOnboardingEnds DEF FailOnboarding

(* How a request goes on. *)
LEMMA StageLeads ==
    ASSUME OnboardingInv, Grow, NEW c \in Callers, onboarding[c] \in OnboardingRequest,
           NEW stage \in OnboardingSteps \ {"inventory", "streams"},
           NEW done \in SUBSET OnboardingStages, NEW property \in Nat,
           NEW value, value = [onboarding[c] EXCEPT !.stage = stage, !.done = done,
                                                    !.property = property],
           onboarding' = [onboarding EXCEPT ![c] = value],
           StagesBehind(value),
           DoneIn(value, gscSites', bingSites', properties')
    PROVE  LeadsTo(c, value) /\ value.stage = stage
<1>1. value \in OnboardingRequest /\ value.stage = stage
  BY DEF OnboardingRequest
<1>2. QED
  BY <1>1 DEF LeadsTo, IsOnboarding, MatchesIn

LEMMA AdvanceLeads ==
    ASSUME OnboardingInv, NEW c \in Callers, onboarding[c] \in OnboardingRequest,
           NEW stage \in OnboardingSteps \ {"inventory", "streams", "createStream"},
           Advance(c, stage),
           stage = "createProperty" => onboarding[c].stage = "streams",
           stage = "gscAdd" => onboarding[c].stage = "gscList",
           stage = "bingAdd" => onboarding[c].stage = "bingList",
           stage \in {"createProperty", "gscAdd", "bingAdd"},
           UNCHANGED <<properties, lateStreams, gscSites, bingSites>>
    PROVE  \E value : Quiet(c, value)
<1> DEFINE o == onboarding[c]
           value == [o EXCEPT !.stage = stage, !.done = o.done, !.property = o.property]
<1>1. Grow
  BY DEF Grow, PropertiesGrow
<1>2. /\ value.stage = stage /\ value.done = o.done /\ value.property = o.property
      /\ value.google = o.google /\ value.bing = o.bing /\ value.site = o.site
      /\ o.done \in SUBSET OnboardingStages /\ o.property \in Nat
  BY DEF OnboardingRequest
<1>3. onboarding' = [onboarding EXCEPT ![c] = value]
  BY DEF Advance, OnboardingInv, OnboardingTyped, OnboardingRequest
<1>4. DoneIn(o, gscSites, bingSites, properties) /\ StagesBehind(o) /\ o.stage # "idle"
  BY DEF OnboardingInv, RequestsTrue, OnboardingRequest, OnboardingSteps
<1> HIDE DEF value
<1>5. StagesBehind(value)
  BY <1>2, <1>4 DEF StagesBehind
<1>6. DoneIn(value, gscSites', bingSites', properties')
  BY <1>2, <1>4 DEF DoneIn
<1>7. LeadsTo(c, value)
  BY <1>1, <1>2, <1>3, <1>5, <1>6, StageLeads DEF value
<1>8. QED
  BY <1>2, <1>7 DEF Quiet

(* A stage is done: what it stands for holds at the provider. *)
LEMMA CompleteLeads ==
    ASSUME OnboardingInv, Grow, NEW c \in Callers, onboarding[c] \in OnboardingRequest,
           NEW name, NEW stage, Complete(c, name, stage),
           \/ /\ name = "google_analytics" /\ stage = "gscList"
              /\ onboarding[c].property \in DOMAIN properties'
              /\ properties'[onboarding[c].property] =
                    [owner |-> onboarding[c].google, stream |-> onboarding[c].site]
           \/ /\ name = "google_search_console" /\ stage = "bingList"
              /\ onboarding[c].stage \in {"gscList", "gscAdd"}
              /\ <<onboarding[c].google, onboarding[c].site>> \in gscSites'
           \/ /\ name = "bing" /\ stage = "readFile"
              /\ onboarding[c].stage \in {"bingList", "bingAdd"}
              /\ <<onboarding[c].bing, onboarding[c].site>> \in bingSites'
    PROVE  \E value : LeadsTo(c, value) /\ value.stage = stage
<1> DEFINE o == onboarding[c]
           done == o.done \cup {name}
           value == [o EXCEPT !.stage = stage, !.done = done, !.property = o.property]
<1>1. /\ value.stage = stage /\ value.done = done /\ value.property = o.property
      /\ value.google = o.google /\ value.bing = o.bing /\ value.site = o.site
      /\ done \in SUBSET OnboardingStages /\ o.property \in Nat
      /\ o.done \in SUBSET OnboardingStages
  BY DEF OnboardingRequest, OnboardingStages
<1>2. stage \in OnboardingSteps \ {"inventory", "streams"}
  BY DEF OnboardingSteps
<1>3. onboarding' = [onboarding EXCEPT ![c] = value]
  BY DEF Complete, OnboardingInv, OnboardingTyped, OnboardingRequest
<1>4. /\ DoneIn(o, gscSites', bingSites', properties') /\ StagesBehind(o)
      /\ o.stage # "idle"
  BY DoneStays, NoSiteAssumption
  DEF OnboardingInv, OnboardingTyped, RequestsTrue, OnboardingRequest, OnboardingSteps
<1> HIDE DEF value
<1>5. StagesBehind(value)
  BY <1>1, <1>4 DEF StagesBehind, OnboardingStages
<1>6. DoneIn(value, gscSites', bingSites', properties')
  BY <1>1, <1>4 DEF DoneIn
<1>7. LeadsTo(c, value) /\ value.stage = stage
  BY <1>1, <1>2, <1>3, <1>5, <1>6, StageLeads DEF value
<1>8. QED
  BY <1>7

LEMMA OverIsQuiet ==
    ASSUME NEW c, Over(c), UNCHANGED <<properties, lateStreams>>,
           gscSites \subseteq gscSites', bingSites \subseteq bingSites'
    PROVE  \E value : Quiet(c, value)
BY DEF Over, Quiet

LEMMA SameProvidersGrow ==
    ASSUME UNCHANGED properties, gscSites \subseteq gscSites', bingSites \subseteq bingSites'
    PROVE  Grow
BY DEF Grow, PropertiesGrow

LEMMA BeginsQuietly ==
    ASSUME OnboardingInv, policy \subseteq AccountIds, NEW c \in Callers, NEW site \in Sites,
           NEW asked, BeginOnboarding(c, site, asked), UNCHANGED bingSites
    PROVE  \E value : Quiet(c, value)
<1>1. PICK google \in Selectable("google", asked), bing \in Selectable("bing", "automatic") :
         onboarding' = [onboarding EXCEPT ![c] =
            [stage |-> "inventory", site |-> site, google |-> google, bing |-> bing,
             todo |-> {}, matches |-> {}, property |-> 0, done |-> {}]]
  BY DEF BeginOnboarding
<1> DEFINE value == [stage |-> "inventory", site |-> site, google |-> google, bing |-> bing,
                     todo |-> {}, matches |-> {}, property |-> 0, done |-> {}]
<1>2. google \in AccountsAt("google") /\ bing \in AccountsAt("bing")
  BY <1>1 DEF Selectable, AccountsAt
<1>3. value \in OnboardingRequest
  BY <1>2 DEF OnboardingRequest, OnboardingSteps
<1>4. value.stage = "inventory" /\ value.done = {} /\ value.todo = {} /\ value.matches = {}
  OBVIOUS
<1>5. UNCHANGED <<properties, lateStreams, gscSites, bingSites>>
  BY DEF BeginOnboarding
<1> HIDE DEF value
<1>6. LeadsTo(c, value)
  BY <1>1, <1>3, <1>4 DEF LeadsTo, IsOnboarding, DoneIn, StagesBehind, MatchesIn, value
<1>7. QED
  BY <1>4, <1>5, <1>6 DEF Quiet

(* Looking for the stream of the site. *)
LEMMA SearchLeads ==
    ASSUME OnboardingInv, NEW c \in Callers, onboarding[c] \in OnboardingRequest,
           onboarding[c].stage \in {"inventory", "streams"},
           NEW todo \in SUBSET Nat, NEW matches \in SUBSET Nat, NEW value,
           value = [onboarding[c] EXCEPT !.stage = "streams", !.todo = todo,
                                         !.matches = matches],
           onboarding' = [onboarding EXCEPT ![c] = value],
           \A i \in todo : i \in DOMAIN properties
                          /\ properties[i].owner = onboarding[c].google,
           \A i \in matches :
              /\ i \in DOMAIN properties
              /\ properties[i] = [owner |-> onboarding[c].google,
                                  stream |-> onboarding[c].site],
           UNCHANGED <<properties, lateStreams, gscSites, bingSites>>
    PROVE  Quiet(c, value)
<1> DEFINE o == onboarding[c]
<1>1. /\ value \in OnboardingRequest /\ value.stage = "streams" /\ value.todo = todo
      /\ value.matches = matches /\ value.done = o.done /\ value.property = o.property
      /\ value.google = o.google /\ value.bing = o.bing /\ value.site = o.site
  BY DEF OnboardingRequest, OnboardingSteps
<1>2. DoneIn(o, gscSites, bingSites, properties) /\ o.done = {}
  BY DEF OnboardingInv, RequestsTrue, StagesBehind
<1>3. DoneIn(value, gscSites', bingSites', properties')
  BY <1>1, <1>2 DEF DoneIn
<1>4. MatchesIn(value, properties')
  BY <1>1 DEF MatchesIn
<1>5. LeadsTo(c, value)
  BY <1>1, <1>2, <1>3, <1>4 DEF LeadsTo, IsOnboarding, StagesBehind
<1>6. QED
  BY <1>1, <1>5 DEF Quiet

LEMMA RequestAtStep ==
    ASSUME OnboardingInv, NEW c \in Callers, onboarding[c].stage \in OnboardingSteps
    PROVE  onboarding[c] \in OnboardingRequest
BY DEF OnboardingInv, OnboardingTyped, IsOnboarding, NotOnboarding, IsFileUpdate,
       OnboardingReport, OnboardingSteps

LEMMA SearchesQuietly ==
    ASSUME OnboardingInv, NEW c \in Callers, ListProperties(c) \/ ReadStreams(c),
           UNCHANGED bingSites
    PROVE  \E value : Quiet(c, value)
<1> DEFINE o == onboarding[c]
<1>1. o \in OnboardingRequest /\ o.stage \in {"inventory", "streams"}
  BY RequestAtStep DEF ListProperties, ReadStreams, OnboardingSteps
<1>2. /\ o.todo \in SUBSET Nat /\ o.matches \in SUBSET Nat
      /\ onboarding = [d \in Callers |-> onboarding[d]]
      /\ MatchesIn(o, properties)
      /\ properties \in Seq(Ga4Properties)
  BY <1>1 DEF OnboardingRequest, OnboardingInv, OnboardingTyped, RequestsTrue
<1>3. UNCHANGED <<properties, lateStreams, gscSites, bingSites>>
  BY DEF ListProperties, ReadStreams
<1>4. CASE ListProperties(c)
  <2> DEFINE todo == {i \in DOMAIN properties : properties[i].owner = o.google}
             value == [o EXCEPT !.stage = "streams", !.todo = todo, !.matches = o.matches]
  <2>1. todo \in SUBSET Nat
    BY <1>2
  <2>2. onboarding' = [onboarding EXCEPT ![c] = value]
    BY <1>1, <1>2, <1>4 DEF ListProperties, OnboardingRequest
  <2>3. \A i \in todo : i \in DOMAIN properties /\ properties[i].owner = o.google
    OBVIOUS
  <2> HIDE DEF todo
  <2>4. QED
    BY <1>1, <1>2, <1>3, <2>1, <2>2, <2>3, SearchLeads DEF MatchesIn
<1>5. CASE ReadStreams(c)
  <2>1. PICK i \in o.todo : onboarding' = [onboarding EXCEPT
            ![c].todo = @ \ {i},
            ![c].matches = IF properties[i].stream = o.site THEN @ \cup {i} ELSE @]
    BY <1>5 DEF ReadStreams
  <2> DEFINE todo == o.todo \ {i}
             matches == IF properties[i].stream = o.site THEN o.matches \cup {i}
                                                        ELSE o.matches
             value == [o EXCEPT !.stage = "streams", !.todo = todo, !.matches = matches]
  <2>2. o.stage = "streams"
    BY <1>5 DEF ReadStreams
  <2>3. i \in Nat /\ todo \in SUBSET Nat /\ matches \in SUBSET Nat
    BY <1>2
  <2>4. onboarding' = [onboarding EXCEPT ![c] = value]
    BY <1>1, <1>2, <2>1, <2>2 DEF OnboardingRequest
  <2>5. i \in DOMAIN properties /\ properties[i] \in Ga4Properties
        /\ properties[i].owner = o.google
    BY <1>2, <2>2 DEF MatchesIn
  <2>6. \A j \in matches : /\ j \in DOMAIN properties
                           /\ properties[j] = [owner |-> o.google, stream |-> o.site]
    BY <1>2, <2>2, <2>5 DEF MatchesIn, Ga4Properties
  <2>7. \A j \in todo : j \in DOMAIN properties /\ properties[j].owner = o.google
    BY <1>2, <2>2 DEF MatchesIn
  <2> HIDE DEF todo, matches
  <2>8. QED
    BY <1>1, <1>3, <2>3, <2>4, <2>6, <2>7, SearchLeads
<1>6. QED
  BY <1>4, <1>5

LEMMA ResolvesQuietly ==
    ASSUME OnboardingInv, NEW c \in Callers, ResolveGa4Site(c), UNCHANGED bingSites
    PROVE  \E value : Quiet(c, value)
<1> DEFINE o == onboarding[c]
<1>1. o.stage = "streams" /\ UNCHANGED <<properties, lateStreams, gscSites, bingSites>>
  BY DEF ResolveGa4Site
<1>2. o \in OnboardingRequest /\ MatchesIn(o, properties) /\ Grow
  BY <1>1, RequestAtStep, SameProvidersGrow DEF OnboardingSteps, OnboardingInv, RequestsTrue
<1>3. CASE FailOnboarding(c)
  BY <1>1, <1>2, <1>3, FailureEnds, OverIsQuiet
<1>4. CASE Advance(c, "createProperty")
  BY <1>1, <1>2, <1>4, AdvanceLeads DEF OnboardingSteps
<1>5. CASE o.matches # {} /\ onboarding' = [onboarding EXCEPT
                        ![c].property = CHOOSE i \in o.matches : TRUE,
                        ![c].done = {"google_analytics"},
                        ![c].stage = "gscList"]
  <2>1. PICK i \in o.matches : i = CHOOSE j \in o.matches : TRUE
    BY <1>5
  <2> DEFINE done == {"google_analytics"}
             value == [o EXCEPT !.stage = "gscList", !.done = done, !.property = i]
  <2>2. onboarding' = [onboarding EXCEPT ![c] = value]
    BY <1>2, <1>5, <2>1 DEF OnboardingInv, OnboardingTyped, OnboardingRequest
  <2>3. /\ i \in Nat /\ i \in DOMAIN properties
        /\ properties[i] = [owner |-> o.google, stream |-> o.site]
    BY <1>1, <1>2, <2>1 DEF MatchesIn, OnboardingRequest
  <2>4. /\ value.stage = "gscList" /\ value.done = done /\ value.property = i
        /\ value.google = o.google /\ value.bing = o.bing /\ value.site = o.site
        /\ done \in SUBSET OnboardingStages
    BY <1>2 DEF OnboardingRequest, OnboardingStages
  <2> HIDE DEF value
  <2>5. StagesBehind(value) /\ DoneIn(value, gscSites', bingSites', properties')
    BY <1>1, <2>3, <2>4 DEF StagesBehind, DoneIn
  <2>6. LeadsTo(c, value)
    BY <1>2, <2>2, <2>3, <2>4, <2>5, StageLeads DEF value, OnboardingSteps
  <2>7. QED
    BY <1>1, <2>4, <2>6 DEF Quiet
<1>6. QED
  BY <1>3, <1>4, <1>5 DEF ResolveGa4Site

LEMMA ListsQuietly ==
    ASSUME OnboardingInv, NEW c \in Callers,
           \/ ListSearchConsole(c) \/ AddSearchConsole(c) \/ ListBing(c) \/ ReadFails(c),
           UNCHANGED bingSites
    PROVE  \E value : Quiet(c, value)
<1> DEFINE o == onboarding[c]
<1>1. o.stage \in OnboardingSteps
  BY DEF ListSearchConsole, AddSearchConsole, ListBing, ReadFails, OnboardingSteps
<1>2. o \in OnboardingRequest
  BY <1>1, RequestAtStep
<1>3. UNCHANGED <<properties, lateStreams>> /\ gscSites \subseteq gscSites'
  BY DEF ListSearchConsole, AddSearchConsole, ListBing, ReadFails
<1>4. Grow
  BY <1>3, SameProvidersGrow
<1>5. CASE FailOnboarding(c)
  BY <1>2, <1>3, <1>4, <1>5, FailureEnds, OverIsQuiet
<1>6. ASSUME NEW stage \in {"bingList", "readFile"},
             \E value : LeadsTo(c, value) /\ value.stage = stage
      PROVE  \E value : Quiet(c, value)
  <2>1. PICK value : LeadsTo(c, value) /\ value.stage = stage
    BY <1>6
  <2>2. QED
    BY <1>3, <2>1 DEF Quiet
<1>7. CASE ListSearchConsole(c)
  <2>1. o.stage = "gscList" /\ gscSites' = gscSites
    BY <1>7 DEF ListSearchConsole
  <2>2. CASE <<o.google, o.site>> \in gscSites
    <3>1. Complete(c, "google_search_console", "bingList")
      BY <1>7, <2>2 DEF ListSearchConsole
    <3>2. \E value : LeadsTo(c, value) /\ value.stage = "bingList"
      BY <1>2, <1>4, <2>1, <2>2, <3>1, CompleteLeads
    <3>3. QED
      BY <1>6, <3>2
  <2>3. CASE ~(<<o.google, o.site>> \in gscSites)
    <3>1. Advance(c, "gscAdd")
      BY <1>7, <2>3 DEF ListSearchConsole
    <3>2. QED
      BY <1>2, <1>3, <2>1, <3>1, AdvanceLeads DEF OnboardingSteps
  <2>4. QED
    BY <2>2, <2>3
<1>8. CASE AddSearchConsole(c) /\ ~FailOnboarding(c)
  <2>1. /\ Complete(c, "google_search_console", "bingList") /\ o.stage = "gscAdd"
        /\ <<o.google, o.site>> \in gscSites'
    BY <1>8 DEF AddSearchConsole, Outcomes
  <2>2. \E value : LeadsTo(c, value) /\ value.stage = "bingList"
    BY <1>2, <1>4, <2>1, CompleteLeads
  <2>3. QED
    BY <1>6, <2>2
<1>9. CASE ListBing(c)
  <2>1. CASE <<o.bing, o.site>> \in bingSites
    <3>1. Complete(c, "bing", "readFile") /\ o.stage = "bingList"
      BY <1>9, <2>1 DEF ListBing
    <3>2. \E value : LeadsTo(c, value) /\ value.stage = "readFile"
      BY <1>2, <1>4, <2>1, <3>1, CompleteLeads
    <3>3. QED
      BY <1>6, <3>2
  <2>2. CASE ~(<<o.bing, o.site>> \in bingSites)
    <3>1. Advance(c, "bingAdd") /\ o.stage = "bingList" /\ gscSites' = gscSites
      BY <1>9, <2>2 DEF ListBing
    <3>2. QED
      BY <1>2, <1>3, <3>1, AdvanceLeads DEF OnboardingSteps
  <2>3. QED
    BY <2>1, <2>2
<1>10. QED
  BY <1>5, <1>7, <1>8, <1>9 DEF ReadFails

LEMMA AddsToBingQuietly ==
    ASSUME OnboardingInv, NEW c \in Callers, AddToBing(c)
    PROVE  \E value : Quiet(c, value)
<1> DEFINE o == onboarding[c]
<1>1. o.stage = "bingAdd" /\ UNCHANGED <<properties, lateStreams, gscSites>>
  BY DEF AddToBing
<1>2. o \in OnboardingRequest
  BY <1>1, RequestAtStep DEF OnboardingSteps
<1>3. bingSites \subseteq bingSites'
  BY DEF AddToBing, AddBingSite
<1>4. Grow
  BY <1>1, <1>3, SameProvidersGrow
<1>5. CASE FailOnboarding(c)
  BY <1>1, <1>2, <1>3, <1>4, <1>5, FailureEnds, OverIsQuiet
<1>6. CASE ~FailOnboarding(c)
  <2>1. Complete(c, "bing", "readFile") /\ <<o.bing, o.site>> \in bingSites'
    BY <1>6 DEF AddToBing, AddBingSite, Outcomes
  <2>2. PICK value : LeadsTo(c, value) /\ value.stage = "readFile"
    BY <1>1, <1>2, <1>4, <2>1, CompleteLeads
  <2>3. QED
    BY <1>1, <1>3, <2>2 DEF Quiet
<1>7. QED
  BY <1>5, <1>6

LEMMA ReadsFileQuietly ==
    ASSUME OnboardingInv, NEW c \in Callers, ReadBoundaryFile(c), UNCHANGED bingSites
    PROVE  \E value : Quiet(c, value)
<1> DEFINE o == onboarding[c]
           value == [stage |-> "writeFile", site |-> o.site, google |-> o.google,
                     bing |-> o.bing, done |-> o.done, property |-> o.property,
                     copy |-> document, seen |-> replacements]
<1>1. o.stage = "readFile" /\ UNCHANGED <<properties, lateStreams, gscSites, bingSites>>
  BY DEF ReadBoundaryFile
<1>2. /\ o \in OnboardingRequest /\ Grow
      /\ DoneIn(o, gscSites, bingSites, properties) /\ StagesBehind(o)
  BY <1>1, RequestAtStep, SameProvidersGrow DEF OnboardingSteps, OnboardingInv, RequestsTrue
<1>3. CASE PlainError(c)
  BY <1>1, <1>3, PlainErrorEnds, OverIsQuiet
<1>4. CASE ~PlainError(c)
  <2>1. onboarding' = [onboarding EXCEPT ![c] = value]
    BY <1>4 DEF ReadBoundaryFile
  <2>2. IsFileUpdate(value)
    BY <1>2 DEF IsFileUpdate, OnboardingRequest
  <2>3. /\ value.stage = "writeFile" /\ value.done = o.done /\ value.property = o.property
        /\ value.google = o.google /\ value.bing = o.bing /\ value.site = o.site
        /\ value.copy = document /\ value.seen = replacements
    OBVIOUS
  <2> HIDE DEF value
  <2>4. DoneIn(value, gscSites', bingSites', properties') /\ StagesBehind(value)
    BY <1>1, <1>2, <2>3 DEF DoneIn, StagesBehind
  <2>5. LeadsTo(c, value)
    BY <2>1, <2>2, <2>3, <2>4 DEF LeadsTo, IsOnboarding, MatchesIn
  <2>6. QED
    BY <1>1, <2>3, <2>5 DEF Quiet
<1>5. QED
  BY <1>3, <1>4

(* The creation of a property and of its stream. *)
LEMMA CreatesProperty ==
    ASSUME OnboardingInv, NEW c \in Callers, CreateProperty(c), UNCHANGED bingSites
    PROVE  OnboardingInv' /\ Grow /\ OnboardingFrame
<1> DEFINE o == onboarding[c]
           n == Len(properties) + 1
           property == [owner |-> o.google, stream |-> NoSite]
           value == [o EXCEPT !.stage = "createStream", !.done = o.done, !.property = n]
<1>1. o.stage = "createProperty" /\ UNCHANGED <<lateStreams, gscSites>>
  BY DEF CreateProperty
<1>2. /\ o \in OnboardingRequest
      /\ DoneIn(o, gscSites, bingSites, properties) /\ StagesBehind(o)
      /\ properties \in Seq(Ga4Properties)
      /\ onboarding = [d \in Callers |-> onboarding[d]]
  BY <1>1, RequestAtStep DEF OnboardingSteps, OnboardingInv, OnboardingTyped, RequestsTrue
<1>3. property \in Ga4Properties /\ n \in Nat
  BY <1>2 DEF Ga4Properties, OnboardingRequest, AccountsAt
<1>4. CASE properties' = properties
  <2>1. FailOnboarding(c)
    <3>1. Len(Append(properties, property)) # Len(properties)
      BY <1>2, <1>3
    <3>2. QED
      BY <1>4, <3>1 DEF CreateProperty
  <2>2. Grow
    BY <1>1, <1>4, SameProvidersGrow
  <2>3. QED
    BY <1>1, <1>2, <1>4, <2>1, <2>2, FailureEnds, OverIsQuiet, QuietKeeps
<1>5. CASE properties' = Append(properties, property)
  <2>1. /\ properties' \in Seq(Ga4Properties) /\ DOMAIN properties' = 1..n
        /\ properties'[n] = property /\ DOMAIN properties = 1..(n - 1)
        /\ \A i \in DOMAIN properties : properties'[i] = properties[i]
    BY <1>2, <1>3, <1>5
  <2> HIDE DEF property
  <2>2. Grow
    BY <1>1, <1>3, <2>1 DEF Grow, PropertiesGrow
  <2>3. FailOnboarding(c) \/ onboarding' = [onboarding EXCEPT ![c].stage = "createStream",
                                                              ![c].property = n]
    BY DEF CreateProperty
  <2>4. PICK v : /\ LeadsTo(c, v)
                 /\ \/ v.stage \in {"idle", "ended"}
                    \/ v.stage = "createStream" /\ v.property = n /\ v.google = o.google
    <3>1. CASE FailOnboarding(c)
      BY <1>2, <2>2, <3>1, FailureEnds DEF Over
    <3>2. CASE ~FailOnboarding(c)
      <4>1. onboarding' = [onboarding EXCEPT ![c] = value]
        BY <1>2, <2>3, <3>2 DEF OnboardingRequest
      <4>2. /\ value.stage = "createStream" /\ value.done = o.done /\ value.property = n
            /\ value.google = o.google /\ value.bing = o.bing /\ value.site = o.site
            /\ o.done \in SUBSET OnboardingStages
        BY <1>2, <1>3 DEF OnboardingRequest
      <4> HIDE DEF value
      <4>3. o.done = {}
        BY <1>1, <1>2 DEF StagesBehind
      <4>4. StagesBehind(value) /\ DoneIn(value, gscSites', bingSites', properties')
        BY <4>2, <4>3 DEF StagesBehind, DoneIn
      <4>5. LeadsTo(c, value)
        BY <1>2, <1>3, <2>2, <4>1, <4>2, <4>4, StageLeads DEF value, OnboardingSteps
      <4>6. QED
        BY <4>2, <4>5
    <3>3. QED
      BY <3>1, <3>2
  <2>5. /\ OnboardingTyped' /\ RequestsTrue'
        /\ onboarding'[c] = v
        /\ \A d \in Callers : d # c => onboarding'[d] = onboarding[d]
    BY <2>2, <2>4, LeadsToTrue
  <2>6. n \notin DOMAIN properties
    BY <1>3, <2>1
  <2>7. ASSUME NEW d \in Callers, onboarding'[d].stage = "createStream"
        PROVE  LET i == onboarding'[d].property IN
               /\ i \in DOMAIN properties'
               /\ properties'[i] = [owner |-> onboarding'[d].google, stream |-> NoSite]
               /\ \A e \in Callers : onboarding'[e].stage = "createStream"
                                     /\ onboarding'[e].property = i => e = d
               /\ \A l \in lateStreams' : l.property # i
    <3>1. \A e \in Callers : e # c /\ onboarding'[e].stage = "createStream" =>
             onboarding'[e].property \in DOMAIN properties
      BY <2>5 DEF OnboardingInv, StreamsAwaited
    <3>2. \A l \in lateStreams' : l.property \in DOMAIN properties
      BY <1>1 DEF OnboardingInv, StreamsAwaited
    <3>3. CASE d = c
      BY <1>3, <2>1, <2>4, <2>5, <2>6, <2>7, <3>1, <3>2, <3>3 DEF property
    <3>4. CASE d # c
      <4> DEFINE i == onboarding[d].property
      <4>1. onboarding'[d] = onboarding[d] /\ onboarding[d].stage = "createStream"
        BY <2>5, <2>7, <3>4
      <4>2. /\ i \in DOMAIN properties
            /\ properties[i] = [owner |-> onboarding[d].google, stream |-> NoSite]
            /\ \A l \in lateStreams : l.property # i
        BY <4>1 DEF OnboardingInv, StreamsAwaited
      <4>3. ASSUME NEW e \in Callers, onboarding'[e].stage = "createStream",
                   onboarding'[e].property = i
            PROVE  e = d
        <5>1. CASE e = c
          BY <2>4, <2>5, <2>6, <4>2, <4>3, <5>1
        <5>2. CASE e # c
          <6>1. onboarding'[e] = onboarding[e]
            BY <2>5, <5>2
          <6>2. onboarding[e].stage = "createStream" /\ onboarding[e].property = i
            BY <4>3, <6>1
          <6>3. QED
            BY <4>1, <6>2 DEF OnboardingInv, StreamsAwaited
        <5>3. QED
          BY <5>1, <5>2
      <4>4. i \in DOMAIN properties' /\ properties'[i] = properties[i]
        BY <1>3, <2>1, <4>2
      <4>5. QED
        BY <1>1, <4>1, <4>2, <4>3, <4>4
    <3>5. QED
      BY <3>3, <3>4
  <2>8. \A l \in lateStreams' :
          /\ l.property \in DOMAIN properties' /\ l.site \in Sites
          /\ properties'[l.property].stream = NoSite
          /\ \A m \in lateStreams' : m.property = l.property => m = l
    BY <1>1, <2>1 DEF OnboardingInv, StreamsAwaited
  <2>9. StreamsAwaited'
    BY <2>7, <2>8 DEF StreamsAwaited
  <2>10. OnboardingFrame
    BY <2>4, <2>5 DEF OnboardingFrame
  <2>11. QED
    BY <2>1, <2>2, <2>5, <2>9, <2>10 DEF OnboardingInv
<1>6. QED
  BY <1>4, <1>5 DEF CreateProperty

(* Stream s arrives at property i, which waited for it. *)
StreamSet(i, s) == properties' = [properties EXCEPT ![i].stream = s]

LEMMA StreamSetGrows ==
    ASSUME OnboardingInv, NEW i \in DOMAIN properties, NEW s \in Sites, StreamSet(i, s),
           properties[i].stream = NoSite, UNCHANGED <<gscSites, bingSites>>
    PROVE  /\ Grow /\ properties' \in Seq(Ga4Properties)
           /\ properties'[i] = [owner |-> properties[i].owner, stream |-> s]
           /\ DOMAIN properties' = DOMAIN properties
           /\ \A j \in DOMAIN properties : j # i => properties'[j] = properties[j]
<1>1. /\ properties \in Seq(Ga4Properties) /\ properties[i] \in Ga4Properties
      /\ properties' = [properties EXCEPT ![i] = [properties[i] EXCEPT !.stream = s]]
  BY DEF OnboardingInv, StreamSet
<1> DEFINE new == [properties[i] EXCEPT !.stream = s]
<1>2. /\ new \in Ga4Properties
      /\ new = [owner |-> properties[i].owner, stream |-> s]
      /\ new.owner = properties[i].owner
  BY <1>1 DEF Ga4Properties
<1> HIDE DEF new
<1>3. /\ properties' \in Seq(Ga4Properties) /\ properties'[i] = new
      /\ DOMAIN properties' = DOMAIN properties
      /\ \A j \in DOMAIN properties : j # i => properties'[j] = properties[j]
  BY <1>1, <1>2 DEF new
<1>4. Grow
  BY <1>2, <1>3 DEF Grow, PropertiesGrow
<1>5. QED
  BY <1>2, <1>3, <1>4

LEMMA CreatesStream ==
    ASSUME OnboardingInv, NEW c \in Callers, CreateStream(c), UNCHANGED bingSites
    PROVE  OnboardingInv' /\ Grow /\ OnboardingFrame
<1> DEFINE o == onboarding[c]
           i == o.property
           late == [property |-> i, site |-> o.site]
<1>1. o.stage = "createStream" /\ UNCHANGED <<gscSites, streamsRaced>>
  BY DEF CreateStream
<1>2. /\ o \in OnboardingRequest /\ o.site \in Sites /\ o.google = o.google
      /\ properties \in Seq(Ga4Properties)
  BY <1>1, RequestAtStep DEF OnboardingSteps, OnboardingInv, OnboardingRequest
<1>3. /\ i \in DOMAIN properties
      /\ properties[i] = [owner |-> o.google, stream |-> NoSite]
      /\ \A d \in Callers : onboarding[d].stage = "createStream"
                            /\ onboarding[d].property = i => d = c
      /\ \A l \in lateStreams : l.property # i
  BY <1>1 DEF OnboardingInv, StreamsAwaited
<1>4. \/ properties' = properties /\ lateStreams' = lateStreams /\ FailOnboarding(c)
      \/ properties' = properties /\ lateStreams' = lateStreams \cup {late} /\ FailOnboarding(c)
      \/ /\ StreamSet(i, o.site) /\ lateStreams' = lateStreams
         /\ FailOnboarding(c) \/ Complete(c, "google_analytics", "gscList")
  BY DEF CreateStream, Outcomes, StreamSet
<1>5. /\ Grow /\ properties' \in Seq(Ga4Properties)
      /\ DOMAIN properties' = DOMAIN properties
      /\ \A j \in DOMAIN properties : j # i => properties'[j] = properties[j]
      /\ StreamSet(i, o.site) =>
            properties'[i] = [owner |-> o.google, stream |-> o.site]
  <2>1. CASE StreamSet(i, o.site)
    BY <1>1, <1>2, <1>3, <2>1, StreamSetGrows
  <2>2. CASE ~StreamSet(i, o.site)
    BY <1>1, <1>2, <1>4, <2>2, SameProvidersGrow
  <2>3. QED
    BY <2>1, <2>2
<1>6. PICK v : LeadsTo(c, v) /\ v.stage \in {"idle", "ended", "gscList"}
  <2>1. CASE FailOnboarding(c)
    BY <1>2, <1>5, <2>1, FailureEnds DEF Over
  <2>2. CASE ~FailOnboarding(c)
    <3>1. StreamSet(i, o.site) /\ Complete(c, "google_analytics", "gscList")
      BY <1>4, <2>2
    <3>2. /\ i \in DOMAIN properties'
          /\ properties'[i] = [owner |-> o.google, stream |-> o.site]
      BY <1>3, <1>5, <3>1
    <3>3. Grow /\ o \in OnboardingRequest
      BY <1>2, <1>5
    <3>4. \E v : LeadsTo(c, v) /\ v.stage = "gscList"
      BY <3>1, <3>2, <3>3, CompleteLeads
    <3>5. QED
      BY <3>4
  <2>3. QED
    BY <2>1, <2>2
<1>7. /\ OnboardingTyped' /\ RequestsTrue'
      /\ onboarding'[c] = v
      /\ \A d \in Callers : d # c => onboarding'[d] = onboarding[d]
  BY <1>5, <1>6, LeadsToTrue
<1>8. ASSUME NEW d \in Callers, onboarding'[d].stage = "createStream"
      PROVE  LET j == onboarding'[d].property IN
             /\ j \in DOMAIN properties'
             /\ properties'[j] = [owner |-> onboarding'[d].google, stream |-> NoSite]
             /\ \A e \in Callers : onboarding'[e].stage = "createStream"
                                   /\ onboarding'[e].property = j => e = d
             /\ \A l \in lateStreams' : l.property # j
  <2> DEFINE j == onboarding[d].property
  <2>1. d # c /\ onboarding'[d] = onboarding[d] /\ onboarding[d].stage = "createStream"
    BY <1>6, <1>7, <1>8
  <2>2. /\ j \in DOMAIN properties
        /\ properties[j] = [owner |-> onboarding[d].google, stream |-> NoSite]
        /\ \A l \in lateStreams : l.property # j
        /\ j # i
    BY <1>3, <2>1 DEF OnboardingInv, StreamsAwaited
  <2>3. \A l \in lateStreams' : l.property # j
    BY <1>4, <2>2
  <2>4. ASSUME NEW e \in Callers, onboarding'[e].stage = "createStream",
               onboarding'[e].property = j
        PROVE  e = d
    <3>1. onboarding'[e] = onboarding[e]
      BY <1>6, <1>7, <2>4
    <3>2. QED
      BY <2>1, <2>4, <3>1 DEF OnboardingInv, StreamsAwaited
  <2>5. QED
    BY <1>5, <2>1, <2>2, <2>3, <2>4
<1>9. ASSUME NEW l \in lateStreams'
      PROVE  /\ l.property \in DOMAIN properties' /\ l.site \in Sites
             /\ properties'[l.property].stream = NoSite
             /\ \A m \in lateStreams' : m.property = l.property => m = l
  <2>1. CASE l \in lateStreams
    <3>1. /\ l.property \in DOMAIN properties /\ l.site \in Sites /\ l.property # i
          /\ properties[l.property].stream = NoSite
          /\ \A m \in lateStreams : m.property = l.property => m = l
      BY <1>3, <2>1 DEF OnboardingInv, StreamsAwaited
    <3>2. QED
      BY <1>4, <1>5, <3>1
  <2>2. CASE l \notin lateStreams
    <3>1. l = late /\ properties' = properties /\ lateStreams' = lateStreams \cup {late}
      BY <1>4, <1>9, <2>2
    <3>2. QED
      BY <1>2, <1>3, <3>1
  <2>3. QED
    BY <2>1, <2>2
<1>10. StreamsAwaited'
  BY <1>8, <1>9 DEF StreamsAwaited
<1>11. OnboardingFrame
  BY <1>6, <1>7 DEF OnboardingFrame
<1>12. QED
  BY <1>5, <1>7, <1>10, <1>11 DEF OnboardingInv

(* A stream that was asked for in vain. *)
LEMMA LateStreamArrives ==
    ASSUME OnboardingInv, NEW l \in lateStreams, StreamArrives(l), UNCHANGED bingSites
    PROVE  OnboardingInv' /\ Grow /\ OnboardingFrame
<1>1. /\ onboarding' = onboarding /\ gscSites' = gscSites
      /\ lateStreams' = lateStreams \ {l} /\ StreamSet(l.property, l.site)
  BY DEF StreamArrives, StreamSet
<1>2. /\ l.property \in DOMAIN properties /\ l.site \in Sites
      /\ properties[l.property].stream = NoSite
      /\ \A m \in lateStreams : m.property = l.property => m = l
      /\ \A c \in Callers : onboarding[c].stage = "createStream" =>
            onboarding[c].property # l.property
  BY DEF OnboardingInv, StreamsAwaited
<1>3. /\ Grow /\ properties' \in Seq(Ga4Properties)
      /\ DOMAIN properties' = DOMAIN properties
      /\ \A j \in DOMAIN properties : j # l.property => properties'[j] = properties[j]
  BY <1>1, <1>2, StreamSetGrows
<1>4. OnboardingTyped' /\ RequestsTrue'
  <2>1. OnboardingTyped'
    BY <1>1 DEF OnboardingInv, OnboardingTyped
  <2>2. ASSUME NEW c \in Callers
        PROVE  /\ DoneIn(onboarding[c], gscSites', bingSites', properties')
               /\ StagesBehind(onboarding[c])
               /\ MatchesIn(onboarding[c], properties')
    BY <1>3, DoneStays, MatchesStay, NoSiteAssumption
    DEF OnboardingInv, OnboardingTyped, RequestsTrue
  <2>3. QED
    BY <1>1, <2>1, <2>2 DEF RequestsTrue
<1>5. StreamsAwaited'
  <2>1. ASSUME NEW c \in Callers, onboarding'[c].stage = "createStream"
        PROVE  LET i == onboarding'[c].property IN
               /\ i \in DOMAIN properties'
               /\ properties'[i] = [owner |-> onboarding'[c].google, stream |-> NoSite]
               /\ \A d \in Callers : onboarding'[d].stage = "createStream"
                                     /\ onboarding'[d].property = i => d = c
               /\ \A m \in lateStreams' : m.property # i
    BY <1>1, <1>2, <1>3, <2>1 DEF OnboardingInv, StreamsAwaited
  <2>2. ASSUME NEW k \in lateStreams'
        PROVE  /\ k.property \in DOMAIN properties' /\ k.site \in Sites
               /\ properties'[k.property].stream = NoSite
               /\ \A m \in lateStreams' : m.property = k.property => m = k
    <3>1. k \in lateStreams /\ k.property # l.property
      BY <1>1, <1>2
    <3>2. /\ k.property \in DOMAIN properties /\ k.site \in Sites
          /\ properties[k.property].stream = NoSite
          /\ \A m \in lateStreams : m.property = k.property => m = k
      BY <3>1 DEF OnboardingInv, StreamsAwaited
    <3>3. QED
      BY <1>1, <1>3, <3>1, <3>2
  <2>3. QED
    BY <2>1, <2>2 DEF StreamsAwaited
<1>6. OnboardingFrame
  BY <1>1 DEF OnboardingFrame
<1>7. QED
  BY <1>3, <1>4, <1>5, <1>6 DEF OnboardingInv

(* The last stage: the file is replaced or left alone, and the request is  *)
(* over.                                                                   *)
LEMMA WriteEnds ==
    ASSUME OnboardingInv, NEW c \in Callers, WriteBoundaryFile(c), UNCHANGED bingSites
    PROVE  OnboardingInv' /\ OnboardingFrame /\ onboarding'[c].stage # "writeFile"
           /\ \A d \in Callers : d # c => onboarding'[d] = onboarding[d]
<1> DEFINE o == onboarding[c]
<1>1. o.stage = "writeFile" /\ UNCHANGED <<properties, lateStreams, gscSites>>
  BY DEF WriteBoundaryFile
<1>2. IsFileUpdate(o) /\ o.done = OnboardingStages
  BY <1>1 DEF OnboardingInv, OnboardingTyped, IsOnboarding, NotOnboarding,
              OnboardingRequest, OnboardingReport, OnboardingSteps, RequestsTrue, StagesBehind
<1>3. Grow
  BY <1>1, SameProvidersGrow
<1>4. EndOnboarding(c, "receipt") \/ PlainError(c)
  BY DEF WriteBoundaryFile
<1>5. Over(c)
  BY <1>2, <1>3, <1>4, PlainErrorEnds, EndOnboardingEnds
<1>6. PICK value : LeadsTo(c, value) /\ value.stage \in {"idle", "ended"}
  BY <1>5 DEF Over
<1>7. Quiet(c, value)
  BY <1>1, <1>6 DEF Quiet
<1>8. OnboardingInv' /\ OnboardingFrame
  BY <1>7, QuietKeeps
<1>9. /\ onboarding'[c] = value
      /\ \A d \in Callers : d # c => onboarding'[d] = onboarding[d]
  BY <1>3, <1>6, LeadsToTrue
<1>10. QED
  BY <1>6, <1>8, <1>9

LEMMA WrittenDocument ==
    ASSUME OnboardingInv, NEW c \in Callers, onboarding[c].stage = "writeFile",
           Good(onboarding[c].copy),
           NEW new, new = [onboarding[c].copy EXCEPT !.accounts = UpdatedAccounts(onboarding[c])],
           ValidDocument(new)
    PROVE  Good(new) /\ Keeps(new, onboarding[c].copy)
<1> DEFINE o == onboarding[c]
<1>1. IsFileUpdate(o) /\ o.done = OnboardingStages
  BY DEF OnboardingInv, OnboardingTyped, IsOnboarding, NotOnboarding,
         OnboardingRequest, OnboardingReport, OnboardingSteps, RequestsTrue, StagesBehind
<1>2. /\ o.site \in Sites /\ o.property \in Nat
      /\ ProviderOf[o.google] = "google" /\ ProviderOf[o.bing] = "bing"
  BY <1>1 DEF IsFileUpdate, AccountsAt
<1>3. /\ <<o.google, o.site>> \in gscSites /\ <<o.bing, o.site>> \in bingSites
      /\ o.property \in DOMAIN properties
      /\ properties[o.property] = [owner |-> o.google, stream |-> o.site]
  BY <1>1 DEF OnboardingInv, RequestsTrue, DoneIn, OnboardingStages
<1>4. properties[o.property].stream # NoSite
  BY <1>2, <1>3, NoSiteAssumption
<1>5. QED
  BY <1>2, <1>3, <1>4, OnboardedDocument

LEMMA OnboardingKeeps ==
    ASSUME OnboardingInv, NEW c \in Callers, OnboardingStep(c)
    PROVE  OnboardingInv' /\ Grow /\ OnboardingFrame
<1>1. CASE ListProperties(c) \/ ReadStreams(c) \/ ResolveGa4Site(c) \/ ListSearchConsole(c)
           \/ AddSearchConsole(c) \/ ListBing(c) \/ ReadFails(c) \/ ReadBoundaryFile(c)
  <2>1. CASE UNCHANGED bingSites
    <3>1. \E value : Quiet(c, value)
      BY <1>1, <2>1, SearchesQuietly, ResolvesQuietly, ListsQuietly, ReadsFileQuietly
    <3>2. QED
      BY <3>1, QuietKeeps
  <2>2. CASE ~UNCHANGED bingSites
    BY <1>1, <2>2 DEF OnboardingStep, bingVars, AddToBing, WriteBoundaryFile,
       ListProperties, ReadStreams, ResolveGa4Site, ListSearchConsole, AddSearchConsole,
       ListBing, ReadFails, ReadBoundaryFile
  <2>3. QED
    BY <2>1, <2>2
<1>2. CASE CreateProperty(c) \/ CreateStream(c)
  <2>1. UNCHANGED bingSites
    BY <1>2 DEF OnboardingStep, bingVars, AddToBing, CreateProperty, CreateStream
  <2>2. QED
    BY <1>2, <2>1, CreatesProperty, CreatesStream
<1>3. CASE AddToBing(c)
  BY <1>3, AddsToBingQuietly, QuietKeeps
<1>4. CASE WriteBoundaryFile(c) /\ UNCHANGED bingVars
  <2>1. UNCHANGED <<properties, bingSites, gscSites>>
    BY <1>4 DEF WriteBoundaryFile, bingVars
  <2>2. QED
    BY <1>4, <2>1, WriteEnds, SameProvidersGrow
<1>5. QED
  BY <1>1, <1>2, <1>3, <1>4 DEF OnboardingStep

----------------------------------------------------------------------------
(* The composition. *)

SetupInv == EditTyped /\ FileInv /\ OnboardingInv

(* A copy that somebody holds after a step was held, or was the file. *)
CopiesKept ==
    /\ \A d \in Callers : Editing(d)' =>
          \/ Editing(d) /\ edit'[d].copy = edit[d].copy
          \/ edit'[d].copy = document
    /\ \A d \in Callers : onboarding'[d].stage = "writeFile" =>
          \/ onboarding[d].stage = "writeFile" /\ onboarding'[d].copy = onboarding[d].copy
          \/ onboarding'[d].copy = document

(* What a step makes of the invariant, of the file and of its copies. *)
StepGoal ==
    /\ SetupInv'
    /\ (\A c \in Callers : ~Stale(c)) => Keeps(document', document)
    /\ CopiesKept

LEMMA GrowIsProvidersGrow ==
    ASSUME Grow
    PROVE  ProvidersGrow
BY DEF Grow, PropertiesGrow, ProvidersGrow

(* Steps that replace nothing. *)
LEMMA QuietStep ==
    ASSUME SetupInv, EditTyped', OnboardingInv', ProvidersGrow, KeepsFile
    PROVE  StepGoal
<1>1. FileInv'
  BY KeptFile DEF SetupInv
<1>2. Keeps(document', document)
  BY KeepsItself DEF KeepsFile
<1>3. CopiesKept
  BY DEF KeepsFile, CopiesKept
<1>4. QED
  BY <1>1, <1>2, <1>3 DEF SetupInv, StepGoal

LEMMA EditIsQuiet ==
    ASSUME SetupInv, NEW c \in Callers, KeepsCopy(c),
           UNCHANGED <<fileVars, bingVars, onboardingVars>>
    PROVE  StepGoal
<1>1. /\ UNCHANGED <<document, replacements, policy>>
      /\ UNCHANGED <<bingSites, onboarding, properties, lateStreams, gscSites>>
  BY DEF fileVars, bingVars, onboardingVars
<1>2. OnboardingInv' /\ ProvidersGrow
  BY <1>1 DEF SetupInv, OnboardingInv, OnboardingTyped, RequestsTrue, StreamsAwaited,
              ProvidersGrow
<1>3. KeepsFile
  BY <1>1 DEF KeepsFile, KeepsCopy, SetupInv, FileInv, Editing
<1>4. QED
  BY <1>2, <1>3, QuietStep DEF KeepsCopy

LEMMA OnboardingIsQuiet ==
    ASSUME SetupInv, OnboardingInv', Grow, OnboardingFrame, UNCHANGED <<fileVars, setupVars>>
    PROVE  StepGoal
<1>1. UNCHANGED <<document, replacements, policy, edit, keyFile, keysMade>>
  BY DEF fileVars, setupVars
<1>2. EditTyped' /\ ProvidersGrow
  BY <1>1, GrowIsProvidersGrow DEF SetupInv, EditTyped, Editing
<1>3. KeepsFile
  BY <1>1 DEF KeepsFile, OnboardingFrame, SetupInv, FileInv, Editing
<1>4. QED
  BY <1>2, <1>3, QuietStep

LEMMA OwnershipIsQuiet ==
    ASSUME SetupInv, UNCHANGED <<fileVars, setupVars, onboardingVars>>,
           bingSites \subseteq bingSites'
    PROVE  StepGoal
<1>1. UNCHANGED <<onboarding, properties, lateStreams, gscSites>>
  BY DEF onboardingVars
<1>2. Grow /\ OnboardingFrame
  BY <1>1, SameProvidersGrow DEF OnboardingFrame
<1>3. OnboardingTyped' /\ StreamsAwaited' /\ properties' \in Seq(Ga4Properties)
  BY <1>1 DEF SetupInv, OnboardingInv, OnboardingTyped, StreamsAwaited
<1>4. RequestsTrue'
  BY <1>1, <1>2, DoneStays, MatchesStay, NoSiteAssumption
  DEF SetupInv, OnboardingInv, OnboardingTyped, RequestsTrue
<1>5. QED
  BY <1>2, <1>3, <1>4, OnboardingIsQuiet DEF OnboardingInv

(* The three replaces. *)
LEMMA ReplacingStep ==
    ASSUME SetupInv, EditTyped', OnboardingInv', NEW c \in Callers, NEW copy, NEW seen,
           FaithfulCopy(copy, seen), ~Stale(c) => seen = replacements,
           NEW new, Good(new) /\ Keeps(new, copy), Replaces(new)
    PROVE  StepGoal
<1>1. FileInv'
  BY ReplacedFile DEF SetupInv
<1>2. ASSUME ~Stale(c)
      PROVE  Keeps(document', document)
  BY <1>2 DEF FaithfulCopy, Replaces, ReplaceFile
<1>3. CopiesKept
  BY DEF Replaces, CopiesKept
<1>4. QED
  BY <1>1, <1>2, <1>3 DEF SetupInv, StepGoal

LEMMA GuidedWriteStep ==
    ASSUME SetupInv, NEW c \in Callers, GuidedWrite(c),
           UNCHANGED <<bingVars, onboardingVars>>
    PROVE  StepGoal
<1> DEFINE e == edit[c]
           new == [accounts |-> MergeAccounts(e.copy, e.configured, e.keyed),
                   targets |-> e.copy.targets]
<1>1. /\ e.stage = "prompts" /\ Stop(c) /\ UNCHANGED <<policy, keyFile, keysMade>>
      /\ IF ValidDocument(new) THEN ReplaceFile(new) ELSE UNCHANGED <<document, replacements>>
  BY DEF GuidedWrite
<1>2. UNCHANGED <<onboarding, properties, lateStreams, gscSites, bingSites>>
  BY DEF bingVars, onboardingVars
<1>3. KeepsCopy(c) /\ ~Editing(c)'
  BY <1>1, StopKeeps DEF SetupInv, EditTyped
<1>4. CASE ~ValidDocument(new)
  BY <1>1, <1>3, <1>4, EditIsQuiet DEF fileVars
<1>5. CASE ValidDocument(new)
  <2>1. Editing(c) /\ IsGuided(e)
    BY <1>1 DEF SetupInv, EditTyped, Editing, IsInitialization
  <2>2. /\ FaithfulCopy(e.copy, e.seen) /\ Good(e.copy)
        /\ e.configured \in SUBSET Providers
    BY <2>1 DEF SetupInv, FileInv, FaithfulCopy, IsGuided
  <2>3. Good(new) /\ Keeps(new, e.copy)
    BY <1>5, <2>2, MergedDocument
  <2> HIDE DEF new
  <2>4. Replaces(new)
    BY <1>1, <1>2, <1>3, <1>5 DEF Replaces, KeepsCopy, Editing
  <2>5. ~Stale(c) => e.seen = replacements
    BY <1>1 DEF Stale
  <2>6. OnboardingInv' /\ EditTyped'
    BY <1>2, <1>3 DEF SetupInv, OnboardingInv, OnboardingTyped, RequestsTrue,
                      StreamsAwaited, KeepsCopy
  <2>7. QED
    BY <2>2, <2>3, <2>4, <2>5, <2>6, ReplacingStep
<1>6. QED
  BY <1>4, <1>5

LEMMA ConfigureTargetStep ==
    ASSUME SetupInv, NEW c \in Callers, ConfigureTarget(c),
           UNCHANGED <<bingVars, onboardingVars>>
    PROVE  StepGoal
<1> DEFINE e == edit[c]
           target == ExactTarget(c)
           new == [e.copy EXCEPT !.targets = e.copy.targets \cup {target}]
<1>1. /\ e.stage = "configure" /\ Stop(c) /\ UNCHANGED <<policy, keyFile, keysMade>>
      /\ IF Conflicting(c) \subseteq {target} THEN ReplaceFile(new)
                                              ELSE UNCHANGED <<document, replacements>>
  BY DEF ConfigureTarget
<1>2. UNCHANGED <<onboarding, properties, lateStreams, gscSites, bingSites>>
  BY DEF bingVars, onboardingVars
<1>3. KeepsCopy(c) /\ ~Editing(c)'
  BY <1>1, StopKeeps DEF SetupInv, EditTyped
<1>4. CASE ~(Conflicting(c) \subseteq {target})
  BY <1>1, <1>3, <1>4, EditIsQuiet DEF fileVars
<1>5. CASE Conflicting(c) \subseteq {target}
  <2>1. Editing(c) /\ IsInitialization(e)
    BY <1>1 DEF SetupInv, EditTyped, Editing, IsGuided
  <2>2. FaithfulCopy(e.copy, e.seen) /\ Good(e.copy)
    BY <2>1 DEF SetupInv, FileInv, FaithfulCopy
  <2>3. target \in IndexNowTarget /\ target.id = e.id /\ target.host = e.host
    BY <2>1 DEF IsInitialization, ExactTarget, IndexNowTarget
  <2>4. {t \in e.copy.targets : t.id = target.id \/ t.host = target.host} \subseteq {target}
    BY <1>5, <2>3 DEF Conflicting
  <2> HIDE DEF target
  <2>5. Good(new) /\ Keeps(new, e.copy)
    BY <2>2, <2>3, <2>4, TargetedDocument
  <2> HIDE DEF new
  <2>6. Replaces(new)
    BY <1>1, <1>2, <1>3, <1>5 DEF Replaces, KeepsCopy, Editing
  <2>7. ~Stale(c) => e.seen = replacements
    BY <1>1 DEF Stale
  <2>8. OnboardingInv' /\ EditTyped'
    BY <1>2, <1>3 DEF SetupInv, OnboardingInv, OnboardingTyped, RequestsTrue,
                      StreamsAwaited, KeepsCopy
  <2>9. QED
    BY <2>2, <2>5, <2>6, <2>7, <2>8, ReplacingStep
<1>6. QED
  BY <1>4, <1>5

LEMMA WriteStep ==
    ASSUME SetupInv, NEW c \in Callers, WriteBoundaryFile(c), UNCHANGED <<bingVars, setupVars>>
    PROVE  StepGoal
<1> DEFINE o == onboarding[c]
           new == [o.copy EXCEPT !.accounts = UpdatedAccounts(o)]
<1>1. /\ o.stage = "writeFile" /\ UNCHANGED <<policy, properties, lateStreams, gscSites>>
      /\ \/ ValidDocument(new) /\ ReplaceFile(new)
         \/ UNCHANGED <<document, replacements>>
  BY DEF WriteBoundaryFile
<1>2. UNCHANGED <<edit, keyFile, keysMade, bingSites>>
  BY DEF bingVars, setupVars
<1>3. /\ OnboardingInv' /\ OnboardingFrame /\ onboarding'[c].stage # "writeFile"
      /\ \A d \in Callers : d # c => onboarding'[d] = onboarding[d]
  BY <1>2, WriteEnds DEF SetupInv
<1>4. EditTyped'
  BY <1>2 DEF SetupInv, EditTyped, Editing
<1>5. CASE UNCHANGED <<document, replacements>>
  BY <1>1, <1>2, <1>3, <1>5, OnboardingIsQuiet, SameProvidersGrow DEF fileVars
<1>6. CASE ValidDocument(new) /\ ReplaceFile(new)
  <2>1. FaithfulCopy(o.copy, o.seen) /\ Good(o.copy)
    BY <1>1 DEF SetupInv, FileInv, FaithfulCopy
  <2>2. Good(new) /\ Keeps(new, o.copy)
    BY <1>1, <1>6, <2>1, WrittenDocument DEF SetupInv
  <2> HIDE DEF new
  <2>3. Replaces(new)
    BY <1>1, <1>2, <1>3, <1>6 DEF Replaces, Editing
  <2>4. ~Stale(c) => o.seen = replacements
    BY <1>1 DEF Stale
  <2>5. QED
    BY <1>3, <1>4, <2>1, <2>2, <2>3, <2>4, ReplacingStep
<1>7. QED
  BY <1>1, <1>5, <1>6

LEMMA DyingStep ==
    ASSUME SetupInv, NEW c \in Callers, Dies(c)
    PROVE  StepGoal
<1>1. /\ UNCHANGED <<document, replacements, policy, keyFile, keysMade, bingSites>>
      /\ UNCHANGED <<properties, lateStreams, gscSites>>
  BY DEF Dies, fileVars, bingVars
<1>2. EditTyped' /\ KeepsCopy(c)
  BY <1>1, StopKeeps DEF Dies, Stop, SetupInv, EditTyped, KeepsCopy
<1>3. Grow
  BY <1>1, SameProvidersGrow
<1>4. OnboardingInv' /\ OnboardingFrame
  <2>1. CASE OnboardingActive(c)
    <3>1. PlainError(c)
      BY <2>1 DEF Dies, PlainError
    <3>2. PICK value : Quiet(c, value)
      BY <1>1, <3>1, PlainErrorEnds, OverIsQuiet
    <3>3. QED
      BY <3>2, QuietKeeps DEF SetupInv
  <2>2. CASE ~OnboardingActive(c)
    <3>1. onboarding' = onboarding
      BY <2>2 DEF Dies, SetupInv, OnboardingInv, OnboardingTyped
    <3>2. QED
      BY <1>1, <3>1 DEF SetupInv, OnboardingInv, OnboardingTyped, RequestsTrue,
                        StreamsAwaited, OnboardingFrame
  <2>3. QED
    BY <2>1, <2>2
<1>5. KeepsFile
  BY <1>1, <1>2, <1>4 DEF KeepsFile, KeepsCopy, OnboardingFrame, SetupInv, FileInv, Editing
<1>6. QED
  BY <1>2, <1>3, <1>4, <1>5, GrowIsProvidersGrow, QuietStep

LEMMA RestartStep ==
    ASSUME SetupInv, Restart
    PROVE  StepGoal
<1>1. /\ UNCHANGED <<document, replacements, edit, keyFile, keysMade, bingSites>>
      /\ UNCHANGED <<onboarding, properties, lateStreams, gscSites>>
      /\ policy' = DOMAIN document.accounts
  BY DEF Restart, LoadPolicy, setupVars, bingVars, onboardingVars
<1>2. policy' \subseteq AccountIds
  BY <1>1 DEF SetupInv, FileInv, Good, GoodIn, IsDocument, AreAccounts
<1>3. EditTyped' /\ OnboardingInv'
  BY <1>1 DEF SetupInv, EditTyped, Editing, OnboardingInv, OnboardingTyped, RequestsTrue,
              StreamsAwaited
<1>4. KeepsFile /\ ProvidersGrow
  BY <1>1, <1>2 DEF KeepsFile, Editing, ProvidersGrow
<1>5. QED
  BY <1>3, <1>4, QuietStep

LEMMA InitSetup ==
    ASSUME Init
    PROVE  SetupInv
<1>1. PICK initial \in InitialStates :
         /\ document = [accounts |-> initial.accounts, targets |-> {}]
         /\ policy = DOMAIN initial.accounts
  BY DEF Init
<1> DEFINE accounts == initial.accounts
<1>2. /\ AreAccounts(accounts)
      /\ \A a \in DOMAIN accounts : /\ accounts[a].sites = {}
                                    /\ accounts[a].properties = {}
                                    /\ accounts[a].pages = {}
  BY InitialStatesAssumption
<1> HIDE DEF accounts
<1>3. /\ document.accounts = accounts /\ document.targets = {}
      /\ document = [accounts |-> document.accounts, targets |-> document.targets]
  BY <1>1 DEF accounts
<1>4. Good(document)
  BY <1>2, <1>3 DEF Good, GoodIn, IsDocument, Unbroken, ResourcesUnshared, Named
<1>5. policy \subseteq AccountIds
  BY <1>1, <1>2 DEF AreAccounts, accounts
<1>6. EditTyped /\ \A c \in Callers : ~Editing(c)
  BY DEF Init, SetupInit, EditTyped, Editing, NoEdit, NoKey
<1>7. \A c \in Callers : onboarding[c] = NotOnboarding
  BY DEF Init, OnboardingInit
<1>8. FileInv
  BY <1>4, <1>5, <1>6, <1>7 DEF FileInv, Init, NotOnboarding
<1>9. OnboardingTyped /\ RequestsTrue
  BY <1>7 DEF OnboardingTyped, IsOnboarding, RequestsTrue, DoneIn, StagesBehind, MatchesIn,
              NotOnboarding, Init, OnboardingInit
<1>10. StreamsAwaited /\ properties \in Seq(Ga4Properties)
  BY <1>7 DEF StreamsAwaited, NotOnboarding, Init, OnboardingInit
<1>11. QED
  BY <1>6, <1>8, <1>9, <1>10 DEF SetupInv, OnboardingInv

LEMMA NextSetup ==
    ASSUME SetupInv, [Next]_vars
    PROVE  StepGoal
<1>1. ASSUME NEW c \in Callers, StartEdit(c)
      PROVE  StepGoal
  BY <1>1, EditsKeep, EditIsQuiet DEF StartEdit, SetupInv
<1>2. ASSUME NEW c \in Callers, StartOnboarding(c)
      PROVE  StepGoal
  <2>1. PICK site \in Sites, asked \in {"automatic"} \cup AccountIds :
           BeginOnboarding(c, site, asked)
    BY <1>2 DEF StartOnboarding
  <2>2. UNCHANGED <<fileVars, setupVars, bingSites>>
    BY <1>2 DEF StartOnboarding, bingVars
  <2>3. PICK value : Quiet(c, value)
    BY <2>1, <2>2, BeginsQuietly DEF SetupInv, FileInv
  <2>4. QED
    BY <2>2, <2>3, QuietKeeps, OnboardingIsQuiet DEF SetupInv
<1>3. ASSUME NEW c \in Callers, StartOwnership(c)
      PROVE  StepGoal
  BY <1>3, OwnershipIsQuiet DEF StartOwnership, bingVars
<1>4. ASSUME NEW c \in Callers, EditStep(c)
      PROVE  StepGoal
  <2>1. CASE GuidedWrite(c) \/ ConfigureTarget(c)
    BY <1>4, <2>1, GuidedWriteStep, ConfigureTargetStep DEF EditStep
  <2>2. CASE (StoreCredential(c) \/ LookForKey(c) \/ CreateKey(c)) /\ UNCHANGED fileVars
    BY <1>4, <2>2, EditsKeep, EditIsQuiet DEF EditStep, SetupInv
  <2>3. QED
    BY <1>4, <2>1, <2>2 DEF EditStep
<1>5. ASSUME NEW c \in Callers, OnboardingStep(c)
      PROVE  StepGoal
  <2>1. CASE WriteBoundaryFile(c) /\ UNCHANGED bingVars
    BY <1>5, <2>1, WriteStep DEF OnboardingStep
  <2>2. CASE UNCHANGED fileVars
    BY <1>5, <2>2, OnboardingKeeps, OnboardingIsQuiet DEF OnboardingStep, SetupInv
  <2>3. QED
    BY <1>5, <2>1, <2>2 DEF OnboardingStep
<1>6. ASSUME NEW c \in Callers, OwnershipStep(c)
      PROVE  StepGoal
  <2>1. bingSites \subseteq bingSites'
    BY <1>6 DEF OwnershipStep, bingVars, AddVerificationSite, AddBingSite, RedeemBing
  <2>2. QED
    BY <1>6, <2>1, OwnershipIsQuiet DEF OwnershipStep
<1>7. CASE ProviderStep
  <2>1. ASSUME NEW l \in lateStreams, StreamArrives(l),
               UNCHANGED <<fileVars, setupVars, bingVars, ownershipVars, starts>>
        PROVE  StepGoal
    BY <2>1, LateStreamArrives, OnboardingIsQuiet DEF SetupInv, bingVars
  <2>2. CASE UNCHANGED <<fileVars, setupVars, bingVars, onboardingVars>>
    BY <2>2, OwnershipIsQuiet DEF bingVars
  <2>3. QED
    BY <1>7, <2>1, <2>2 DEF ProviderStep
<1>8. CASE UNCHANGED vars
  BY <1>8, OwnershipIsQuiet DEF vars, bingVars
<1>9. QED
  BY <1>1, <1>2, <1>3, <1>4, <1>5, <1>6, <1>7, <1>8, DyingStep, RestartStep DEF Next

(* Guided setup, the IndexNow initialisation and an onboarding that do not *)
(* overlap keep whatever the boundary file said: a replace drops something *)
(* only while somebody holds a stale copy.                                 *)
THEOREM NoUpdateIsLost == Spec => UpdatesSurvive
<1>1. SetupInv /\ [Next]_vars => SetupInv'
  BY NextSetup DEF StepGoal
<1>2. SetupInv /\ [Next]_vars =>
         [(\A c \in Callers : ~Stale(c)) => Keeps(document', document)]_vars
  BY NextSetup DEF StepGoal
<1>3. QED
  BY <1>1, <1>2, InitSetup, PTL DEF Spec, UpdatesSurvive

(* A site the file records is at its provider, and a property it records   *)
(* has a stream, although the file is written last and nothing is undone.  *)
THEOREM RecordedResourcesExist == Spec => []FileNamesWhatExists
<1>1. SetupInv => FileNamesWhatExists
  BY DEF SetupInv, FileInv, Good, GoodIn, Named, FileNamesWhatExists
<1>2. SetupInv /\ [Next]_vars => SetupInv'
  BY NextSetup DEF StepGoal
<1>3. QED
  BY <1>1, <1>2, InitSetup, PTL DEF Spec

(* The file can be loaded at the next start, or a target is named like an  *)
(* account.                                                                *)
THEOREM FileStaysLoadable == Spec => []FileLoads
<1>1. SetupInv => FileLoads
  BY DEF SetupInv, FileInv, Good, GoodIn, Unbroken, ValidDocument, FileLoads
<1>2. SetupInv /\ [Next]_vars => SetupInv'
  BY NextSetup DEF StepGoal
<1>3. QED
  BY <1>1, <1>2, InitSetup, PTL DEF Spec

----------------------------------------------------------------------------
(* The IndexNow key. *)

Keyed(targets, key) == \A t \in targets : t.key = key /\ key # NoKey

(* Until two initialisations overlap before there is a key, the targets of *)
(* the file and of every copy carry the one key there is, and at most one  *)
(* caller is about to make it.                                             *)
KeysAgree ==
    /\ Keyed(document.targets, keyFile)
    /\ \A c \in Callers : Editing(c) => Keyed(edit[c].copy.targets, keyFile)
    /\ \A c \in Callers : onboarding[c].stage = "writeFile" =>
          Keyed(onboarding[c].copy.targets, keyFile)
    /\ \A c \in Callers : edit[c].stage = "configure" =>
          edit[c].key = keyFile /\ keyFile # NoKey
    /\ \A c \in Callers : edit[c].stage = "create" => keyFile = NoKey
    /\ keyFile = NoKey => \A c, d \in Callers :
          edit[c].stage \in {"look", "create"} /\ edit[d].stage \in {"look", "create"} => c = d

KeyInv == keysRaced \/ KeysAgree

(* A step that initialises nothing, apart from a finished initialisation. *)
LEMMA OtherStepsKeepKeys ==
    ASSUME KeysAgree, CopiesKept, UNCHANGED keyFile, Keyed(document'.targets, keyFile),
           \A d \in Callers : edit'[d].stage \in {"look", "create", "configure"} =>
              edit'[d].stage = edit[d].stage /\ edit'[d].key = edit[d].key
    PROVE  KeysAgree'
<1>1. Keyed(document'.targets, keyFile')
  OBVIOUS
<1>2. \A c \in Callers : Editing(c)' => Keyed(edit'[c].copy.targets, keyFile')
  BY DEF KeysAgree, CopiesKept
<1>3. \A c \in Callers : onboarding'[c].stage = "writeFile" =>
         Keyed(onboarding'[c].copy.targets, keyFile')
  BY DEF KeysAgree, CopiesKept
<1>4. QED
  BY <1>1, <1>2, <1>3 DEF KeysAgree, Editing

LEMMA EditKeepsKeys ==
    ASSUME SetupInv, KeyInv, CopiesKept, NEW c \in Callers, UNCHANGED document,
           \/ \E selected \in SUBSET AskedProviders : GuidedRead(c, selected)
           \/ \E id \in TargetIds, host \in Sites : InitializeIndexNow(c, id, host)
           \/ StoreCredential(c) \/ LookForKey(c) \/ CreateKey(c)
    PROVE  KeyInv'
<1> SUFFICES ASSUME ~keysRaced'
             PROVE  KeysAgree'
  BY DEF KeyInv
<1>1. ~keysRaced /\ KeysAgree /\ EditTyped /\ keysMade \in Nat
  <2>1. \/ UNCHANGED keysRaced
        \/ \E id \in TargetIds, host \in Sites : InitializeIndexNow(c, id, host)
    BY DEF GuidedRead, StoreCredential, LookForKey, CreateKey
  <2>2. ASSUME NEW id \in TargetIds, NEW host \in Sites, InitializeIndexNow(c, id, host)
        PROVE  ~keysRaced
    BY <2>2, Zenon DEF InitializeIndexNow
  <2>3. ~keysRaced
    BY <2>1, <2>2, Zenon
  <2>4. QED
    BY <2>3 DEF KeyInv, SetupInv, EditTyped
<1>2. CASE \/ \E selected \in SUBSET AskedProviders : GuidedRead(c, selected)
           \/ StoreCredential(c)
  <2>1. UNCHANGED keyFile /\ Keyed(document'.targets, keyFile)
    BY <1>1, <1>2 DEF GuidedRead, StoreCredential, KeysAgree
  <2>2. edit'[c].stage \in {"idle", "prompts"}
    <3>1. CASE \E selected \in SUBSET AskedProviders : GuidedRead(c, selected)
      BY <1>1, <3>1 DEF GuidedRead, EditTyped
    <3>2. CASE StoreCredential(c)
      <4>1. IsGuided(edit[c]) /\ edit[c].stage = "prompts"
        BY <1>1, <3>2 DEF StoreCredential, EditTyped, Editing, IsInitialization
      <4>2. QED
        <5>1. CASE Stop(c)
          BY <1>1, <5>1 DEF Stop, NoEdit, EditTyped
        <5>2. CASE ~Stop(c)
          <6>1. PICK keyed : edit' = [edit EXCEPT ![c].todo = Tail(@), ![c].keyed = keyed]
            BY <3>2, <5>2 DEF StoreCredential
          <6> DEFINE value == [edit[c] EXCEPT !.todo = Tail(edit[c].todo), !.keyed = keyed]
          <6>2. edit' = [edit EXCEPT ![c] = value] /\ value.stage = "prompts"
            BY <1>1, <4>1, <6>1 DEF EditTyped, IsGuided
          <6> HIDE DEF value
          <6>3. QED
            BY <1>1, <6>2, EditAt
        <5>3. QED
          BY <5>1, <5>2
    <3>3. QED
      BY <1>2, <3>1, <3>2
  <2>3. \A d \in Callers : d # c => edit'[d] = edit[d]
    BY <1>1, <1>2 DEF GuidedRead, StoreCredential, EditTyped, Stop
  <2>4. QED
    BY <1>1, <2>1, <2>2, <2>3, OtherStepsKeepKeys
<1>3. ASSUME NEW id \in TargetIds, NEW host \in Sites, InitializeIndexNow(c, id, host)
      PROVE  KeysAgree'
  <2>1. /\ edit'[c].stage = "look"
        /\ \A d \in Callers : d # c => edit'[d] = edit[d]
        /\ UNCHANGED keyFile
        /\ keyFile = NoKey => \A d \in Callers : edit[d].stage \notin {"look", "create"}
    BY <1>1, <1>3 DEF InitializeIndexNow, EditTyped
  <2>2. /\ \A d \in Callers : Editing(d)' => Keyed(edit'[d].copy.targets, keyFile')
        /\ \A d \in Callers : onboarding'[d].stage = "writeFile" =>
              Keyed(onboarding'[d].copy.targets, keyFile')
    BY <1>1, <2>1 DEF KeysAgree, CopiesKept
  <2>3. QED
    BY <1>1, <2>1, <2>2 DEF KeysAgree
<1>4. CASE LookForKey(c)
  <2>1. IsInitialization(edit[c]) /\ edit[c].stage = "look"
    BY <1>1, <1>4 DEF LookForKey, EditTyped, Editing, IsGuided
  <2>2. /\ edit'[c].stage = IF keyFile = NoKey THEN "create" ELSE "configure"
        /\ edit'[c].key = keyFile
        /\ \A d \in Callers : d # c => edit'[d] = edit[d]
        /\ UNCHANGED keyFile
    BY <1>1, <1>4, <2>1 DEF LookForKey, EditTyped, IsInitialization
  <2>3. /\ \A d \in Callers : Editing(d)' => Keyed(edit'[d].copy.targets, keyFile')
        /\ \A d \in Callers : onboarding'[d].stage = "writeFile" =>
              Keyed(onboarding'[d].copy.targets, keyFile')
    BY <1>1, <2>2 DEF KeysAgree, CopiesKept
  <2>4. QED
    BY <1>1, <2>1, <2>2, <2>3 DEF KeysAgree
<1>5. CASE CreateKey(c)
  <2>1. IsInitialization(edit[c]) /\ edit[c].stage = "create" /\ keyFile = NoKey
    BY <1>1, <1>5 DEF CreateKey, EditTyped, Editing, IsGuided, KeysAgree
  <2>2. /\ edit'[c].stage = "configure" /\ edit'[c].key = keyFile' /\ keyFile' # NoKey
        /\ \A d \in Callers : d # c => edit'[d] = edit[d]
    <3> DEFINE value == [edit[c] EXCEPT !.stage = "configure", !.key = keyFile']
    <3>1. /\ edit' = [edit EXCEPT ![c].stage = "configure", ![c].key = keyFile']
          /\ keyFile' = keysMade + 1
      BY <1>5 DEF CreateKey
    <3>2. /\ edit' = [edit EXCEPT ![c] = value]
          /\ value.stage = "configure" /\ value.key = keyFile'
      BY <1>1, <2>1, <3>1 DEF EditTyped, IsInitialization
    <3> HIDE DEF value
    <3>3. keyFile' # NoKey
      BY <1>1, <3>1 DEF NoKey
    <3>4. QED
      BY <1>1, <3>2, <3>3, EditAt
  <2>3. /\ document.targets = {}
        /\ \A d \in Callers : Editing(d) => edit[d].copy.targets = {}
        /\ \A d \in Callers : onboarding[d].stage = "writeFile" =>
              onboarding[d].copy.targets = {}
    BY <1>1, <2>1 DEF KeysAgree, Keyed
  <2>4. /\ \A d \in Callers : Editing(d)' => Keyed(edit'[d].copy.targets, keyFile')
        /\ \A d \in Callers : onboarding'[d].stage = "writeFile" =>
              Keyed(onboarding'[d].copy.targets, keyFile')
        /\ Keyed(document'.targets, keyFile')
    BY <2>3 DEF Keyed, CopiesKept
  <2>5. \A d \in Callers : d # c => edit[d].stage \notin {"look", "create", "configure"}
    BY <1>1, <2>1 DEF KeysAgree
  <2>6. QED
    BY <2>2, <2>4, <2>5 DEF KeysAgree
<1>6. QED
  BY <1>2, <1>3, <1>4, <1>5

LEMMA WritesKeepKeys ==
    ASSUME SetupInv, KeyInv, CopiesKept, NEW c \in Callers,
           \/ GuidedWrite(c) \/ ConfigureTarget(c)
           \/ WriteBoundaryFile(c) /\ UNCHANGED setupVars
    PROVE  KeyInv'
<1> SUFFICES ASSUME ~keysRaced
             PROVE  KeysAgree'
  BY DEF KeyInv, GuidedWrite, ConfigureTarget, setupVars
<1>1. KeysAgree /\ EditTyped /\ UNCHANGED keyFile
  BY DEF KeyInv, GuidedWrite, ConfigureTarget, setupVars, SetupInv
<1>2. \A d \in Callers : edit'[d].stage \in {"look", "create", "configure"} =>
         edit'[d].stage = edit[d].stage /\ edit'[d].key = edit[d].key
  BY <1>1 DEF GuidedWrite, ConfigureTarget, setupVars, EditTyped, Stop, NoEdit
<1>3. Keyed(document'.targets, keyFile)
  <2>1. CASE UNCHANGED document
    BY <1>1, <2>1 DEF KeysAgree
  <2>2. CASE GuidedWrite(c)
    <3>1. (Editing(c) /\ document'.targets = edit[c].copy.targets) \/ UNCHANGED document
      BY <2>2 DEF GuidedWrite, ReplaceFile, Editing
    <3>2. QED
      BY <1>1, <2>1, <3>1 DEF KeysAgree
  <2>3. CASE ConfigureTarget(c) /\ ~UNCHANGED document
    <3>1. /\ edit[c].stage = "configure" /\ Editing(c)
          /\ document' = [edit[c].copy EXCEPT !.targets = @ \cup {ExactTarget(c)}]
      BY <2>3 DEF ConfigureTarget, ReplaceFile, Editing
    <3>2. Keyed(edit[c].copy.targets, keyFile) /\ edit[c].key = keyFile /\ keyFile # NoKey
      BY <1>1, <3>1 DEF KeysAgree
    <3>3. IsDocument(edit[c].copy)
      BY <3>1 DEF SetupInv, FileInv, FaithfulCopy, Good, GoodIn
    <3>4. document'.targets = edit[c].copy.targets \cup {ExactTarget(c)}
      BY <3>1, <3>3 DEF IsDocument
    <3>5. QED
      BY <3>2, <3>4 DEF Keyed, ExactTarget
  <2>4. CASE WriteBoundaryFile(c) /\ ~UNCHANGED document
    <3>1. /\ onboarding[c].stage = "writeFile"
          /\ document' = [onboarding[c].copy EXCEPT
                             !.accounts = UpdatedAccounts(onboarding[c])]
      BY <2>4 DEF WriteBoundaryFile, ReplaceFile
    <3>2. IsDocument(onboarding[c].copy)
      BY <3>1 DEF SetupInv, FileInv, FaithfulCopy, Good, GoodIn
    <3>3. document'.targets = onboarding[c].copy.targets
      BY <3>1, <3>2 DEF IsDocument
    <3>4. QED
      BY <1>1, <3>1, <3>3 DEF KeysAgree
  <2>5. QED
    BY <2>1, <2>2, <2>3, <2>4
<1>4. QED
  BY <1>1, <1>2, <1>3, OtherStepsKeepKeys

LEMMA NextKeys ==
    ASSUME SetupInv, KeyInv, [Next]_vars
    PROVE  KeyInv'
<1>1. CopiesKept
  BY NextSetup DEF StepGoal
<1>2. CASE UNCHANGED <<document, setupVars>>
  <2>1. UNCHANGED <<document, edit, keyFile, keysRaced>>
    BY <1>2 DEF setupVars
  <2>2. QED
    BY <1>1, <2>1, OtherStepsKeepKeys DEF KeyInv, KeysAgree
<1>3. ASSUME NEW c \in Callers, Dies(c)
      PROVE  KeyInv'
  <2>1. UNCHANGED <<document, keyFile, keysRaced>> /\ edit' = [edit EXCEPT ![c] = NoEdit]
    BY <1>3 DEF Dies, fileVars
  <2>2. \A d \in Callers : edit'[d].stage \in {"look", "create", "configure"} =>
           edit'[d].stage = edit[d].stage /\ edit'[d].key = edit[d].key
    BY <2>1 DEF SetupInv, EditTyped, NoEdit
  <2>3. QED
    BY <1>1, <2>1, <2>2, OtherStepsKeepKeys DEF KeyInv, KeysAgree
<1>4. ASSUME NEW c \in Callers, StartEdit(c) \/ EditStep(c)
      PROVE  KeyInv'
  <2>1. CASE GuidedWrite(c) \/ ConfigureTarget(c)
    BY <1>1, <2>1, WritesKeepKeys
  <2>2. CASE ~(GuidedWrite(c) \/ ConfigureTarget(c))
    BY <1>1, <1>4, <2>2, EditKeepsKeys DEF StartEdit, EditStep, fileVars
  <2>3. QED
    BY <2>1, <2>2
<1>5. ASSUME NEW c \in Callers, OnboardingStep(c)
      PROVE  KeyInv'
  <2>1. CASE WriteBoundaryFile(c)
    BY <1>1, <1>5, <2>1, WritesKeepKeys DEF OnboardingStep
  <2>2. CASE ~WriteBoundaryFile(c)
    BY <1>2, <1>5, <2>2 DEF OnboardingStep, fileVars
  <2>3. QED
    BY <2>1, <2>2
<1>6. QED
  BY <1>2, <1>3, <1>4, <1>5
  DEF Next, vars, fileVars, StartOnboarding, StartOwnership, OwnershipStep, ProviderStep, Restart,
      LoadPolicy

(* Every target of the file carries the key of the key file, so that it    *)
(* can be verified, unless two initialisations overlapped before there was *)
(* a key.                                                                  *)
THEOREM TargetsShareTheKey == Spec => []TargetsUseTheKey
<1>1. Init => KeyInv
  BY DEF Init, SetupInit, OnboardingInit, KeyInv, KeysAgree, Keyed, Editing, NoEdit,
         NotOnboarding
<1>2. SetupInv /\ KeyInv /\ [Next]_vars => SetupInv' /\ KeyInv'
  BY NextSetup, NextKeys DEF StepGoal
<1>3. KeyInv => TargetsUseTheKey
  BY DEF KeyInv, KeysAgree, Keyed, TargetsUseTheKey
<1>4. QED
  BY <1>1, <1>2, <1>3, InitSetup, PTL DEF Spec

----------------------------------------------------------------------------
(* One stream for a site. *)

LateFor(l, a, s) == properties[l.property].owner = a /\ l.site = s

(* What a request that is deciding about a site knows of its streams. *)
Informed(o, streams) ==
    IF o.stage = "streams" THEN streams \subseteq o.todo \cup o.matches ELSE streams = {}

(* Until two decisions about a site overlap, its one stream exists, or is  *)
(* on its way after its caller has given up, or is being decided about by  *)
(* one request, which will see it if there is one.                         *)
StreamInv ==
    \A a \in AccountIds, s \in Sites : <<a, s>> \notin streamsRaced =>
        /\ \A i, j \in StreamsFor(a, s) : i = j
        /\ \A l \in lateStreams : LateFor(l, a, s) =>
              /\ StreamsFor(a, s) = {}
              /\ \A m \in lateStreams : LateFor(m, a, s) => m = l
        /\ \A c \in Callers : Deciding(c, a, s) =>
              /\ Informed(onboarding[c], StreamsFor(a, s))
              /\ \A l \in lateStreams : ~LateFor(l, a, s)
              /\ \A d \in Callers : Deciding(d, a, s) => d = c

(* The requests other than c's are as they were. *)
OthersWait(c) == \A d \in Callers : d # c => onboarding'[d] = onboarding[d]

LEMMA SomeoneElseDecides ==
    ASSUME NEW c, OthersWait(c), NEW d \in Callers, d # c, NEW a, NEW s
    PROVE  Deciding(d, a, s)' <=> Deciding(d, a, s)
BY DEF OthersWait, Deciding

(* A step of c that adds no stream, not even a late one, and after which c *)
(* decides about nothing it did not decide about before.                   *)
LEMMA SameStreamsKeep ==
    ASSUME StreamInv, NEW c \in Callers, OthersWait(c), UNCHANGED <<lateStreams, streamsRaced>>,
           \A a \in AccountIds, s \in Sites : StreamsFor(a, s)' = StreamsFor(a, s),
           \A l \in lateStreams : properties'[l.property].owner = properties[l.property].owner,
           \A a \in AccountIds, s \in Sites : Deciding(c, a, s)' =>
              /\ Deciding(c, a, s)
              /\ Informed(onboarding[c], StreamsFor(a, s)) =>
                    Informed(onboarding'[c], StreamsFor(a, s))
    PROVE  StreamInv'
<1> SUFFICES ASSUME NEW a \in AccountIds, NEW s \in Sites, <<a, s>> \notin streamsRaced
             PROVE  /\ \A i, j \in StreamsFor(a, s) : i = j
                    /\ \A l \in lateStreams : LateFor(l, a, s) =>
                          /\ StreamsFor(a, s) = {}
                          /\ \A m \in lateStreams : LateFor(m, a, s) => m = l
                    /\ \A d \in Callers : Deciding(d, a, s)' =>
                          /\ Informed(onboarding'[d], StreamsFor(a, s))
                          /\ \A l \in lateStreams : ~LateFor(l, a, s)
                          /\ \A e \in Callers : Deciding(e, a, s)' => e = d
  BY DEF StreamInv, LateFor
<1>1. \A d \in Callers : Deciding(d, a, s)' => Deciding(d, a, s)
  BY SomeoneElseDecides
<1>2. ASSUME NEW d \in Callers, Deciding(d, a, s)'
      PROVE  Informed(onboarding'[d], StreamsFor(a, s))
  BY <1>1, <1>2 DEF StreamInv, OthersWait
<1>3. QED
  BY <1>1, <1>2 DEF StreamInv

(* Stream s arrives at property i. *)
LEMMA StreamSetFor ==
    ASSUME OnboardingInv, NEW i \in DOMAIN properties, NEW s \in Sites, StreamSet(i, s),
           properties[i].stream = NoSite, UNCHANGED <<gscSites, bingSites>>
    PROVE  /\ \A a \in AccountIds, t \in Sites :
                 StreamsFor(a, t)' = IF a = properties[i].owner /\ t = s
                                       THEN StreamsFor(a, t) \cup {i} ELSE StreamsFor(a, t)
           /\ \A j \in DOMAIN properties : properties'[j].owner = properties[j].owner
<1>1. /\ properties'[i] = [owner |-> properties[i].owner, stream |-> s]
      /\ DOMAIN properties' = DOMAIN properties
      /\ \A j \in DOMAIN properties : j # i => properties'[j] = properties[j]
  BY StreamSetGrows
<1>2. \A t \in Sites : \A a : properties[i] # [owner |-> a, stream |-> t]
  BY NoSiteAssumption
<1>3. \A t \in Sites : \A a : properties'[i] = [owner |-> a, stream |-> t] <=>
                     (a = properties[i].owner /\ t = s)
  BY <1>1
<1>4. QED
  BY <1>1, <1>2, <1>3 DEF StreamsFor

LEMMA FailureStops ==
    ASSUME OnboardingTyped, NEW c \in Callers,
           FailOnboarding(c) \/ PlainError(c) \/ EndOnboarding(c, "receipt")
    PROVE  OthersWait(c) /\ \A a, s : ~Deciding(c, a, s)'
BY DEF OnboardingTyped, FailOnboarding, PlainError, EndOnboarding, NotOnboarding, OthersWait,
       Deciding

LEMMA CompletionStops ==
    ASSUME OnboardingTyped, NEW c \in Callers, onboarding[c] \in OnboardingRequest,
           NEW name, NEW stage, stage \notin {"streams", "createProperty", "createStream"},
           Complete(c, name, stage) \/ Advance(c, stage)
    PROVE  OthersWait(c) /\ \A a, s : ~Deciding(c, a, s)'
<1>1. onboarding'[c].stage = stage /\ OthersWait(c)
  BY DEF OnboardingTyped, OnboardingRequest, Complete, Advance, OthersWait
<1>2. QED
  BY <1>1 DEF Deciding

(* The creation of a stream, and its late arrival. *)
LEMMA CreateStreamKeepsOne ==
    ASSUME OnboardingInv, StreamInv, NEW c \in Callers, CreateStream(c), UNCHANGED bingSites
    PROVE  StreamInv'
<1> DEFINE o == onboarding[c]
           i == o.property
           late == [property |-> i, site |-> o.site]
<1>1. o.stage = "createStream" /\ UNCHANGED <<gscSites, streamsRaced>>
  BY DEF CreateStream
<1>2. /\ o \in OnboardingRequest /\ o.site \in Sites /\ o.google \in AccountIds
      /\ OnboardingTyped
  BY <1>1, RequestAtStep DEF OnboardingSteps, OnboardingInv, OnboardingRequest, AccountsAt
<1>3. /\ i \in DOMAIN properties
      /\ properties[i].owner = o.google /\ properties[i].stream = NoSite
  <2>1. i \in DOMAIN properties /\ properties[i] = [owner |-> o.google, stream |-> NoSite]
    BY <1>1 DEF OnboardingInv, StreamsAwaited
  <2>2. QED
    BY <2>1
<1>4. \/ properties' = properties /\ lateStreams' = lateStreams /\ FailOnboarding(c)
      \/ properties' = properties /\ lateStreams' = lateStreams \cup {late} /\ FailOnboarding(c)
      \/ /\ StreamSet(i, o.site) /\ lateStreams' = lateStreams
         /\ FailOnboarding(c) \/ Complete(c, "google_analytics", "gscList")
  BY DEF CreateStream, Outcomes, StreamSet
<1>5. OthersWait(c) /\ \A a, s : ~Deciding(c, a, s)'
  BY <1>2, <1>4, FailureStops, CompletionStops
<1>6. \A d \in Callers : \A a, s : Deciding(d, a, s)' => d # c /\ Deciding(d, a, s)
  BY <1>5, SomeoneElseDecides
<1>7. \A l \in lateStreams : l.property \in DOMAIN properties
  BY DEF OnboardingInv, StreamsAwaited
<1>8. /\ \A a \in AccountIds, s \in Sites :
            StreamsFor(a, s)' = IF StreamSet(i, o.site) /\ a = o.google /\ s = o.site
                                  THEN StreamsFor(a, s) \cup {i} ELSE StreamsFor(a, s)
      /\ \A j \in DOMAIN properties : properties'[j].owner = properties[j].owner
  <2>1. CASE StreamSet(i, o.site)
    <3>1. /\ \A a \in AccountIds, s \in Sites :
                StreamsFor(a, s)' = IF a = properties[i].owner /\ s = o.site
                                      THEN StreamsFor(a, s) \cup {i} ELSE StreamsFor(a, s)
          /\ \A j \in DOMAIN properties : properties'[j].owner = properties[j].owner
      BY <1>1, <1>2, <1>3, <2>1, StreamSetFor
    <3>2. QED
      BY <1>3, <2>1, <3>1
  <2>2. CASE ~StreamSet(i, o.site)
    <3>1. properties' = properties
      BY <1>4, <2>2
    <3>2. \A a \in AccountIds, s \in Sites : StreamsFor(a, s)' = StreamsFor(a, s)
      BY <3>1 DEF StreamsFor
    <3>3. QED
      BY <2>2, <3>1, <3>2
  <2>3. QED
    BY <2>1, <2>2
<1>9. ASSUME NEW a \in AccountIds, NEW s \in Sites, <<a, s>> \notin streamsRaced'
      PROVE  /\ \A j, k \in StreamsFor(a, s)' : j = k
             /\ \A l \in lateStreams' : LateFor(l, a, s)' =>
                   /\ StreamsFor(a, s)' = {}
                   /\ \A m \in lateStreams' : LateFor(m, a, s)' => m = l
             /\ \A d \in Callers : Deciding(d, a, s)' =>
                   /\ Informed(onboarding'[d], StreamsFor(a, s)')
                   /\ \A l \in lateStreams' : ~LateFor(l, a, s)'
                   /\ \A e \in Callers : Deciding(e, a, s)' => e = d
  <2>1. CASE a = o.google /\ s = o.site
    <3>1. Deciding(c, a, s) /\ ~(o.stage = "streams")
      BY <1>1, <2>1 DEF Deciding
    <3>2. /\ StreamsFor(a, s) = {}
          /\ \A l \in lateStreams : ~LateFor(l, a, s)
          /\ \A d \in Callers : Deciding(d, a, s) => d = c
      BY <1>1, <1>9, <3>1 DEF StreamInv, Informed
    <3>3. \A d \in Callers : ~Deciding(d, a, s)'
      BY <1>6, <3>2
    <3>4. \A l \in lateStreams : ~LateFor(l, a, s)'
      BY <1>7, <1>8, <3>2 DEF LateFor
    <3>5. CASE StreamSet(i, o.site) /\ lateStreams' = lateStreams
      BY <1>8, <2>1, <3>2, <3>3, <3>4, <3>5
    <3>6. CASE ~(StreamSet(i, o.site) /\ lateStreams' = lateStreams)
      BY <1>4, <2>1, <3>2, <3>3, <3>4, <3>6 DEF StreamsFor
    <3>7. QED
      BY <3>5, <3>6
  <2>2. CASE ~(a = o.google /\ s = o.site)
    <3>1. StreamsFor(a, s)' = StreamsFor(a, s)
      BY <1>8, <2>2
    <3>2. \A l \in lateStreams' : LateFor(l, a, s)' => l \in lateStreams /\ LateFor(l, a, s)
      BY <1>3, <1>4, <1>7, <1>8, <2>2 DEF LateFor
    <3>3. \A d \in Callers : Deciding(d, a, s)' => onboarding'[d] = onboarding[d]
      BY <1>5, <1>6 DEF OthersWait
    <3>4. QED
      BY <1>1, <1>6, <1>9, <3>1, <3>2, <3>3 DEF StreamInv
  <2>3. QED
    BY <2>1, <2>2
<1>10. QED
  BY <1>9 DEF StreamInv

LEMMA LateArrivalKeepsOne ==
    ASSUME OnboardingInv, StreamInv, NEW l \in lateStreams, StreamArrives(l), UNCHANGED bingSites
    PROVE  StreamInv'
<1> DEFINE i == l.property
           owner == properties[i].owner
<1>1. /\ onboarding' = onboarding /\ UNCHANGED <<gscSites, streamsRaced>>
      /\ lateStreams' = lateStreams \ {l} /\ StreamSet(i, l.site)
  BY DEF StreamArrives, StreamSet
<1>2. /\ i \in DOMAIN properties /\ l.site \in Sites /\ properties[i].stream = NoSite
      /\ \A m \in lateStreams : m.property \in DOMAIN properties
  BY DEF OnboardingInv, StreamsAwaited
<1>3. /\ \A a \in AccountIds, s \in Sites :
            StreamsFor(a, s)' = IF a = owner /\ s = l.site
                                  THEN StreamsFor(a, s) \cup {i} ELSE StreamsFor(a, s)
      /\ \A j \in DOMAIN properties : properties'[j].owner = properties[j].owner
  BY <1>1, <1>2, StreamSetFor
<1>4. ASSUME NEW a \in AccountIds, NEW s \in Sites, <<a, s>> \notin streamsRaced'
      PROVE  /\ \A j, k \in StreamsFor(a, s)' : j = k
             /\ \A k \in lateStreams' : LateFor(k, a, s)' =>
                   /\ StreamsFor(a, s)' = {}
                   /\ \A m \in lateStreams' : LateFor(m, a, s)' => m = k
             /\ \A d \in Callers : Deciding(d, a, s)' =>
                   /\ Informed(onboarding'[d], StreamsFor(a, s)')
                   /\ \A k \in lateStreams' : ~LateFor(k, a, s)'
                   /\ \A e \in Callers : Deciding(e, a, s)' => e = d
  <2>1. \A k \in lateStreams' : LateFor(k, a, s)' => k \in lateStreams /\ k # l /\ LateFor(k, a, s)
    BY <1>1, <1>2, <1>3 DEF LateFor
  <2>2. \A d \in Callers : Deciding(d, a, s)' <=> Deciding(d, a, s)
    BY <1>1 DEF Deciding
  <2>3. CASE a = owner /\ s = l.site
    <3>1. LateFor(l, a, s)
      BY <2>3 DEF LateFor
    <3>2. /\ StreamsFor(a, s) = {}
          /\ \A m \in lateStreams : LateFor(m, a, s) => m = l
          /\ \A d \in Callers : ~Deciding(d, a, s)
      BY <1>1, <1>4, <3>1 DEF StreamInv
    <3>3. StreamsFor(a, s)' = {i}
      BY <1>3, <2>3, <3>2
    <3>4. QED
      BY <2>1, <2>2, <3>2, <3>3
  <2>4. CASE ~(a = owner /\ s = l.site)
    <3>1. StreamsFor(a, s)' = StreamsFor(a, s)
      BY <1>3, <2>4
    <3>2. QED
      BY <1>1, <1>4, <2>1, <2>2, <3>1 DEF StreamInv
  <2>5. QED
    BY <2>3, <2>4
<1>5. QED
  BY <1>4 DEF StreamInv

(* A step after which c decides about nothing. *)
LEMMA StoppedKeepsOne ==
    ASSUME StreamInv, NEW c \in Callers, OthersWait(c), \A a, s : ~Deciding(c, a, s)',
           UNCHANGED <<properties, lateStreams, streamsRaced>>
    PROVE  StreamInv'
<1>1. \A a \in AccountIds, s \in Sites : StreamsFor(a, s)' = StreamsFor(a, s)
  BY DEF StreamsFor
<1>2. QED
  BY <1>1, SameStreamsKeep

(* The search of the streams. *)
LEMMA ListPropertiesKeepsOne ==
    ASSUME OnboardingInv, StreamInv, NEW c \in Callers, ListProperties(c)
    PROVE  StreamInv'
<1> DEFINE o == onboarding[c]
           todo == {i \in DOMAIN properties : properties[i].owner = o.google}
           value == [o EXCEPT !.stage = "streams", !.todo = todo]
<1>1. o.stage = "inventory" /\ o \in OnboardingRequest /\ OnboardingTyped
  BY RequestAtStep DEF ListProperties, OnboardingSteps, OnboardingInv
<1>2. /\ onboarding' = [onboarding EXCEPT ![c] = value]
      /\ value.stage = "streams" /\ value.todo = todo
      /\ value.google = o.google /\ value.site = o.site
  BY <1>1 DEF ListProperties, OnboardingTyped, OnboardingRequest
<1> HIDE DEF value
<1>3. onboarding'[c] = value /\ OthersWait(c) /\ UNCHANGED <<properties, lateStreams>>
  BY <1>1, <1>2 DEF OnboardingTyped, OthersWait, ListProperties
<1>4. /\ streamsRaced \subseteq streamsRaced'
      /\ <<o.google, o.site>> \notin streamsRaced' =>
            /\ \A d \in Callers : ~Deciding(d, o.google, o.site)
            /\ \A l \in lateStreams : ~LateFor(l, o.google, o.site)
  BY DEF ListProperties, LateFor
<1>5. ASSUME NEW a \in AccountIds, NEW s \in Sites, <<a, s>> \notin streamsRaced'
      PROVE  /\ \A j, k \in StreamsFor(a, s) : j = k
             /\ \A l \in lateStreams : LateFor(l, a, s) =>
                   /\ StreamsFor(a, s) = {}
                   /\ \A m \in lateStreams : LateFor(m, a, s) => m = l
             /\ \A d \in Callers : Deciding(d, a, s)' =>
                   /\ Informed(onboarding'[d], StreamsFor(a, s))
                   /\ \A l \in lateStreams : ~LateFor(l, a, s)
                   /\ \A e \in Callers : Deciding(e, a, s)' => e = d
  <2>1. <<a, s>> \notin streamsRaced
    BY <1>4, <1>5
  <2>2. \A d \in Callers : d # c => (Deciding(d, a, s)' <=> Deciding(d, a, s))
    BY <1>3, SomeoneElseDecides
  <2>3. CASE a = o.google /\ s = o.site
    <3>1. /\ \A d \in Callers : ~Deciding(d, a, s)
          /\ \A l \in lateStreams : ~LateFor(l, a, s)
      BY <1>4, <1>5, <2>3
    <3>2. Informed(onboarding'[c], StreamsFor(a, s))
      BY <1>2, <1>3, <2>3 DEF Informed, StreamsFor
    <3>3. QED
      BY <2>1, <2>2, <3>1, <3>2 DEF StreamInv
  <2>4. CASE ~(a = o.google /\ s = o.site)
    <3>1. ~Deciding(c, a, s)'
      BY <1>2, <1>3, <2>4 DEF Deciding
    <3>2. \A d \in Callers : Deciding(d, a, s)' =>
             Deciding(d, a, s) /\ onboarding'[d] = onboarding[d]
      BY <1>3, <2>2, <3>1 DEF OthersWait
    <3>3. QED
      BY <2>1, <3>2 DEF StreamInv
  <2>5. QED
    BY <2>3, <2>4
<1>6. QED
  BY <1>3, <1>5 DEF StreamInv, StreamsFor, LateFor

LEMMA ReadStreamsKeepsOne ==
    ASSUME OnboardingInv, StreamInv, NEW c \in Callers, ReadStreams(c)
    PROVE  StreamInv'
<1> DEFINE o == onboarding[c]
<1>1. o.stage = "streams" /\ o \in OnboardingRequest /\ OnboardingTyped
  BY RequestAtStep DEF ReadStreams, OnboardingSteps, OnboardingInv
<1>2. UNCHANGED <<properties, lateStreams, streamsRaced>>
  BY DEF ReadStreams
<1>3. PICK i \in o.todo : onboarding' = [onboarding EXCEPT
         ![c].todo = @ \ {i},
         ![c].matches = IF properties[i].stream = o.site THEN @ \cup {i} ELSE @]
  BY DEF ReadStreams
<1> DEFINE matches == IF properties[i].stream = o.site THEN o.matches \cup {i} ELSE o.matches
           value == [o EXCEPT !.todo = o.todo \ {i}, !.matches = matches]
<1>4. onboarding' = [onboarding EXCEPT ![c] = value]
  BY <1>1, <1>3 DEF OnboardingTyped, OnboardingRequest
<1>5. /\ value.stage = "streams" /\ value.todo = o.todo \ {i} /\ value.matches = matches
      /\ value.google = o.google /\ value.site = o.site
  BY <1>1 DEF OnboardingRequest
<1> HIDE DEF value
<1>6. onboarding'[c] = value /\ OthersWait(c)
  BY <1>1, <1>4 DEF OnboardingTyped, OthersWait
<1>7. ASSUME NEW a \in AccountIds, NEW s \in Sites, Deciding(c, a, s)'
      PROVE  /\ Deciding(c, a, s)
             /\ Informed(o, StreamsFor(a, s)) => Informed(onboarding'[c], StreamsFor(a, s))
  <2>1. a = o.google /\ s = o.site
    BY <1>5, <1>6, <1>7 DEF Deciding
  <2>2. properties[i].stream # o.site => i \notin StreamsFor(a, s)
    BY <2>1 DEF StreamsFor
  <2>3. QED
    BY <1>1, <1>5, <1>6, <2>1, <2>2 DEF Deciding, Informed
<1>8. \A a \in AccountIds, s \in Sites : StreamsFor(a, s)' = StreamsFor(a, s)
  BY <1>2 DEF StreamsFor
<1>9. QED
  BY <1>2, <1>6, <1>7, <1>8, SameStreamsKeep

LEMMA ResolveKeepsOne ==
    ASSUME OnboardingInv, StreamInv, NEW c \in Callers, ResolveGa4Site(c)
    PROVE  StreamInv'
<1> DEFINE o == onboarding[c]
<1>1. /\ o.stage = "streams" /\ o.todo = {} /\ o \in OnboardingRequest /\ OnboardingTyped
  BY RequestAtStep DEF ResolveGa4Site, OnboardingSteps, OnboardingInv
<1>2. UNCHANGED <<properties, lateStreams, streamsRaced>>
  BY DEF ResolveGa4Site
<1>3. CASE FailOnboarding(c)
  BY <1>1, <1>2, <1>3, FailureStops, StoppedKeepsOne
<1>4. CASE o.matches = {} /\ Advance(c, "createProperty")
  <2> DEFINE value == [o EXCEPT !.stage = "createProperty"]
  <2>1. /\ onboarding' = [onboarding EXCEPT ![c] = value]
        /\ value.stage = "createProperty" /\ value.google = o.google /\ value.site = o.site
    BY <1>1, <1>4 DEF Advance, OnboardingTyped, OnboardingRequest
  <2> HIDE DEF value
  <2>2. onboarding'[c] = value /\ OthersWait(c)
    BY <1>1, <2>1 DEF OnboardingTyped, OthersWait
  <2>3. \A a \in AccountIds, s \in Sites : Deciding(c, a, s)' =>
           /\ Deciding(c, a, s)
           /\ Informed(o, StreamsFor(a, s)) => Informed(onboarding'[c], StreamsFor(a, s))
    BY <1>1, <1>4, <2>1, <2>2 DEF Deciding, Informed
  <2>4. \A a \in AccountIds, s \in Sites : StreamsFor(a, s)' = StreamsFor(a, s)
    BY <1>2 DEF StreamsFor
  <2>5. QED
    BY <1>2, <2>2, <2>3, <2>4, SameStreamsKeep
<1>5. CASE \E property : onboarding' = [onboarding EXCEPT
                            ![c].property = property,
                            ![c].done = {"google_analytics"},
                            ![c].stage = "gscList"]
  <2>1. onboarding'[c].stage = "gscList" /\ OthersWait(c)
    BY <1>1, <1>5 DEF OnboardingTyped, OnboardingRequest, OthersWait
  <2>2. QED
    BY <1>2, <2>1, StoppedKeepsOne DEF Deciding
<1>6. QED
  BY <1>3, <1>4, <1>5 DEF ResolveGa4Site

LEMMA CreatePropertyKeepsOne ==
    ASSUME OnboardingInv, StreamInv, NEW c \in Callers, CreateProperty(c)
    PROVE  StreamInv'
<1> DEFINE o == onboarding[c]
           property == [owner |-> o.google, stream |-> NoSite]
<1>1. o.stage = "createProperty" /\ o \in OnboardingRequest /\ OnboardingTyped
  BY RequestAtStep DEF CreateProperty, OnboardingSteps, OnboardingInv
<1>2. UNCHANGED <<lateStreams, streamsRaced>>
  BY DEF CreateProperty
<1>3. /\ \A i \in DOMAIN properties : i \in DOMAIN properties' /\ properties'[i] = properties[i]
      /\ \A i \in DOMAIN properties' \ DOMAIN properties : properties'[i] = property
  <2>1. property \in Ga4Properties /\ properties \in Seq(Ga4Properties)
    BY <1>1 DEF Ga4Properties, OnboardingInv, OnboardingRequest, AccountsAt
  <2>2. properties' = properties \/ properties' = Append(properties, property)
    BY DEF CreateProperty
  <2> HIDE DEF property
  <2>3. QED
    BY <2>1, <2>2
<1>4. \A a \in AccountIds, s \in Sites : StreamsFor(a, s)' = StreamsFor(a, s)
  BY <1>3, NoSiteAssumption DEF StreamsFor
<1>5. \A l \in lateStreams : properties'[l.property].owner = properties[l.property].owner
  BY <1>3 DEF OnboardingInv, StreamsAwaited
<1>6. CASE FailOnboarding(c)
  BY <1>1, <1>2, <1>4, <1>5, <1>6, FailureStops, SameStreamsKeep
<1>7. CASE ~FailOnboarding(c)
  <2> DEFINE value == [o EXCEPT !.stage = "createStream", !.property = Len(properties) + 1]
  <2>1. /\ onboarding' = [onboarding EXCEPT ![c] = value]
        /\ value.stage = "createStream" /\ value.google = o.google /\ value.site = o.site
    BY <1>1, <1>7 DEF CreateProperty, OnboardingTyped, OnboardingRequest
  <2> HIDE DEF value
  <2>2. onboarding'[c] = value /\ OthersWait(c)
    BY <1>1, <2>1 DEF OnboardingTyped, OthersWait
  <2>3. \A a \in AccountIds, s \in Sites : Deciding(c, a, s)' =>
           /\ Deciding(c, a, s)
           /\ Informed(o, StreamsFor(a, s)) => Informed(onboarding'[c], StreamsFor(a, s))
    BY <1>1, <2>1, <2>2 DEF Deciding, Informed
  <2>4. QED
    BY <1>2, <1>4, <1>5, <2>2, <2>3, SameStreamsKeep
<1>8. QED
  BY <1>6, <1>7

(* The steps before and after the search and the creation. *)
LEMMA OtherStepsKeepOne ==
    ASSUME OnboardingInv, StreamInv, NEW c \in Callers,
           \/ \E site \in Sites, asked \in {"automatic"} \cup AccountIds :
                 BeginOnboarding(c, site, asked)
           \/ ListSearchConsole(c) \/ AddSearchConsole(c) \/ ListBing(c) \/ AddToBing(c)
           \/ ReadFails(c) \/ ReadBoundaryFile(c) \/ WriteBoundaryFile(c)
    PROVE  StreamInv'
<1>1. OnboardingTyped /\ UNCHANGED <<properties, lateStreams, streamsRaced>>
  BY DEF OnboardingInv, BeginOnboarding, ListSearchConsole, AddSearchConsole, ListBing,
         AddToBing, ReadFails, ReadBoundaryFile, WriteBoundaryFile
<1>2. OthersWait(c) /\ \A a, s : ~Deciding(c, a, s)'
  <2>1. CASE FailOnboarding(c) \/ PlainError(c) \/ EndOnboarding(c, "receipt")
    BY <1>1, <2>1, FailureStops
  <2>2. CASE ListSearchConsole(c) \/ AddSearchConsole(c) \/ ListBing(c) \/ AddToBing(c)
    <3>1. onboarding[c] \in OnboardingRequest
      BY <2>2, RequestAtStep DEF ListSearchConsole, AddSearchConsole, ListBing, AddToBing,
                                 OnboardingSteps
    <3>2. \/ FailOnboarding(c)
          \/ \E name, stage :
                /\ stage \notin {"streams", "createProperty", "createStream"}
                /\ Complete(c, name, stage) \/ Advance(c, stage)
      BY <2>2 DEF ListSearchConsole, AddSearchConsole, ListBing, AddToBing
    <3>3. QED
      BY <1>1, <2>1, <3>1, <3>2, CompletionStops
  <2>3. ASSUME NEW value, onboarding' = [onboarding EXCEPT ![c] = value],
               value.stage \in {"inventory", "writeFile"}
        PROVE  OthersWait(c) /\ \A a, s : ~Deciding(c, a, s)'
    BY <1>1, <2>3 DEF OnboardingTyped, OthersWait, Deciding
  <2>4. CASE ReadBoundaryFile(c)
    <3> DEFINE o == onboarding[c]
               value == [stage |-> "writeFile", site |-> o.site, google |-> o.google,
                         bing |-> o.bing, done |-> o.done, property |-> o.property,
                         copy |-> document, seen |-> replacements]
    <3>1. PlainError(c) \/ onboarding' = [onboarding EXCEPT ![c] = value]
      BY <2>4 DEF ReadBoundaryFile
    <3>2. value.stage = "writeFile"
      OBVIOUS
    <3> HIDE DEF value
    <3>3. QED
      BY <2>1, <2>3, <3>1, <3>2
  <2>5. ASSUME NEW site \in Sites, NEW asked, BeginOnboarding(c, site, asked)
        PROVE  OthersWait(c) /\ \A a, s : ~Deciding(c, a, s)'
    <3>1. PICK google, bing :
             onboarding' = [onboarding EXCEPT ![c] =
                [stage |-> "inventory", site |-> site, google |-> google, bing |-> bing,
                 todo |-> {}, matches |-> {}, property |-> 0, done |-> {}]]
      BY <2>5 DEF BeginOnboarding
    <3> DEFINE value == [stage |-> "inventory", site |-> site, google |-> google,
                         bing |-> bing, todo |-> {}, matches |-> {}, property |-> 0,
                         done |-> {}]
    <3>2. onboarding' = [onboarding EXCEPT ![c] = value] /\ value.stage = "inventory"
      BY <3>1
    <3> HIDE DEF value
    <3>3. QED
      BY <2>3, <3>2
  <2>6. QED
    BY <2>1, <2>2, <2>4, <2>5 DEF ReadFails, WriteBoundaryFile
<1>3. QED
  BY <1>1, <1>2, StoppedKeepsOne

LEMMA SameOnboardingKeepsOne ==
    ASSUME StreamInv, UNCHANGED <<onboarding, properties, lateStreams, streamsRaced>>
    PROVE  StreamInv'
<1>1. \A a, s : StreamsFor(a, s)' = StreamsFor(a, s)
  BY DEF StreamsFor
<1>2. \A l, a, s : LateFor(l, a, s)' <=> LateFor(l, a, s)
  BY DEF LateFor
<1>3. \A c, a, s : Deciding(c, a, s)' <=> Deciding(c, a, s)
  BY DEF Deciding
<1>4. QED
  BY <1>1, <1>2, <1>3 DEF StreamInv

LEMMA NextStreams ==
    ASSUME SetupInv, StreamInv, [Next]_vars
    PROVE  StreamInv'
<1>1. CASE UNCHANGED onboardingVars
  BY <1>1, SameOnboardingKeepsOne DEF onboardingVars
<1>2. ASSUME NEW c \in Callers, StartOnboarding(c)
      PROVE  StreamInv'
  BY <1>2, OtherStepsKeepOne DEF StartOnboarding, SetupInv
<1>3. ASSUME NEW c \in Callers, OnboardingStep(c)
      PROVE  StreamInv'
  <2>1. CASE CreateStream(c)
    <3>1. UNCHANGED bingSites
      BY <1>3, <2>1 DEF OnboardingStep, bingVars, CreateStream, AddToBing
    <3>2. QED
      BY <2>1, <3>1, CreateStreamKeepsOne DEF SetupInv
  <2>2. CASE ~CreateStream(c)
    BY <1>3, <2>2, ListPropertiesKeepsOne, ReadStreamsKeepsOne, ResolveKeepsOne,
       CreatePropertyKeepsOne, OtherStepsKeepOne DEF OnboardingStep, SetupInv
  <2>3. QED
    BY <2>1, <2>2
<1>4. ASSUME NEW c \in Callers, Dies(c)
      PROVE  StreamInv'
  <2>1. OnboardingTyped /\ UNCHANGED <<properties, lateStreams, streamsRaced>>
    BY <1>4 DEF Dies, SetupInv, OnboardingInv
  <2>2. CASE OnboardingActive(c)
    BY <1>4, <2>1, <2>2, FailureStops, StoppedKeepsOne DEF Dies, PlainError
  <2>3. CASE ~OnboardingActive(c)
    <3>1. onboarding' = onboarding
      BY <1>4, <2>1, <2>3 DEF Dies, OnboardingTyped
    <3>2. QED
      BY <2>1, <3>1, SameOnboardingKeepsOne
  <2>4. QED
    BY <2>2, <2>3
<1>5. CASE ProviderStep
  BY <1>1, <1>5, LateArrivalKeepsOne DEF ProviderStep, SetupInv, bingVars
<1>6. QED
  BY <1>1, <1>2, <1>3, <1>4, <1>5
  DEF Next, vars, StartEdit, StartOwnership, EditStep, OwnershipStep, Restart

(* However many onboardings die, are tried again or lose an answer, a site *)
(* has one stream in an account, unless two of them decided at once or one *)
(* decided while a creation was still on its way.                          *)
THEOREM StreamsStayUnique == Spec => []OneStreamPerSite
<1>1. Init => StreamInv
  BY DEF Init, OnboardingInit, StreamInv, StreamsFor, Deciding, NotOnboarding
<1>2. SetupInv /\ StreamInv /\ [Next]_vars => SetupInv' /\ StreamInv'
  BY NextSetup, NextStreams DEF StepGoal
<1>3. StreamInv => OneStreamPerSite
  <2> SUFFICES ASSUME StreamInv, NEW a \in AccountIds, NEW s \in Sites,
                      <<a, s>> \notin streamsRaced
               PROVE  ~(Cardinality(StreamsFor(a, s)) > 1)
    BY DEF OneStreamPerSite
  <2>1. CASE StreamsFor(a, s) = {}
    BY <2>1, FS_EmptySet
  <2>2. CASE StreamsFor(a, s) # {}
    <3>1. PICK i : StreamsFor(a, s) = {i}
      BY <2>2 DEF StreamInv
    <3>2. Cardinality({i}) = 1
      BY FS_Singleton
    <3>3. QED
      BY <3>1, <3>2
  <2>3. QED
    BY <2>1, <2>2
<1>4. QED
  BY <1>1, <1>2, <1>3, InitSetup, PTL DEF Spec

(* What a caller is told of an onboarding, in full or up to the stage that *)
(* failed, and of a verification is so at the providers and in the zone.   *)
THEOREM ReportsTellTheTruth == Spec => []ReportsAreTrue
<1>1. Init => SetupInv /\ OwnershipTyped /\ RecordInv /\ TruthInv
  BY InitSetup, InitRecords, InitTruth
<1>2. SetupInv /\ OwnershipTyped /\ RecordInv /\ TruthInv /\ [Next]_vars
        => SetupInv' /\ OwnershipTyped' /\ RecordInv' /\ TruthInv'
  BY NextSetup, NextRecords, NextTruth DEF StepGoal
<1>3. SetupInv /\ TruthInv => ReportsAreTrue
  <2> SUFFICES ASSUME SetupInv, TruthInv, NEW c \in Callers
               PROVE  /\ onboarding[c].stage = "ended" => OnboardingReportTrue(onboarding[c])
                      /\ ownership[c].stage = "ended" => OwnershipReportTrue(ownership[c])
    BY DEF ReportsAreTrue
  <2>1. DoneIn(onboarding[c], gscSites, bingSites, properties) /\ StagesBehind(onboarding[c])
    BY DEF SetupInv, OnboardingInv, RequestsTrue
  <2>2. onboarding[c].stage = "ended" => OnboardingReportTrue(onboarding[c])
    BY <2>1 DEF DoneIn, StagesBehind, OnboardingStages, OnboardingReportTrue
  <2>3. QED
    BY <2>2, ReceiptsAreTrue
<1>4. QED
  BY <1>1, <1>2, <1>3, PTL DEF Spec

=============================================================================
