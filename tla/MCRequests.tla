------------------------------ MODULE MCRequests ------------------------------
(* Instances for TLC of the requests of Requests and of the admission of     *)
(* IndexNow submissions.  The two share no state, so a behaviour follows one *)
(* of them and leaves the other as it was at the start.  Batches have three  *)
(* notifications, so that an answer may permute the parts in a way that is   *)
(* not its own inverse.  URLs and senders are interchangeable.               *)
EXTENDS Requests, IndexNow, TLC

AllMethods == Methods

(* The methods that post a rule where they find none. *)
Upserts == {<<"cloudflare_performance", "apply_cache_template">>,
            <<"edge_redirects", "upsert">>}

FollowRequest == Next /\ AdmissionInit /\ UNCHANGED admissionVars

FollowAdmission == AdmissionNext /\ Init /\ UNCHANGED vars

(* A submission is not admitted otherwise for another request, so that one   *)
(* request will do beside it.                                                *)
AnyRequest == wanted = <<"indexnow", "submit">> /\ writesEnabled /\ accepted = Owners(plan)

ServiceInit == Init /\ AdmissionInit

ServiceNext == FollowRequest \/ (AnyRequest /\ FollowAdmission)

ServiceSpec == ServiceInit /\ [][ServiceNext]_<<vars, admissionVars>>

Symmetry == Permutations(Url) \cup Permutations(Sender)
===============================================================================
