---------------------------- MODULE ProviderHttp ----------------------------
(***************************************************************************)
(* What a provider client makes of one HTTP exchange.  A conduct is what   *)
(* the provider, or the network on the way to it, did with the call; each  *)
(* client turns a conduct into "OK" or into one code of                    *)
(* ProviderFailureCode.  The code is all a caller ever learns, so whether  *)
(* it may repeat a call depends on which conducts share a code.            *)
(***************************************************************************)
EXTENDS FiniteSets

(* "ok": the status and the body the client expects.  "malformed": a 2xx   *)
(* the client does not accept (wrong 2xx, bad JSON, bad shape, too long).  *)
(* "denied_in_body": a 400 whose body says that access was denied.         *)
(* "broken": the connection failed, before or after the provider acted.    *)
Conducts == {"ok", "malformed", "redirect", "bad_request", "denied_in_body",
             "unauthorized", "forbidden", "not_found", "conflict",
             "throttled", "server_error", "timed_out", "broken"}

FailureCodes == {"AUTHENTICATION", "FORBIDDEN", "RATE_LIMITED", "TIMEOUT",
                 "UNAVAILABLE", "INVALID_RESPONSE"}

(* What the provider may have done with a writing call, seen its conduct:  *)
(* it applied every call it accepts and none that it refuses; after any    *)
(* other conduct nobody on this side can tell.                             *)
MayHaveApplied(conduct) ==
    CASE conduct = "ok" -> {TRUE}
      [] conduct \in {"malformed", "server_error", "timed_out", "broken"} -> BOOLEAN
      [] OTHER -> {FALSE}

-----------------------------------------------------------------------------
(* The codes of the clients.  The common table, and the cases in which one *)
(* client differs from it.                                                 *)
UsualCode ==
    [c \in Conducts |->
        CASE c = "ok" -> "OK"
          [] c = "unauthorized" -> "AUTHENTICATION"
          [] c = "forbidden" -> "FORBIDDEN"
          [] c = "throttled" -> "RATE_LIMITED"
          [] c \in {"server_error", "broken"} -> "UNAVAILABLE"
          [] c = "timed_out" -> "TIMEOUT"
          [] OTHER -> "INVALID_RESPONSE"]

SearchConsoleCode == UsualCode
AnalyticsCode == UsualCode
AnalyticsAdminCode == UsualCode
TagManagerCode == UsualCode
PageSpeedCode == UsualCode
ClarityCode == UsualCode

(* CrUX answers 404 for a page it has no data of: an empty record.         *)
CruxCode == [UsualCode EXCEPT !["not_found"] = "OK"]

(* Bing says both "no key" and "no access" with 401 and 403.               *)
BingCode == [UsualCode EXCEPT !["forbidden"] = "AUTHENTICATION",
                              !["denied_in_body"] = "FORBIDDEN"]

CloudflareCode == UsualCode
CloudflareDnsCode == [UsualCode EXCEPT !["forbidden"] = "AUTHENTICATION"]

(* IndexNow has no 401, and every other unexpected status is one code.     *)
IndexNowCode == [UsualCode EXCEPT !["unauthorized"] = "INVALID_RESPONSE"]

(* The Lighthouse worker: 409 is "busy", any other refusal "unavailable".  *)
LighthouseCode ==
    [c \in Conducts |->
        CASE c \in {"ok", "malformed", "timed_out"} -> UsualCode[c]
          [] c = "conflict" -> "RATE_LIMITED"
          [] OTHER -> "UNAVAILABLE"]

(* A page of the configured site that cannot be fetched or is not what the *)
(* caller needs ends the request as rejected (SchemaFetchError,            *)
(* SiteFetchError, InputLimitError), not with a provider code.             *)
PageFetchCode == [c \in Conducts |-> IF c = "ok" THEN "OK" ELSE "rejected"]

(* The monitor store answers at once: done, StateConflictError or          *)
(* StateNotFoundError.                                                     *)
StoreConducts == {"ok", "conflict", "not_found"}
StoreCode == [c \in Conducts |-> IF c = "ok" THEN "OK" ELSE "rejected"]
=============================================================================
