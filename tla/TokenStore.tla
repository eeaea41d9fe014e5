------------------------------ MODULE TokenStore ------------------------------
(***************************************************************************)
(* The refresh record of one Google account: GoogleOAuthTokenStore,        *)
(* GoogleOAuthTokenClient, authorize_ and revoke_google_oauth_account      *)
(* (src/src/rankrat/providers/google_oauth.py) and the lock of             *)
(* GoogleConfiguredTokenProvider (google_search_console.py).               *)
(*                                                                         *)
(* Every service builds a token provider of its own, so one process has    *)
(* several locks for one file; auth-google and revoke-google are other     *)
(* processes.  A file is replaced as a whole, and nothing is awaited       *)
(* between an answer and the write, so a write is one step.  A record is   *)
(* its token and the spelling of its scope list: Google may list the same  *)
(* scopes in another order, and a record that differs in any way is        *)
(* written.  Tokens are numbered in the order Google issues them.          *)
(***************************************************************************)
EXTENDS Naturals

CONSTANTS
  Call,          \* requests that need an access token
  NoCall,
  Provider,      \* GoogleConfiguredTokenProvider objects for the account
  Listing,       \* spellings of the scope list
  NoRecord,
  MaxTokens,     \* bound: tokens Google issues
  MaxAuths       \* bound: runs of auth-google

ASSUME TokenAssumption ==
  /\ NoCall \notin Call
  /\ NoRecord \notin [token : 1..MaxTokens, listing : Listing]
  /\ MaxTokens \in Nat \ {0}
  /\ MaxAuths \in Nat

VARIABLES
  file,      \* the token file
  issued,    \* tokens issued so far
  valid,     \* the tokens Google accepts
  lock,      \* the call that holds each provider's lock
  at,        \* where each call is
  by,        \* the provider a call goes through
  had, got,  \* the record it loaded, and the refreshed one
  late,      \* tokens of abandoned requests Google has not seen yet
  auth,      \* auth-google: the record it is about to write
  auths,
  rev,       \* where revoke-google is
  revHad,    \* the record it loaded
  \* History, read by properties only:
  lost,      \* an issued token was never stored: its answer or its write failed
  stale,     \* a record that was replaced meanwhile was written back
  revoked,   \* Google has carried out a revocation
  gone       \* revoke-google has succeeded, and nothing was authorized since

calls == <<lock, at, by, had, got>>
google == <<issued, valid, late>>
operator == <<auth, auths, rev, revHad>>
history == <<lost, stale, revoked, gone>>
vars == <<file, google, calls, operator, history>>

Token == 1..MaxTokens
Record == [token : Token, listing : Listing]
Stored == Record \cup {NoRecord}

Init ==
  /\ \E l \in Listing : file = [token |-> 1, listing |-> l]
  /\ issued = 1 /\ valid = {1} /\ late = {}
  /\ lock = [p \in Provider |-> NoCall]
  /\ at = [c \in Call |-> "idle"]
  /\ by \in [Call -> Provider]
  /\ had = [c \in Call |-> NoRecord] /\ got = [c \in Call |-> NoRecord]
  /\ auth = NoRecord /\ auths = 0
  /\ rev = "idle" /\ revHad = NoRecord
  /\ lost = FALSE /\ stale = FALSE /\ revoked = FALSE /\ gone = FALSE

-------------------------------------------------------------------------------
(* GoogleConfiguredTokenProvider.__call__. *)

Begin(c) ==
  /\ at[c] = "idle"
  /\ at' = [at EXCEPT ![c] = "queued"]
  /\ UNCHANGED <<file, google, lock, by, had, got, operator, history>>

EndKeepingLock(c) ==                 \* mutant: a failure leaves the lock taken
  /\ at' = [at EXCEPT ![c] = "idle"]
  /\ had' = [had EXCEPT ![c] = NoRecord]
  /\ got' = [got EXCEPT ![c] = NoRecord]
  /\ lock' = IF lock[by[c]] = c /\ got[c] # NoRecord
             THEN [lock EXCEPT ![by[c]] = NoCall] ELSE lock
  /\ UNCHANGED by

(* The call returns or raises; "async with" gives the lock back. *)
End(c) ==
  /\ at' = [at EXCEPT ![c] = "idle"]
  /\ had' = [had EXCEPT ![c] = NoRecord]
  /\ got' = [got EXCEPT ![c] = NoRecord]
  /\ lock' = IF lock[by[c]] = c THEN [lock EXCEPT ![by[c]] = NoCall] ELSE lock
  /\ UNCHANGED by

(* The lock is free: load the record and post it, or fail without one. *)
Load(c) ==
  /\ at[c] = "queued" /\ lock[by[c]] = NoCall
  /\ IF file = NoRecord
     THEN End(c)
     ELSE /\ lock' = [lock EXCEPT ![by[c]] = c]
          /\ at' = [at EXCEPT ![c] = "asking"]
          /\ had' = [had EXCEPT ![c] = file]
          /\ UNCHANGED <<by, got>>
  /\ UNCHANGED <<file, google, operator, history>>

StoreScopes(c) ==                    \* mutant: only a changed scope list is written
  /\ at[c] = "answered"
  /\ file' = IF got[c].listing # had[c].listing THEN got[c] ELSE file
  /\ End(c)
  /\ UNCHANGED <<google, operator, history>>

(* A call that learns no new token has only its scope list to write, over  *)
(* a file that is not the one it loaded.                                   *)
WritesBack(c) ==
  /\ got[c] # had[c] /\ got[c].token = had[c].token
  /\ file # NoRecord /\ file.token # had[c].token

(* The answer arrived: a record that differs from the one sent is written. *)
Store(c) ==
  /\ at[c] = "answered"
  /\ file' = IF got[c] # had[c] THEN got[c] ELSE file
  /\ End(c)
  /\ stale' = (stale \/ WritesBack(c))
  /\ UNCHANGED <<google, operator, lost, revoked, gone>>

(* The write fails: the temporary file goes, the old record stays. *)
StoreFails(c) ==
  /\ at[c] = "answered" /\ got[c] # had[c]
  /\ End(c)
  /\ lost' = (lost \/ got[c].token # had[c].token)
  /\ UNCHANGED <<file, google, operator, stale, revoked, gone>>

Refused(c) ==
  /\ at[c] = "refused"
  /\ End(c)
  /\ UNCHANGED <<file, google, operator, history>>

(* A timeout, a broken connection, a cancellation, or an answer that fails *)
(* validation: what Google did with the request is not known here.         *)
GiveUp(c) ==
  /\ at[c] \in {"queued", "asking", "answered"}
  /\ End(c)
  /\ late' = IF at[c] = "asking" THEN late \cup {had[c].token} ELSE late
  /\ lost' = (lost \/ (at[c] = "answered" /\ got[c].token # had[c].token))
  /\ UNCHANGED <<file, issued, valid, operator, stale, revoked, gone>>

-------------------------------------------------------------------------------
(* Google: a refresh may rotate the token, and may end the old one then. *)

Rotate(t) ==
  /\ issued < MaxTokens
  /\ issued' = issued + 1
  /\ \E old \in {{}, {t}} : valid' = (valid \ old) \cup {issued + 1}

Grant(c) ==
  /\ at[c] = "asking" /\ had[c].token \in valid
  /\ \E l \in Listing :
       \/ /\ UNCHANGED <<issued, valid>>
          /\ got' = [got EXCEPT ![c] = [token |-> had[c].token, listing |-> l]]
       \/ /\ Rotate(had[c].token)
          /\ got' = [got EXCEPT ![c] = [token |-> issued + 1, listing |-> l]]
  /\ at' = [at EXCEPT ![c] = "answered"]
  /\ UNCHANGED <<file, late, lock, by, had, operator, history>>

(* An invalid token, a rate limit, a server error or a useless answer. *)
Deny(c) ==
  /\ at[c] = "asking"
  /\ at' = [at EXCEPT ![c] = "refused"]
  /\ UNCHANGED <<file, google, lock, by, had, got, operator, history>>

(* A request whose caller has given up arrives after all. *)
GrantLate(t) ==
  /\ t \in late
  /\ late' = late \ {t}
  /\ \/ t \in valid /\ Rotate(t) /\ lost' = TRUE
     \/ UNCHANGED <<issued, valid, lost>>
  /\ UNCHANGED <<file, calls, operator, stale, revoked, gone>>

-------------------------------------------------------------------------------
(* authorize_google_oauth_account: the code is exchanged for a new token,  *)
(* which is written whatever the file holds; or the flow ends without it.  *)
Exchange ==
  /\ auth = NoRecord /\ auths < MaxAuths /\ issued < MaxTokens
  /\ auths' = auths + 1
  /\ issued' = issued + 1 /\ valid' = valid \cup {issued + 1}
  /\ \E l \in Listing : auth' = [token |-> issued + 1, listing |-> l]
  /\ UNCHANGED <<file, late, calls, rev, revHad, history>>

WriteAuthorized ==
  /\ auth # NoRecord
  /\ file' = auth
  /\ auth' = NoRecord
  /\ gone' = FALSE
  /\ UNCHANGED <<google, calls, auths, rev, revHad, lost, stale, revoked>>

AuthorizeFails ==
  /\ auth # NoRecord
  /\ auth' = NoRecord
  /\ UNCHANGED <<file, google, calls, auths, rev, revHad, history>>

-------------------------------------------------------------------------------
(* revoke_google_oauth_account. *)
RevokeLoad ==
  /\ rev = "idle" /\ file # NoRecord
  /\ rev' = "asking" /\ revHad' = file
  /\ UNCHANGED <<file, google, calls, auth, auths, history>>

(* Google ends the token, and whatever else belongs to the same grant. *)
RevokeGrant ==
  /\ rev = "asking" /\ revHad.token \in valid
  /\ \E kept \in SUBSET (valid \ {revHad.token}) : valid' = kept
  /\ rev' = "accepted"
  /\ revoked' = TRUE
  /\ UNCHANGED <<file, issued, late, calls, auth, auths, revHad, lost, stale, gone>>

DenyAnyway ==                        \* mutant: the answer's status is not looked at
  /\ rev = "asking"
  /\ rev' = "accepted"
  /\ UNCHANGED <<file, google, calls, auth, auths, revHad, history>>

(* A dead token, or any other answer that is not 200. *)
RevokeDenied ==
  /\ rev = "asking"
  /\ rev' = "idle" /\ revHad' = NoRecord
  /\ UNCHANGED <<file, google, calls, auth, auths, history>>

(* The answer never comes, although Google may have carried it out. *)
RevokeLost ==
  /\ rev = "accepted"
  /\ rev' = "idle" /\ revHad' = NoRecord
  /\ UNCHANGED <<file, google, calls, auth, auths, history>>

(* Delete whatever is in the file, or fail because there is none. *)
RevokeDelete ==
  /\ rev = "accepted"
  /\ file' = NoRecord
  /\ gone' = (gone \/ file # NoRecord)
  /\ rev' = "idle" /\ revHad' = NoRecord
  /\ UNCHANGED <<google, calls, auth, auths, lost, stale, revoked>>

-------------------------------------------------------------------------------
CallStep(c) ==
  \/ Begin(c) \/ Load(c) \/ Store(c) \/ StoreFails(c) \/ Refused(c) \/ GiveUp(c)
  \/ Grant(c) \/ Deny(c)

OperatorStep ==
  \/ Exchange \/ WriteAuthorized \/ AuthorizeFails
  \/ RevokeLoad \/ RevokeGrant \/ RevokeDenied \/ RevokeLost \/ RevokeDelete

Next ==
  \/ \E c \in Call : CallStep(c)
  \/ \E t \in late : GrantLate(t)
  \/ OperatorStep

(* Requests have a timeout, answers are handled, and the waiters of an     *)
(* asyncio.Lock get it in the order they came.                             *)
Fairness ==
  \A c \in Call :
    /\ WF_vars(at[c] = "asking" /\ (GiveUp(c) \/ Grant(c) \/ Deny(c)))
    /\ WF_vars(Store(c) \/ StoreFails(c) \/ Refused(c))
    /\ SF_vars(Load(c))

Spec == Init /\ [][Next]_vars /\ Fairness

-------------------------------------------------------------------------------
(* Properties. *)

CallsOK ==
  /\ lock \in [Provider -> Call \cup {NoCall}]
  /\ at \in [Call -> {"idle", "queued", "asking", "answered", "refused"}]
  /\ by \in [Call -> Provider]
  /\ had \in [Call -> Stored] /\ got \in [Call -> Stored]
  /\ \A c \in Call :
       /\ at[c] \in {"asking", "answered", "refused"} <=> lock[by[c]] = c
       /\ had[c] # NoRecord <=> lock[by[c]] = c
       /\ got[c] # NoRecord <=> at[c] = "answered"

TypeOK ==
  /\ file \in Stored
  /\ issued \in Token /\ valid \subseteq 1..issued /\ late \subseteq 1..issued
  /\ CallsOK
  /\ auth \in Stored /\ auths \in 0..MaxAuths
  /\ rev \in {"idle", "asking", "accepted"} /\ revHad \in Stored
  /\ lost \in BOOLEAN /\ stale \in BOOLEAN /\ revoked \in BOOLEAN /\ gone \in BOOLEAN

Rotated(c) == at[c] = "answered" /\ got[c].token # had[c].token

(* GoogleOAuthTokenClient.refresh: "preserve it unless Google rotates it". *)
(* Every service refreshes the one file through a provider, and so a lock, *)
(* of its own.  Still, as long as every new token could be stored, nothing *)
(* was revoked and no call wrote back a record that was replaced while it  *)
(* waited, the file holds a token Google accepts, or the call that Google  *)
(* gave a new one is about to store it: calls that overlap, and answers    *)
(* that are stored in another order than they were given, lose nothing.    *)
RotationKept ==
  \/ lost \/ revoked \/ stale
  \/ file.token \in valid
  \/ \E c \in Call : Rotated(c) /\ got[c].token \in valid

(* A record disappears only after Google ended the token that revoke-google *)
(* had read: no refusal and no timeout loses a live grant.                  *)
DeletedAfterRevocation ==
  [][file # NoRecord /\ file' = NoRecord => revHad.token \notin valid]_vars

(* Every call for an access token comes back, and its provider's lock with *)
(* it, whatever Google answers.                                            *)
CallsEnd == \A c \in Call : at[c] # "idle" ~> at[c] = "idle"

(* delete: "Delete the one verified record and prove that it is gone"; and  *)
(* nothing but a new authorization brings a revoked record back.  The code  *)
(* does not have this property, and no run checks it: a refresh that loaded *)
(* the record before the revocation writes it back when it is answered.     *)
RevokedStaysGone == gone => file = NoRecord
===============================================================================
