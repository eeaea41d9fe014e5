--------------------------- MODULE GoogleOAuth_proofs ---------------------------
(***************************************************************************)
(* Theorems about the two state machines of the Google authorization.      *)
(* TokenStore: a record is deleted only after its token was revoked, for   *)
(* any number of providers and calls, and providers that share the file    *)
(* keep a rotated token.  LoopbackReceiver: only a validated callback ends *)
(* the wait for a code, for any number of connections.                     *)
(***************************************************************************)
EXTENDS TokenStore, LoopbackReceiver, TLAPS

-------------------------------------------------------------------------------
(* Types, and that every token in use was issued before. *)

Known(n) == [token : 1..n, listing : Listing] \cup {NoRecord}

Bounded ==
  /\ file \in Known(issued) /\ auth \in Known(issued) /\ revHad \in Known(issued)
  /\ \A c \in Call : had[c] \in Known(issued) /\ got[c] \in Known(issued)

LEMMA KnownGrows ==
  ASSUME NEW m \in Nat, NEW n \in Nat, m <= n
  PROVE  Known(m) \subseteq Known(n)
  BY DEF Known

LEMMA KnownToken ==
  ASSUME NEW n \in Nat, n <= MaxTokens, NEW r \in Known(n), r # NoRecord
  PROVE  r \in Record /\ r.token \in 1..n
  BY TokenAssumption DEF Known, Record, Token

LEMMA KnownMade ==
  ASSUME NEW n \in Nat, n <= MaxTokens, NEW t \in 1..n, NEW l \in Listing
  PROVE  /\ [token |-> t, listing |-> l] \in Known(n)
         /\ [token |-> t, listing |-> l] \in Record
         /\ [token |-> t, listing |-> l] # NoRecord
  BY TokenAssumption DEF Known, Record, Token

LEMMA EndOK ==
  ASSUME TypeOK, NEW c \in Call, End(c)
  PROVE  /\ CallsOK'
         /\ \A d \in Call : d # c => /\ at'[d] = at[d]
                                     /\ had'[d] = had[d]
                                     /\ got'[d] = got[d]
         /\ at'[c] = "idle" /\ had'[c] = NoRecord /\ got'[c] = NoRecord
  BY TokenAssumption DEF TypeOK, CallsOK, End, Stored

LEMMA LoadOK ==
  ASSUME TypeOK, NEW c \in Call, Load(c)
  PROVE  TypeOK'
<1>1. CASE file = NoRecord
  BY <1>1, EndOK DEF Load, TypeOK, google, operator, history
<1>2. CASE file # NoRecord
  <2>1. CallsOK'
    BY <1>2, TokenAssumption DEF Load, TypeOK, CallsOK, Stored
  <2> QED
    BY <1>2, <2>1 DEF Load, TypeOK, google, operator, history
<1> QED
  BY <1>1, <1>2

(* What Google does to the counters, and how an answer is recorded. *)
LEMMA GrantEffect ==
  ASSUME TypeOK, Bounded, NEW c \in Call, Grant(c)
  PROVE  /\ at[c] = "asking" /\ had[c] # NoRecord /\ had[c].token \in 1..issued
         /\ issued' \in Token /\ issued <= issued' /\ valid' \subseteq 1..issued'
         /\ valid \ {had[c].token} \subseteq valid'
         /\ \E t \in 1..issued' \cap valid', l \in Listing :
              /\ got' = [got EXCEPT ![c] = [token |-> t, listing |-> l]]
              /\ t \in {had[c].token, issued + 1}
              /\ t = had[c].token => had[c].token \in valid' /\ UNCHANGED valid
<1>1. issued \in Nat /\ issued <= MaxTokens /\ issued \in 1..MaxTokens
  BY TokenAssumption DEF TypeOK, Token
<1>2. at[c] = "asking" /\ had[c] # NoRecord
  BY DEF Grant, TypeOK, CallsOK
<1>3. had[c].token \in 1..issued
  BY <1>1, <1>2, KnownToken DEF Bounded
<1>4. PICK l \in Listing :
        \/ /\ UNCHANGED <<issued, valid>>
           /\ got' = [got EXCEPT ![c] = [token |-> had[c].token, listing |-> l]]
        \/ /\ Rotate(had[c].token)
           /\ got' = [got EXCEPT ![c] = [token |-> issued + 1, listing |-> l]]
  BY DEF Grant
<1>5. CASE /\ UNCHANGED <<issued, valid>>
           /\ got' = [got EXCEPT ![c] = [token |-> had[c].token, listing |-> l]]
  <2>1. had[c].token \in 1..issued' \cap valid'
    BY <1>3, <1>5 DEF Grant
  <2>2. issued' \in Token /\ issued <= issued' /\ valid' \subseteq 1..issued'
    BY <1>1, <1>5 DEF TypeOK
  <2>3. valid \ {had[c].token} \subseteq valid'
    BY <1>5
  <2> QED
    BY <1>2, <1>3, <1>5, <2>1, <2>2, <2>3
<1>6. CASE /\ Rotate(had[c].token)
           /\ got' = [got EXCEPT ![c] = [token |-> issued + 1, listing |-> l]]
  <2>1. issued' = issued + 1 /\ issued' \in Token /\ issued <= issued'
    BY <1>1, <1>6, TokenAssumption DEF Rotate, Token
  <2>2. PICK old \in {{}, {had[c].token}} : valid' = (valid \ old) \cup {issued + 1}
    BY <1>6 DEF Rotate
  <2>3. issued + 1 \in 1..issued' \cap valid' /\ issued + 1 # had[c].token
    BY <1>1, <1>3, <2>1, <2>2
  <2>4. valid' \subseteq 1..issued'
    <3>1. 1..issued \subseteq 1..issued'
      BY <1>1, <2>1
    <3>2. valid \subseteq 1..issued
      BY DEF TypeOK
    <3> QED
      BY <2>2, <2>3, <3>1, <3>2
  <2>5. valid \ {had[c].token} \subseteq valid'
    BY <2>2
  <2> QED
    BY <1>2, <1>3, <1>6, <2>1, <2>3, <2>4, <2>5
<1> QED
  BY <1>4, <1>5, <1>6

LEMMA GrantOK ==
  ASSUME TypeOK, Bounded, NEW c \in Call, Grant(c)
  PROVE  TypeOK' /\ Bounded'
<1>1. /\ at[c] = "asking" /\ issued' \in Token /\ issued <= issued'
      /\ valid' \subseteq 1..issued'
  BY GrantEffect
<1>2. PICK t \in 1..issued', l \in Listing :
        got' = [got EXCEPT ![c] = [token |-> t, listing |-> l]]
  BY GrantEffect
<1> DEFINE r == [token |-> t, listing |-> l]
<1>3. issued \in Nat /\ issued' \in Nat /\ issued' <= MaxTokens
  BY <1>1, TokenAssumption DEF TypeOK, Token
<1>4. r \in Known(issued') /\ r \in Record /\ r # NoRecord
  BY <1>3, KnownMade
<1>5. Known(issued) \subseteq Known(issued')
  BY <1>1, <1>3, KnownGrows
<1> HIDE DEF r
<1>6. CallsOK'
  BY <1>1, <1>2, <1>4 DEF r, Grant, TypeOK, CallsOK, Stored
<1>7. late' \subseteq 1..issued'
  BY <1>1, <1>3 DEF Grant, TypeOK
<1>8. \A d \in Call : had'[d] \in Known(issued') /\ got'[d] \in Known(issued')
  BY <1>2, <1>4, <1>5 DEF r, Grant, Bounded, TypeOK, CallsOK
<1>9. file' \in Known(issued') /\ auth' \in Known(issued') /\ revHad' \in Known(issued')
  BY <1>5 DEF Grant, Bounded, operator
<1> QED
  BY <1>1, <1>6, <1>7, <1>8, <1>9 DEF Grant, TypeOK, Bounded, operator, history

(* Type correctness, with the bound on the tokens in use. *)
LEMMA CallTypeStep ==
  ASSUME TypeOK, Bounded, NEW c \in Call, CallStep(c)
  PROVE  TypeOK' /\ Bounded'
<1>1. CASE Begin(c)
  BY <1>1 DEF Begin, TypeOK, CallsOK, Bounded, google, operator, history
<1>2. CASE Load(c)
  <2>1. Bounded'
    BY <1>2, EndOK DEF Load, Bounded, TypeOK, CallsOK, google, operator
  <2> QED
    BY <1>2, <2>1, LoadOK
<1>3. CASE Store(c)
  <2>1. got[c] # NoRecord /\ got[c] \in Stored
    BY <1>3 DEF Store, TypeOK, CallsOK
  <2>2. file' \in Stored /\ file' \in Known(issued)
    BY <1>3, <2>1 DEF Store, TypeOK, Bounded
  <2> QED
    BY <1>3, <2>2, EndOK DEF Store, TypeOK, Bounded, Known, google, operator, history
<1>4. CASE StoreFails(c)
  <2>1. TypeOK'
    BY <1>4, EndOK DEF StoreFails, TypeOK, google, operator
  <2> QED
    BY <1>4, <2>1, EndOK DEF StoreFails, Bounded, Known, google, operator
<1>5. CASE Refused(c)
  <2>1. TypeOK'
    BY <1>5, EndOK DEF Refused, TypeOK, google, operator, history
  <2> QED
    BY <1>5, <2>1, EndOK DEF Refused, Bounded, Known, google, operator
<1>6. CASE GiveUp(c)
  <2>1. issued \in Nat /\ issued <= MaxTokens
    BY TokenAssumption DEF TypeOK, Token
  <2>2. at[c] = "asking" => had[c].token \in 1..issued
    BY <2>1, KnownToken DEF TypeOK, CallsOK, Bounded
  <2>3. late' \subseteq 1..issued
    BY <1>6, <2>2 DEF GiveUp, TypeOK
  <2>4. TypeOK'
    BY <1>6, <2>3, EndOK DEF GiveUp, TypeOK, operator
  <2> QED
    BY <1>6, <2>4, EndOK DEF GiveUp, Bounded, Known, operator
<1>7. CASE Deny(c)
  BY <1>7 DEF Deny, TypeOK, CallsOK, Bounded, google, operator, history
<1> QED
  BY <1>1, <1>2, <1>3, <1>4, <1>5, <1>6, <1>7, GrantOK DEF CallStep

(* The tokens in use stay bounded when Google issues one more. *)
LEMMA IssueOK ==
  ASSUME TypeOK, Bounded, issued < MaxTokens, issued' = issued + 1
  PROVE  /\ issued \in Nat /\ issued' \in Token /\ issued + 1 \in 1..issued'
         /\ 1..issued \subseteq 1..issued'
         /\ Known(issued) \subseteq Known(issued')
<1>1. issued \in Nat /\ issued >= 1
  BY TokenAssumption DEF TypeOK, Token
<1>2. issued' \in Token /\ issued + 1 \in 1..issued' /\ 1..issued \subseteq 1..issued'
  BY <1>1, TokenAssumption DEF Token
<1> QED
  BY <1>1, <1>2, KnownGrows

LEMMA OperatorTypeStep ==
  ASSUME TypeOK, Bounded, OperatorStep
  PROVE  TypeOK' /\ Bounded'
<1>1. CASE Exchange
  <2>1. PICK l \in Listing : auth' = [token |-> issued + 1, listing |-> l]
    BY <1>1 DEF Exchange
  <2>2. issued < MaxTokens /\ issued' = issued + 1 /\ valid' = valid \cup {issued + 1}
    BY <1>1 DEF Exchange
  <2>3. issued' \in Nat /\ issued' <= MaxTokens
    BY <2>2, IssueOK, TokenAssumption DEF Token
  <2>4. auth' \in Known(issued') /\ auth' \in Stored
    BY <2>1, <2>2, <2>3, IssueOK, KnownMade DEF Stored
  <2>5. valid' \subseteq 1..issued' /\ late' \subseteq 1..issued'
    BY <1>1, <2>2, IssueOK DEF TypeOK, Exchange
  <2>6. Bounded'
    BY <1>1, <2>2, <2>4, IssueOK DEF Bounded, Exchange, calls
  <2>7. auths' \in 0..MaxAuths
    BY <1>1, TokenAssumption DEF TypeOK, Exchange
  <2> QED
    BY <1>1, <2>2, <2>4, <2>5, <2>6, <2>7, IssueOK
    DEF TypeOK, CallsOK, Exchange, calls, history
<1>2. CASE WriteAuthorized
  BY <1>2 DEF WriteAuthorized, TypeOK, CallsOK, Bounded, Known, Stored, google, calls
<1>3. CASE AuthorizeFails
  BY <1>3 DEF AuthorizeFails, TypeOK, CallsOK, Bounded, Known, Stored, google, calls, history
<1>4. CASE RevokeLoad
  BY <1>4 DEF RevokeLoad, TypeOK, CallsOK, Bounded, google, calls, history
<1>5. CASE RevokeGrant
  BY <1>5 DEF RevokeGrant, TypeOK, CallsOK, Bounded, calls
<1>6. CASE RevokeDenied
  BY <1>6 DEF RevokeDenied, TypeOK, CallsOK, Bounded, Known, Stored, google, calls, history
<1>7. CASE RevokeLost
  BY <1>7 DEF RevokeLost, TypeOK, CallsOK, Bounded, Known, Stored, google, calls, history
<1>8. CASE RevokeDelete
  BY <1>8 DEF RevokeDelete, TypeOK, CallsOK, Bounded, Known, Stored, google, calls
<1> QED
  BY <1>1, <1>2, <1>3, <1>4, <1>5, <1>6, <1>7, <1>8 DEF OperatorStep

LEMMA LateTypeStep ==
  ASSUME TypeOK, Bounded, NEW t \in late, GrantLate(t)
  PROVE  TypeOK' /\ Bounded'
<1>1. CASE UNCHANGED <<issued, valid, lost>>
  BY <1>1 DEF GrantLate, TypeOK, CallsOK, Bounded, calls, operator
<1>2. CASE t \in valid /\ Rotate(t) /\ lost' = TRUE
  <2>1. issued < MaxTokens /\ issued' = issued + 1
    BY <1>2 DEF Rotate
  <2>2. valid' \subseteq valid \cup {issued + 1}
    BY <1>2 DEF Rotate
  <2>3. valid' \subseteq 1..issued' /\ late' \subseteq 1..issued'
    BY <2>1, <2>2, IssueOK DEF TypeOK, GrantLate
  <2>4. Bounded'
    BY <2>1, IssueOK DEF Bounded, GrantLate, calls, operator
  <2> QED
    BY <1>2, <2>1, <2>3, <2>4, IssueOK DEF GrantLate, TypeOK, CallsOK, calls, operator
<1> QED
  BY <1>1, <1>2 DEF GrantLate

LEMMA TypeInit == Init => TypeOK /\ Bounded
<1> SUFFICES ASSUME Init PROVE TypeOK /\ Bounded
  OBVIOUS
<1>1. 1 \in Nat /\ 1 <= MaxTokens /\ 1 \in 1..1 /\ 1 \in Token /\ {1} \subseteq 1..1
  BY TokenAssumption DEF Token
<1>2. file \in Known(1) /\ file \in Record /\ file # NoRecord
  BY <1>1, KnownMade DEF Init
<1>3. \A c \in Call : lock[by[c]] = NoCall /\ NoCall \notin Call
  BY TokenAssumption DEF Init
<1>4. CallsOK
  BY <1>3 DEF Init, CallsOK, Stored
<1>5. Bounded
  BY <1>2 DEF Init, Bounded, Known
<1>6. file \in Stored /\ auth \in Stored /\ revHad \in Stored
  BY <1>2 DEF Init, Stored
<1>7. issued \in Token /\ valid \subseteq 1..issued /\ late \subseteq 1..issued
  BY <1>1 DEF Init
<1>8. auths \in 0..MaxAuths
  BY TokenAssumption DEF Init
<1> QED
  BY <1>4, <1>5, <1>6, <1>7, <1>8 DEF Init, TypeOK

LEMMA TypeStep == TypeOK /\ Bounded /\ [Next]_vars => (TypeOK /\ Bounded)'
<1>1. TypeOK /\ Bounded /\ UNCHANGED vars => (TypeOK /\ Bounded)'
  BY DEF vars, google, calls, operator, history, TypeOK, CallsOK, Bounded
<1> QED
  BY <1>1, CallTypeStep, OperatorTypeStep, LateTypeStep DEF Next

LEMMA TypeCorrect == Spec => [](TypeOK /\ Bounded)
<1> QED
  BY TypeInit, TypeStep, PTL DEF Spec

-------------------------------------------------------------------------------
(* Once Google has accepted a revocation, the token it was about is dead,  *)
(* and stays dead, because a new token has a new number.                   *)
RevocationInv ==
  /\ rev # "idle" => revHad # NoRecord
  /\ rev = "accepted" => revHad.token \notin valid

LEMMA RevocationStep ==
  TypeOK /\ Bounded /\ RevocationInv /\ [Next]_vars => RevocationInv'
<1> SUFFICES ASSUME TypeOK, Bounded, RevocationInv, [Next]_vars PROVE RevocationInv'
  OBVIOUS
<1>1. rev # "idle" => revHad.token \in 1..issued /\ revHad.token # issued + 1
  <2>1. issued \in Nat /\ issued <= MaxTokens
    BY TokenAssumption DEF TypeOK, Token
  <2> QED
    BY <2>1, KnownToken DEF RevocationInv, Bounded
<1>2. ASSUME UNCHANGED <<rev, revHad>>, valid' \subseteq valid \cup {issued + 1}
      PROVE  RevocationInv'
  BY <1>1, <1>2 DEF RevocationInv
<1>3. ASSUME NEW c \in Call, CallStep(c) PROVE RevocationInv'
  <2>1. UNCHANGED <<rev, revHad>>
    BY <1>3 DEF CallStep, Begin, Load, Store, StoreFails, Refused, GiveUp, Grant, Deny, operator
  <2>2. valid' \subseteq valid \cup {issued + 1}
    BY <1>3 DEF CallStep, Begin, Load, Store, StoreFails, Refused, GiveUp, Grant, Rotate, Deny,
         google
  <2> QED
    BY <1>2, <2>1, <2>2
<1>4. ASSUME NEW t \in late, GrantLate(t) PROVE RevocationInv'
  BY <1>2, <1>4 DEF GrantLate, Rotate, operator
<1>5. CASE Exchange \/ WriteAuthorized \/ AuthorizeFails
  BY <1>2, <1>5 DEF Exchange, WriteAuthorized, AuthorizeFails, google
<1>6. CASE RevokeLoad
  BY <1>6 DEF RevokeLoad, RevocationInv, google
<1>7. CASE RevokeGrant
  BY <1>7 DEF RevokeGrant, RevocationInv
<1>8. CASE RevokeDenied \/ RevokeLost \/ RevokeDelete
  BY <1>8 DEF RevokeDenied, RevokeLost, RevokeDelete, RevocationInv
<1>9. CASE UNCHANGED vars
  BY <1>2, <1>9 DEF vars, google, operator
<1> QED
  BY <1>3, <1>4, <1>5, <1>6, <1>7, <1>8, <1>9 DEF Next, OperatorStep

(* The file disappears in revoke-google's last step only, after Google has *)
(* ended the token it had read: for any number of calls and providers.     *)
THEOREM LiveGrantKept == Spec => DeletedAfterRevocation
<1>1. Init => RevocationInv
  BY DEF Init, RevocationInv
<1>2. TypeOK /\ RevocationInv /\ [Next]_vars
        => [file # NoRecord /\ file' = NoRecord => revHad.token \notin valid]_vars
  <2> SUFFICES ASSUME TypeOK, RevocationInv, [Next]_vars, file # NoRecord, file' = NoRecord
               PROVE  revHad.token \notin valid
    OBVIOUS
  <2>1. ASSUME NEW c \in Call, CallStep(c) PROVE FALSE
    <3>1. at[c] = "answered" => got[c] # NoRecord
      BY DEF TypeOK, CallsOK
    <3> QED
      BY <2>1, <3>1
      DEF CallStep, Begin, Load, Store, StoreFails, Refused, GiveUp, Grant, Deny
  <2>2. ASSUME NEW t \in late, GrantLate(t) PROVE FALSE
    BY <2>2 DEF GrantLate
  <2>3. CASE RevokeDelete
    BY <2>3 DEF RevokeDelete, RevocationInv
  <2>4. ~UNCHANGED vars
    BY DEF vars
  <2> QED
    BY <2>1, <2>2, <2>3, <2>4
    DEF Next, OperatorStep, Exchange, WriteAuthorized, AuthorizeFails, RevokeLoad,
        RevokeGrant, RevokeDenied, RevokeLost
<1> QED
  BY <1>1, <1>2, TypeCorrect, RevocationStep, PTL DEF Spec, DeletedAfterRevocation

-------------------------------------------------------------------------------
(* The token of an authorization under way is used by nobody else. *)
AuthFresh ==
  auth # NoRecord =>
    /\ auth.token \notin late
    /\ file # NoRecord => file.token # auth.token
    /\ \A c \in Call : /\ had[c] # NoRecord => had[c].token # auth.token
                       /\ got[c] # NoRecord => got[c].token # auth.token

(* A new token is known to nobody but the call it was given to, until that *)
(* call stores it.                                                         *)
RotatedFresh ==
  \A c \in Call : Rotated(c) =>
    /\ got[c].token \notin late
    /\ file # NoRecord => file.token # got[c].token
    /\ \A d \in Call : /\ had[d] # NoRecord => had[d].token # got[c].token
                       /\ d # c /\ got[d] # NoRecord => got[d].token # got[c].token

(* New tokens that wait to be stored are alive, and a dead token in the    *)
(* file is about to be replaced by one of them.                            *)
Kept ==
  /\ file = NoRecord \/ rev = "accepted" => revoked
  /\ ~lost /\ ~revoked /\ ~stale =>
       /\ auth # NoRecord => auth.token \in valid
       /\ \A c \in Call : Rotated(c) => got[c].token \in valid
       /\ file.token \in valid \/ \E c \in Call : Rotated(c)

LEMMA TokensBounded ==
  ASSUME TypeOK, Bounded
  PROVE  /\ issued \in Nat /\ issued + 1 \notin 1..issued
         /\ \A r \in {file, auth, revHad} : r # NoRecord => r.token \in 1..issued
         /\ \A c \in Call : /\ had[c] # NoRecord => had[c].token \in 1..issued
                            /\ got[c] # NoRecord => got[c].token \in 1..issued
<1>1. issued \in Nat /\ issued <= MaxTokens
  BY TokenAssumption DEF TypeOK, Token
<1>2. issued + 1 \notin 1..issued
  BY <1>1
<1>3. \A r \in Known(issued) : r # NoRecord => r.token \in 1..issued
  BY <1>1, KnownToken
<1> QED
  BY <1>1, <1>2, <1>3 DEF Bounded

LEMMA AuthFreshCallStep ==
  ASSUME TypeOK, Bounded, AuthFresh, NEW c \in Call, CallStep(c)
  PROVE  AuthFresh'
<1>0. auth' = auth
  BY DEF CallStep, Begin, Load, Store, StoreFails, Refused, GiveUp, Grant, Deny, operator
<1>1. CASE Begin(c) \/ Deny(c)
  BY <1>0, <1>1 DEF Begin, Deny, AuthFresh, google
<1>2. CASE Load(c)
  <2>1. \A d \in Call : /\ had'[d] \in {had[d], file, NoRecord}
                        /\ got'[d] \in {got[d], NoRecord}
    BY <1>2, EndOK DEF Load, TypeOK, CallsOK
  <2> QED
    BY <1>0, <1>2, <2>1 DEF Load, AuthFresh, google
<1>3. CASE Store(c) \/ StoreFails(c) \/ Refused(c)
  <2>1. file' \in {file, got[c]} /\ late' = late /\ End(c)
    BY <1>3 DEF Store, StoreFails, Refused, google
  <2>2. \A d \in Call : /\ had'[d] \in {had[d], NoRecord}
                        /\ got'[d] \in {got[d], NoRecord}
    BY <2>1, EndOK
  <2> QED
    BY <1>0, <2>1, <2>2 DEF AuthFresh
<1>4. CASE GiveUp(c)
  <2>1. /\ file' = file /\ End(c)
        /\ late' = late \/ (at[c] = "asking" /\ late' = late \cup {had[c].token})
    BY <1>4 DEF GiveUp
  <2>2. at[c] = "asking" => had[c] # NoRecord
    BY DEF TypeOK, CallsOK
  <2>3. \A d \in Call : /\ had'[d] \in {had[d], NoRecord}
                        /\ got'[d] \in {got[d], NoRecord}
    BY <2>1, EndOK
  <2> QED
    BY <1>0, <2>1, <2>2, <2>3 DEF AuthFresh
<1>5. CASE Grant(c)
  <2>1. file' = file /\ late' = late /\ had' = had
    BY <1>5 DEF Grant
  <2>2. \A d \in Call : \/ got'[d] = got[d]
                        \/ d = c /\ got'[d].token \in {had[c].token, issued + 1}
    BY <1>5, GrantEffect DEF TypeOK, CallsOK
  <2>3. had[c] # NoRecord
    BY <1>5, GrantEffect
  <2> QED
    BY <1>0, <2>1, <2>2, <2>3, TokensBounded DEF AuthFresh
<1> QED
  BY <1>1, <1>2, <1>3, <1>4, <1>5 DEF CallStep

LEMMA AuthFreshStep ==
  TypeOK /\ Bounded /\ AuthFresh /\ [Next]_vars => AuthFresh'
<1> SUFFICES ASSUME TypeOK, Bounded, AuthFresh, [Next]_vars PROVE AuthFresh'
  OBVIOUS
<1>1. ASSUME NEW t \in late, GrantLate(t) PROVE AuthFresh'
  BY <1>1 DEF GrantLate, AuthFresh, calls, operator
<1>2. CASE Exchange
  <2>1. auth'.token = issued + 1 /\ UNCHANGED <<file, late, had, got>>
    BY <1>2 DEF Exchange, calls
  <2>2. issued + 1 \notin late
    BY TokensBounded DEF TypeOK
  <2> QED
    BY <2>1, <2>2, TokensBounded DEF AuthFresh
<1>3. CASE WriteAuthorized \/ AuthorizeFails
  BY <1>3 DEF WriteAuthorized, AuthorizeFails, AuthFresh
<1>4. CASE RevokeLoad \/ RevokeGrant \/ RevokeDenied \/ RevokeLost \/ RevokeDelete
  <2>1. UNCHANGED <<auth, late, had, got>> /\ file' \in {file, NoRecord}
    BY <1>4 DEF RevokeLoad, RevokeGrant, RevokeDenied, RevokeLost, RevokeDelete, google, calls
  <2> QED
    BY <2>1 DEF AuthFresh
<1>5. CASE UNCHANGED vars
  BY <1>5 DEF vars, google, calls, operator, AuthFresh
<1> QED
  BY <1>1, <1>2, <1>3, <1>4, <1>5, AuthFreshCallStep DEF Next, OperatorStep

LEMMA RotatedFreshCallStep ==
  ASSUME TypeOK, Bounded, RotatedFresh, NEW c \in Call, CallStep(c)
  PROVE  RotatedFresh'
<1>1. CASE Begin(c) \/ Deny(c)
  <2>1. UNCHANGED <<file, late, had, got>>
    BY <1>1 DEF Begin, Deny, google
  <2>2. \A d \in Call : at'[d] = "answered" => at[d] = "answered"
    BY <1>1 DEF Begin, Deny, TypeOK, CallsOK
  <2> QED
    BY <2>1, <2>2 DEF RotatedFresh, Rotated
<1>2. CASE Load(c)
  <2>1. UNCHANGED <<file, late>> /\ at[c] = "queued"
    BY <1>2 DEF Load, google
  <2>2. \A d \in Call : /\ at'[d] = "answered" => at[d] = "answered" /\ d # c
                        /\ d # c => had'[d] = had[d] /\ got'[d] = got[d]
    BY <1>2, <2>1, EndOK DEF Load, TypeOK, CallsOK
  <2>3. had'[c] \in {file, NoRecord} /\ got'[c] = NoRecord
    BY <1>2, <2>1, EndOK DEF Load, TypeOK, CallsOK
  <2> QED
    BY <2>1, <2>2, <2>3 DEF RotatedFresh, Rotated
<1>3. CASE Store(c) \/ StoreFails(c) \/ Refused(c) \/ GiveUp(c)
  <2>1. /\ End(c)
        /\ late' = late \/ (at[c] = "asking" /\ late' = late \cup {had[c].token})
        /\ file' = file \/ (at[c] = "answered" /\ file' = got[c])
    BY <1>3 DEF Store, StoreFails, Refused, GiveUp, google
  <2>2. \A d \in Call : /\ d # c => /\ at'[d] = at[d] /\ had'[d] = had[d]
                                   /\ got'[d] = got[d]
                        /\ at'[d] = "answered" => d # c
    BY <2>1, EndOK
  <2>3. had'[c] = NoRecord /\ got'[c] = NoRecord
    BY <2>1, EndOK
  <2>4. /\ at[c] = "asking" => had[c] # NoRecord
        /\ at[c] = "answered" => got[c] # NoRecord
    BY DEF TypeOK, CallsOK
  <2> SUFFICES ASSUME NEW d \in Call, Rotated(d)'
               PROVE  /\ got'[d].token \notin late'
                      /\ file' # NoRecord => file'.token # got'[d].token
                      /\ \A e \in Call :
                           /\ had'[e] # NoRecord => had'[e].token # got'[d].token
                           /\ e # d /\ got'[e] # NoRecord => got'[e].token # got'[d].token
    BY DEF RotatedFresh
  <2>5. d # c /\ Rotated(d) /\ got'[d] = got[d]
    BY <2>2 DEF Rotated
  <2> QED
    BY <2>1, <2>2, <2>3, <2>4, <2>5 DEF RotatedFresh
<1>4. CASE Grant(c)
  <2>1. UNCHANGED <<file, late, had>> /\ at' = [at EXCEPT ![c] = "answered"]
    BY <1>4 DEF Grant
  <2>2. /\ at[c] = "asking" /\ had[c] # NoRecord
        /\ got'[c].token \in {had[c].token, issued + 1}
        /\ \A d \in Call : d # c => got'[d] = got[d] /\ at'[d] = at[d]
    BY <1>4, <2>1, GrantEffect DEF TypeOK, CallsOK
  <2>3. issued + 1 \notin late
    BY TokensBounded DEF TypeOK
  <2>4. \A r \in {file} \cup {had[d] : d \in Call} \cup {got[d] : d \in Call} :
          r # NoRecord => r.token # issued + 1
    BY TokensBounded
  <2> SUFFICES ASSUME NEW d \in Call, Rotated(d)'
               PROVE  /\ got'[d].token \notin late
                      /\ file # NoRecord => file.token # got'[d].token
                      /\ \A e \in Call :
                           /\ had[e] # NoRecord => had[e].token # got'[d].token
                           /\ e # d /\ got'[e] # NoRecord => got'[e].token # got'[d].token
    BY <2>1 DEF RotatedFresh
  <2>5. CASE d = c
    <3>1. got'[c].token = issued + 1
      BY <2>1, <2>2, <2>5 DEF Rotated
    <3> QED
      BY <2>2, <2>3, <2>4, <2>5, <3>1
  <2>6. CASE d # c
    <3>1. Rotated(d) /\ got'[d] = got[d] /\ got[d] # NoRecord
      BY <2>1, <2>2, <2>6 DEF Rotated, TypeOK, CallsOK
    <3>2. got'[c].token # got[d].token
      BY <2>2, <2>4, <3>1 DEF RotatedFresh
    <3> QED
      BY <2>2, <3>1, <3>2 DEF RotatedFresh
  <2> QED
    BY <2>5, <2>6
<1> QED
  BY <1>1, <1>2, <1>3, <1>4 DEF CallStep

LEMMA RotatedFreshStep ==
  TypeOK /\ Bounded /\ AuthFresh /\ RotatedFresh /\ [Next]_vars => RotatedFresh'
<1> SUFFICES ASSUME TypeOK, Bounded, AuthFresh, RotatedFresh, [Next]_vars PROVE RotatedFresh'
  OBVIOUS
<1>1. ASSUME NEW t \in late, GrantLate(t) PROVE RotatedFresh'
  BY <1>1 DEF GrantLate, RotatedFresh, Rotated, calls
<1>2. CASE WriteAuthorized
  <2>1. UNCHANGED <<late, at, had, got>> /\ auth # NoRecord /\ file' = auth
    BY <1>2 DEF WriteAuthorized, google, calls
  <2>2. \A c \in Call : Rotated(c) => got[c] # NoRecord
    BY DEF Rotated, TypeOK, CallsOK
  <2> QED
    BY <2>1, <2>2 DEF AuthFresh, RotatedFresh, Rotated
<1>3. CASE Exchange \/ AuthorizeFails \/ RevokeLoad \/ RevokeGrant \/ RevokeDenied
           \/ RevokeLost \/ RevokeDelete
  <2>1. UNCHANGED <<late, at, had, got>> /\ file' \in {file, NoRecord}
    BY <1>3 DEF Exchange, AuthorizeFails, RevokeLoad, RevokeGrant, RevokeDenied, RevokeLost,
       RevokeDelete, google, calls
  <2> QED
    BY <2>1 DEF RotatedFresh, Rotated
<1>4. CASE UNCHANGED vars
  BY <1>4 DEF vars, google, calls, RotatedFresh, Rotated
<1> QED
  BY <1>1, <1>2, <1>3, <1>4, RotatedFreshCallStep DEF Next, OperatorStep

(* A call ends: what it wrote, if anything, was new, or the token the file *)
(* had; and if it leaves a new token unwritten, that token is lost.        *)
LEMMA KeptEnd ==
  ASSUME TypeOK, Kept, NEW c \in Call, End(c), lost \in BOOLEAN, stale \in BOOLEAN,
         UNCHANGED <<valid, auth, rev, revoked>>, lost => lost', stale => stale',
         file' = NoRecord => file = NoRecord,
         ~lost' /\ ~stale' /\ ~revoked =>
           \/ file' = got[c] /\ Rotated(c)
           \/ file'.token = file.token /\ ~Rotated(c)
  PROVE  Kept'
<1>1. \A d \in Call : Rotated(d)' => d # c /\ Rotated(d) /\ got'[d] = got[d]
  BY EndOK DEF Rotated
<1>2. \A d \in Call : d # c /\ Rotated(d) => Rotated(d)'
  BY EndOK DEF Rotated
<1> QED
  BY <1>1, <1>2 DEF Kept

LEMMA KeptCallStep ==
  ASSUME TypeOK, Bounded, AuthFresh, RotatedFresh, Kept, NEW c \in Call, CallStep(c)
  PROVE  Kept'
<1>0. UNCHANGED <<auth, rev, revoked>>
  BY DEF CallStep, Begin, Load, Store, StoreFails, Refused, GiveUp, Grant, Deny, operator, history
<1>1. CASE Begin(c) \/ Deny(c) \/ Load(c)
  <2>1. UNCHANGED <<file, valid, lost, stale>>
    BY <1>1 DEF Begin, Deny, Load, google, history
  <2>2. \A d \in Call : /\ at'[d] = "answered" <=> at[d] = "answered"
                        /\ at[d] = "answered" => got'[d] = got[d] /\ had'[d] = had[d]
    BY <1>1, EndOK DEF Begin, Deny, Load, TypeOK, CallsOK
  <2> QED
    BY <1>0, <2>1, <2>2 DEF Kept, Rotated
<1>2. CASE Store(c)
  <2>1. /\ UNCHANGED <<valid, lost>> /\ stale' = (stale \/ WritesBack(c)) /\ End(c)
        /\ at[c] = "answered" /\ file' = IF got[c] # had[c] THEN got[c] ELSE file
    BY <1>2 DEF Store, google
  <2>2. got[c] # NoRecord
    BY <2>1 DEF TypeOK, CallsOK
  <2>3. CASE Rotated(c)
    BY <1>0, <2>1, <2>2, <2>3, KeptEnd DEF Rotated, TypeOK
  <2>4. CASE ~Rotated(c)
    <3>1. got[c].token = had[c].token
      BY <2>1, <2>4 DEF Rotated
    <3>2. ~stale' /\ ~revoked => file'.token = file.token
      BY <2>1, <3>1 DEF WritesBack, Kept
    <3> QED
      BY <1>0, <2>1, <2>2, <2>4, <3>2, KeptEnd DEF TypeOK
  <2> QED
    BY <2>3, <2>4
<1>3. CASE StoreFails(c) \/ Refused(c) \/ GiveUp(c)
  <2>1. /\ UNCHANGED <<file, valid, stale>> /\ End(c)
        /\ lost' = lost \/ (lost' \in BOOLEAN /\ (lost => lost'))
        /\ Rotated(c) => lost'
    BY <1>3 DEF StoreFails, Refused, GiveUp, Rotated, google, history, TypeOK
  <2> QED
    BY <1>0, <2>1, KeptEnd DEF TypeOK
<1>4. CASE Grant(c)
  <2>1. UNCHANGED <<file, had, lost, stale>> /\ at' = [at EXCEPT ![c] = "answered"]
    BY <1>4 DEF Grant, history
  <2>2. /\ at[c] = "asking" /\ had[c] # NoRecord
        /\ valid \ {had[c].token} \subseteq valid'
        /\ got'[c].token \in valid'
        /\ got'[c].token = had[c].token => UNCHANGED valid
        /\ \A d \in Call : d # c => got'[d] = got[d] /\ at'[d] = at[d]
    BY <1>4, <2>1, GrantEffect DEF TypeOK, CallsOK
  <2>3. auth # NoRecord => auth.token # had[c].token
    BY <2>2 DEF AuthFresh
  <2>4. \A d \in Call : Rotated(d) => d # c /\ got[d].token # had[c].token
    BY <2>2 DEF Rotated, RotatedFresh
  <2>5. \A d \in Call : d # c => (Rotated(d)' <=> Rotated(d))
    BY <2>1, <2>2 DEF Rotated
  <2>6. Rotated(c)' <=> got'[c].token # had[c].token
    BY <2>1 DEF Rotated, TypeOK, CallsOK
  <2> QED
    BY <1>0, <2>1, <2>2, <2>3, <2>4, <2>5, <2>6 DEF Kept
<1> QED
  BY <1>1, <1>2, <1>3, <1>4 DEF CallStep

LEMMA KeptStep ==
  TypeOK /\ Bounded /\ AuthFresh /\ RotatedFresh /\ Kept /\ [Next]_vars => Kept'
<1> SUFFICES ASSUME TypeOK, Bounded, AuthFresh, RotatedFresh, Kept, [Next]_vars PROVE Kept'
  OBVIOUS
<1>1. ASSUME NEW t \in late, GrantLate(t) PROVE Kept'
  <2>1. CASE lost' = TRUE
    BY <1>1, <2>1 DEF Kept, GrantLate, operator
  <2>2. CASE UNCHANGED <<valid, lost>>
    BY <1>1, <2>2 DEF GrantLate, Kept, Rotated, calls, operator
  <2> QED
    BY <1>1, <2>1, <2>2 DEF GrantLate
<1>2. CASE Exchange
  BY <1>2 DEF Exchange, Kept, Rotated, calls, history
<1>3. CASE WriteAuthorized \/ AuthorizeFails
  <2>1. auth # NoRecord /\ file' \in {file, auth} /\ auth' = NoRecord
    BY <1>3 DEF WriteAuthorized, AuthorizeFails
  <2>2. UNCHANGED <<valid, at, had, got, rev, lost, stale, revoked>>
    BY <1>3 DEF WriteAuthorized, AuthorizeFails, google, calls, history
  <2> QED
    BY <2>1, <2>2 DEF Kept, Rotated
<1>4. CASE RevokeGrant
  BY <1>4 DEF RevokeGrant, Kept
<1>5. CASE RevokeLoad \/ RevokeDenied \/ RevokeLost
  BY <1>5 DEF RevokeLoad, RevokeDenied, RevokeLost, Kept, Rotated, google, calls, history
<1>6. CASE RevokeDelete
  BY <1>6 DEF RevokeDelete, Kept
<1>7. CASE UNCHANGED vars
  BY <1>7 DEF vars, google, calls, operator, history, Kept, Rotated
<1> QED
  BY <1>1, <1>2, <1>3, <1>4, <1>5, <1>6, <1>7, KeptCallStep DEF Next, OperatorStep

(* Through any number of providers, each with a lock of its own, no        *)
(* rotation that Google's answer reported is overwritten by the order in   *)
(* which calls, authorizations and revocations overlap, save by a call     *)
(* that writes its re-listed scopes over a record replaced meanwhile.      *)
THEOREM ProvidersKeepRotation == Spec => []RotationKept
<1>1. Init => AuthFresh /\ RotatedFresh /\ Kept
  <2> SUFFICES ASSUME Init PROVE AuthFresh /\ RotatedFresh /\ Kept
    OBVIOUS
  <2>1. file # NoRecord /\ file.token \in valid
    <3>1. 1 \in Nat /\ 1 <= MaxTokens /\ 1 \in 1..1
      BY TokenAssumption
    <3>2. PICK l \in Listing : file = [token |-> 1, listing |-> l]
      BY DEF Init
    <3> QED
      BY <3>1, <3>2, KnownMade DEF Init
  <2> QED
    BY <2>1 DEF Init, AuthFresh, RotatedFresh, Rotated, Kept
<1>2. Kept => RotationKept
  BY DEF Kept, RotationKept
<1> QED
  BY <1>1, <1>2, TypeCorrect, AuthFreshStep, RotatedFreshStep, KeptStep, PTL DEF Spec

-------------------------------------------------------------------------------
(* The loopback receiver.                                                  *)

(* The inductive invariant of the receiver: the connection whose code is used *)
(* has sent a valid callback and its handler has ended, so that its page      *)
(* stands.                                                                    *)
ReceiverInv ==
  /\ conn = [k \in Connection |-> conn[k]]
  /\ peer = [k \in Connection |-> peer[k]]
  /\ page = [k \in Connection |-> page[k]]
  /\ result \in Connection \cup {NoConnection}
  /\ result # NoConnection => conn[result] = "closed"
  /\ OneValidatedCode

LEMMA NextReceiver ==
  ASSUME ReceiverInv, [LoopNext]_loopVars
  PROVE  ReceiverInv'
<1> USE LoopbackAssumption DEF LoopbackAssumption
<1>1. ASSUME NEW k \in Connection, Connect(k)
      PROVE  ReceiverInv'
  BY <1>1 DEF Connect, ReceiverInv, OneValidatedCode
<1>2. ASSUME NEW k \in Connection, Speak(k)
      PROVE  ReceiverInv'
  <2>1. PICK what \in {"good", "bad", "gone"} : Send(k, what)
    BY <1>2 DEF Speak
  <2>2. k # result
    BY <2>1 DEF Send, ReceiverInv
  <2>3. QED
    BY <2>1, <2>2 DEF Send, ReceiverInv, OneValidatedCode
<1>3. ASSUME NEW k \in Connection, Start(k) \/ Refuse(k)
      PROVE  ReceiverInv'
  <2>1. k # result /\ UNCHANGED <<peer, result, outcome>>
    BY <1>3 DEF Start, Refuse, ReceiverInv
  <2>2. \/ /\ page' = [page EXCEPT ![k] = "409"] \/ page' = [page EXCEPT ![k] = "400"]
           /\ conn' = [conn EXCEPT ![k] = "closed"]
        \/ page' = page /\ conn' = [conn EXCEPT ![k] = "reading"]
    BY <1>3 DEF Start, Refuse, Answer
  <2>3. QED
    BY <2>1, <2>2 DEF ReceiverInv, OneValidatedCode
<1>4. ASSUME NEW k \in Connection, Read(k)
      PROVE  ReceiverInv'
  <2>1. k # result /\ k # NoConnection /\ UNCHANGED <<peer, outcome>>
    BY <1>4 DEF Read, ReceiverInv
  <2>2. /\ conn' = [conn EXCEPT ![k] = "closed"]
        /\ \/ /\ peer[k] = "good" /\ result = NoConnection
              /\ result' = k /\ page' = [page EXCEPT ![k] = "200"]
           \/ result' = result /\ page' = [page EXCEPT ![k] = "400"]
    BY <1>4 DEF Read, Answer
  <2>3. QED
    BY <2>1, <2>2 DEF ReceiverInv, OneValidatedCode
<1>5. CASE Wait \/ GotCode \/ Timeout \/ Return
  BY <1>5 DEF Wait, GotCode, Timeout, Return, Stop,
       ReceiverInv, OneValidatedCode
<1>6. CASE UNCHANGED loopVars
  BY <1>6 DEF loopVars, ReceiverInv, OneValidatedCode
<1>7. QED
  BY <1>1, <1>2, <1>3, <1>4, <1>5, <1>6 DEF LoopNext

(* Whatever rejected callbacks come before it, beside it or after it, and in  *)
(* whatever order the handlers of any number of connections run, only a valid *)
(* callback ends the wait with a code, and only its peer is told so.          *)
THEOREM OnlyTheValidCallbackCounts ==
  LoopSpec => []OneValidatedCode
<1>1. LoopInit => ReceiverInv
  BY LoopbackAssumption DEF LoopInit, LoopbackAssumption, ReceiverInv, OneValidatedCode
<1>2. ReceiverInv /\ [LoopNext]_loopVars => ReceiverInv'
  BY NextReceiver
<1>3. ReceiverInv => OneValidatedCode
  BY DEF ReceiverInv
<1>4. QED
  BY <1>1, <1>2, <1>3, PTL DEF LoopSpec
===============================================================================
