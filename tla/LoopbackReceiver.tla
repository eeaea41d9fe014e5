--------------------------- MODULE LoopbackReceiver ---------------------------
(***************************************************************************)
(* GoogleOAuthLoopbackReceiver (src/src/rankrat/providers/google_oauth.py):*)
(* a listener on the loopback interface that waits for the one callback of *)
(* an authorization.                                                       *)
(*                                                                         *)
(* Every connection has a handler task of its own.  The handler looks at   *)
(* the result before it awaits the request and sets it afterwards, so two  *)
(* handlers can both have found it pending.  The waiter closes the         *)
(* listener and waits for every connection that is still open              *)
(* (Server.wait_closed of Python 3.12 and later).                          *)
(*                                                                         *)
(* A request is reduced to "good" (the exact path, this session's state    *)
(* and a code) or "bad"; "gone" is a peer that hung up before its request  *)
(* was complete.  The wording of the last rejection is left out.           *)
(***************************************************************************)
EXTENDS Naturals

CONSTANTS
  Connection,
  NoConnection

ASSUME LoopbackAssumption == NoConnection \notin Connection

VARIABLES
  listening,
  conn,      \* where the handler of each connection is
  peer,      \* what its peer has sent
  page,      \* the status it was answered with
  result,    \* the connection whose code the future holds
  waiter,    \* where wait_for_code is
  outcome    \* what wait_for_code returns or raises

loopVars == <<listening, conn, peer, page, result, waiter, outcome>>

LoopInit ==
  /\ listening = TRUE
  /\ conn = [k \in Connection |-> "none"]
  /\ peer = [k \in Connection |-> "silent"]
  /\ page = [k \in Connection |-> "none"]
  /\ result = NoConnection
  /\ waiter = "elsewhere"
  /\ outcome = "none"

-------------------------------------------------------------------------------
Connect(k) ==
  /\ listening /\ conn[k] = "none"
  /\ conn' = [conn EXCEPT ![k] = "accepted"]
  /\ UNCHANGED <<listening, peer, page, result, waiter, outcome>>

Send(k, what) ==
  /\ conn[k] \in {"accepted", "reading"} /\ peer[k] = "silent"
  /\ peer' = [peer EXCEPT ![k] = what]
  /\ UNCHANGED <<listening, conn, page, result, waiter, outcome>>

(* The finally clause of a handler. *)
Answer(k, status) ==
  /\ page' = [page EXCEPT ![k] = status]
  /\ conn' = [conn EXCEPT ![k] = "closed"]

(* A handler up to readuntil. *)
Start(k) ==
  /\ conn[k] = "accepted"
  /\ IF result # NoConnection
     THEN Answer(k, "409")
     ELSE conn' = [conn EXCEPT ![k] = "reading"] /\ UNCHANGED page
  /\ UNCHANGED <<listening, peer, result, waiter, outcome>>

(* The peer check: only 127.0.0.1 may talk to a loopback listener. *)
Refuse(k) ==
  /\ conn[k] = "accepted"
  /\ Answer(k, "400")
  /\ UNCHANGED <<listening, peer, result, waiter, outcome>>

ReadAny(k) ==                        \* mutant: a rejected callback settles the future
  /\ conn[k] = "reading" /\ peer[k] # "silent"
  /\ IF result = NoConnection
     THEN result' = k /\ Answer(k, IF peer[k] = "good" THEN "200" ELSE "400")
     ELSE Answer(k, "400") /\ UNCHANGED result
  /\ UNCHANGED <<listening, peer, waiter, outcome>>

ReadComplete(k) ==                   \* mutant: a peer that hangs up is not noticed
  /\ peer[k] # "gone"
  /\ conn[k] = "reading" /\ peer[k] # "silent"
  /\ IF peer[k] = "good" /\ result = NoConnection
     THEN result' = k /\ Answer(k, "200")
     ELSE Answer(k, "400") /\ UNCHANGED result
  /\ UNCHANGED <<listening, peer, waiter, outcome>>

(* The request is complete, or never will be.  set_result raises when      *)
(* another handler was first.                                              *)
Read(k) ==
  /\ conn[k] = "reading" /\ peer[k] # "silent"
  /\ IF peer[k] = "good" /\ result = NoConnection
     THEN result' = k /\ Answer(k, "200")
     ELSE Answer(k, "400") /\ UNCHANGED result
  /\ UNCHANGED <<listening, peer, waiter, outcome>>

-------------------------------------------------------------------------------
(* wait_for_code is called on a listener that start has bound. *)
Wait ==
  /\ waiter = "elsewhere"
  /\ waiter' = "waiting"
  /\ UNCHANGED <<listening, conn, peer, page, result, outcome>>

(* wait_for ends one way or the other, and aclose stops the listener. *)
Stop(how) ==
  /\ waiter = "waiting"
  /\ waiter' = "closing"
  /\ outcome' = how
  /\ listening' = FALSE
  /\ UNCHANGED <<conn, peer, page, result>>

GotCode == result # NoConnection /\ Stop("code")

Timeout == result = NoConnection /\ Stop("timeout")

(* wait_closed returns when no connection is left. *)
Return ==
  /\ waiter = "closing"
  /\ \A k \in Connection : conn[k] \in {"none", "closed"}
  /\ waiter' = "returned"
  /\ UNCHANGED <<listening, conn, peer, page, result, outcome>>

-------------------------------------------------------------------------------
Speak(k) == \E what \in {"good", "bad", "gone"} : Send(k, what)

LoopNext ==
  \/ \E k \in Connection : Connect(k) \/ Speak(k) \/ Start(k) \/ Refuse(k) \/ Read(k)
  \/ Wait \/ GotCode \/ Timeout \/ Return

(* The event loop starts handlers, wakes them when their request is there, *)
(* fires the timer and wakes the waiter.  Nothing makes a peer speak: the  *)
(* handlers read without a timeout.                                        *)
LoopFairness ==
  /\ \A k \in Connection : WF_loopVars(Start(k)) /\ WF_loopVars(Read(k))
  /\ WF_loopVars(GotCode) /\ WF_loopVars(Timeout) /\ WF_loopVars(Return)

LoopSpec == LoopInit /\ [][LoopNext]_loopVars /\ LoopFairness

-------------------------------------------------------------------------------
(* Properties. *)

(* Only a validated callback ends the wait with a code, whatever rejected  *)
(* ones came before or beside it (test_google_oauth.py:                    *)
(* test_rejected_callback_does_not_consume_the_valid_callback), and of the *)
(* connections that pass the check of the future before it is set, one is  *)
(* told that the authorization is complete: the one whose code is used.    *)
OneValidatedCode ==
  /\ outcome = "code" => result # NoConnection
  /\ result # NoConnection => peer[result] = "good"
  /\ \A k \in Connection : page[k] = "200" <=> result = k

(* A peer that is connected, or about to be read, and says nothing. *)
Idle(k) == conn[k] \in {"accepted", "reading"} /\ peer[k] = "silent"

(* wait_for_code: "Wait for one validated callback, then close the listener *)
(* regardless of outcome".  Nobody is asked to be polite: the wait always   *)
(* comes to its end and the listener is closed, whatever the peers do, and  *)
(* the caller gets its code or its error unless a peer that has connected   *)
(* never sends a request and never hangs up.  Such a peer, and nothing      *)
(* else, keeps it beyond the timeout.                                       *)
WaiterReturns ==
  []<>(\/ waiter \in {"elsewhere", "returned"}
       \/ waiter = "closing" /\ ~listening /\ \E k \in Connection : Idle(k))
===============================================================================
