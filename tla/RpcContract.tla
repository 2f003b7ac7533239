---------------------------- MODULE RpcContract ----------------------------
(***************************************************************************)
(* What one RPC promises its caller, whatever connections, locks, channels *)
(* and timers the client uses to keep the promise: a call is issued once,  *)
(* the service answers it at most once, a call that returns success hands  *)
(* back the service's answer to that very call, and a call may give up at  *)
(* any time without an answer.                                             *)
(***************************************************************************)
EXTENDS Integers

CONSTANTS Calls,       \* the calls an application makes, one goroutine each
          OnlyCalls,   \* those made with OnlyCall(true): nobody waits for them
          Codes,       \* the codes a service can answer, 0 for success
          Nil          \* the absence of an answer

VARIABLES status,      \* what the application sees of each call
          answer,      \* the code the service answered each call, or Nil
          value        \* the call whose reply packet was handed back, or Nil

vars == <<status, answer, value>>

Init == /\ status = [c \in Calls |-> "new"]
        /\ answer = [c \in Calls |-> Nil]
        /\ value  = [c \in Calls |-> Nil]

Return(c, s) == status[c] = "pending" /\ status' = [status EXCEPT ![c] = s]

Issue(c) == /\ status[c] = "new"
            /\ status' = [status EXCEPT ![c] = "pending"]
            /\ UNCHANGED <<answer, value>>

(* The service may answer a call that has already been given up. *)
Serve(c, code) == /\ status[c] # "new"
                  /\ answer[c] = Nil
                  /\ answer' = [answer EXCEPT ![c] = code]
                  /\ UNCHANGED <<status, value>>

Succeed(c) == /\ c \notin OnlyCalls
              /\ answer[c] = 0
              /\ Return(c, "ok")
              /\ value' = [value EXCEPT ![c] = c]
              /\ UNCHANGED answer

Sent(c) == c \in OnlyCalls /\ Return(c, "sent") /\ UNCHANGED <<answer, value>>

(* Without a connection a call fails before anything was sent. *)
Fail(c) == /\ status[c] \in {"new", "pending"}
           /\ status' = [status EXCEPT ![c] = "failed"]
           /\ UNCHANGED <<answer, value>>

Next == \E c \in Calls : \/ Issue(c) \/ Succeed(c) \/ Sent(c) \/ Fail(c)
                         \/ \E code \in Codes : Serve(c, code)

Spec == Init /\ [][Next]_vars
=============================================================================
